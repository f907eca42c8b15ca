--------------------------- MODULE PortfolioProofs ---------------------------
(***************************************************************************)
(* Every safety property of BinaryMarket and Portfolio, for any accounts,  *)
(* orders, requests, futures events and agents.                            *)
(*                                                                         *)
(* RowsInv ties the rows of the orders to the trades; from it follow that  *)
(* fills are trades and that a deletion spares history.  AccountInv,       *)
(* ListInv, CashInv, ShareInv, HoldingInv, PriorityInv and EarnedInv are   *)
(* the invariants of accounts, the paged list, balances, shares,           *)
(* positions, the book's priority and the cost basis.                      *)
(***************************************************************************)
EXTENDS Portfolio, Sums, SequenceTheorems

-----------------------------------------------------------------------------
(* Numbers and orders *)

\* A set of numbers that has 0, and with a number the next one up to n, has them all up to n.
LEMMA CountUp ==
    ASSUME NEW n \in Nat, NEW Good, 0 \in Good, \A i \in 0..(n - 1) : i \in Good => i + 1 \in Good
    PROVE  \A i \in 0..n : i \in Good
<1> DEFINE Bad == {i \in 0..n : i \notin Good}
<1>1. SUFFICES ASSUME Bad # {}
               PROVE  FALSE
  OBVIOUS
<1> DEFINE up == {0..i : i \in Bad}
<1>2. PICK T \in up : \A U \in up : U \subseteq T => U = T
  <2> DEFINE S == 0..n
  <2>1. up \in SUBSET SUBSET S /\ up # {}
    BY <1>1
  <2>2. IsFiniteSet(S)
    BY FS_Interval
  <2> HIDE DEF up, S
  <2> QED
    BY <2>1, <2>2, LeastSubset
<1>3. PICK i \in Bad : T = 0..i
  BY <1>2
<1>7. ASSUME NEW j \in Bad, j < i
      PROVE  FALSE
  <2>1. 0..j \subseteq T /\ i \in T /\ i \notin 0..j
    BY <1>3, <1>7
  <2> QED
    BY <1>2, <2>1
<1>4. i # 0 /\ i \in 0..n /\ i \notin Good
  OBVIOUS
<1>5. i - 1 \in 0..(n - 1) /\ i - 1 < i /\ (i - 1) + 1 = i
  BY <1>4
<1>6. i - 1 \in Good
  BY <1>5, <1>7
<1> QED
  BY <1>4, <1>5, <1>6

\* R is a strict total order on S.
Sorts(R, S) ==
    /\ \A x \in S : <<x, x>> \notin R
    /\ \A x, y, z \in S : <<x, y>> \in R /\ <<y, z>> \in R => <<x, z>> \in R
    /\ \A x, y \in S : x = y \/ <<x, y>> \in R \/ <<y, x>> \in R

\* A finite set that is ordered has a last element.
LEMMA LastElement ==
    ASSUME NEW S, IsFiniteSet(S), S # {}, NEW R, Sorts(R, S)
    PROVE  \E x \in S : \A y \in S \ {x} : <<y, x>> \in R
<1> DEFINE Good == {T \in SUBSET S : T = {} \/ \E x \in T : \A y \in T \ {x} : <<y, x>> \in R}
<1>1. {} \in Good
  OBVIOUS
<1>2. ASSUME NEW T \in SUBSET S, NEW z \in S \ T, T \in Good
      PROVE  T \cup {z} \in Good
  <2>1. CASE T = {}
    BY <2>1
  <2>2. CASE T # {}
    <3>1. PICK x \in T : \A y \in T \ {x} : <<y, x>> \in R
      BY <1>2, <2>2
    <3>2. CASE <<x, z>> \in R
      <4>1. \A y \in (T \cup {z}) \ {z} : <<y, z>> \in R
        BY <3>1, <3>2 DEF Sorts
      <4> QED
        BY <4>1
    <3>3. CASE <<z, x>> \in R
      <4>1. \A y \in (T \cup {z}) \ {x} : <<y, x>> \in R
        BY <3>1, <3>3
      <4> QED
        BY <4>1
    <3> QED
      BY <3>1, <3>2, <3>3 DEF Sorts
  <2> QED
    BY <2>1, <2>2
<1> HIDE DEF Good
<1>3. S \in Good
  BY <1>1, <1>2, SubsetInduction
<1> QED
  BY <1>3 DEF Good

\* b lists S in the order of R.
Lists(b, R, S) ==
    /\ b \in [1..Cardinality(S) -> S]
    /\ \A i, j \in 1..Cardinality(S) : i < j => <<b[i], b[j]>> \in R

\* A finite set can be listed in any order of its elements.
LEMMA ListExists ==
    ASSUME NEW S, IsFiniteSet(S), NEW R, Sorts(R, S)
    PROVE  \E b : Lists(b, R, S)
<1> DEFINE Good == {T \in SUBSET S : \E b : Lists(b, R, T)}
<1>1. ASSUME NEW T \in SUBSET S, \A U \in SUBSET T : U # T => U \in Good
      PROVE  T \in Good
  <2>1. IsFiniteSet(T) /\ Cardinality(T) \in Nat
    BY FS_Subset, FS_CardinalityType
  <2>2. CASE T = {}
    <3>1. Cardinality(T) = 0
      BY <2>2, FS_EmptySet
    <3>2. Lists([i \in 1..0 |-> i], R, T)
      BY <3>1 DEF Lists
    <3> QED
      BY <3>2
  <2>3. CASE T # {}
    <3>1. Sorts(R, T)
      BY DEF Sorts
    <3>2. PICK x \in T : \A y \in T \ {x} : <<y, x>> \in R
      BY <2>1, <2>3, <3>1, LastElement
    <3> DEFINE U == T \ {x}
               n == Cardinality(T)
    <3>3. U \in Good
      BY <1>1
    <3>4. PICK b : Lists(b, R, U)
      BY <3>3
    <3>5. n \in Nat /\ Cardinality(U) = n - 1 /\ U \subseteq T
      BY <2>1, FS_RemoveElement
    <3> DEFINE c == [i \in 1..n |-> IF i = n THEN x ELSE b[i]]
    <3>6. b \in [1..(n - 1) -> U] /\ \A i, j \in 1..(n - 1) : i < j => <<b[i], b[j]>> \in R
      BY <3>4, <3>5 DEF Lists
    <3>7. \A i \in 1..n : i # n => i \in 1..(n - 1)
      BY <3>5
    <3>8. c \in [1..n -> T]
      BY <3>5, <3>6, <3>7
    <3>9. ASSUME NEW i \in 1..n, NEW j \in 1..n, i < j
          PROVE  <<c[i], c[j]>> \in R
      <4>1. i \in 1..(n - 1) /\ i # n /\ c[i] = b[i] /\ b[i] \in U
        BY <3>5, <3>6, <3>9
      <4>2. CASE j = n
        BY <3>2, <4>1, <4>2
      <4>3. CASE j # n
        BY <3>6, <3>7, <3>9, <4>1, <4>3
      <4> QED
        BY <4>2, <4>3
    <3> HIDE DEF c, U
    <3>10. Lists(c, R, T)
      BY <3>8, <3>9 DEF Lists
    <3> QED
      BY <3>10
  <2> QED
    BY <2>2, <2>3
<1> HIDE DEF Good
<1>2. S \in Good
  BY <1>1, StrongInduction
<1> QED
  BY <1>2 DEF Good

\* A list has every element, and each once.
LEMMA ListComplete ==
    ASSUME NEW S, IsFiniteSet(S), NEW R, Sorts(R, S), NEW b, Lists(b, R, S)
    PROVE  /\ \A x \in S : \E i \in 1..Cardinality(S) : x = b[i]
           /\ \A i, j \in 1..Cardinality(S) : b[i] = b[j] => i = j
<1> DEFINE n == Cardinality(S)
<1>1. n \in Nat /\ b \in [1..n -> S] /\ \A i, j \in 1..n : i < j => <<b[i], b[j]>> \in R
  BY FS_CardinalityType DEF Lists
<1>2. ASSUME NEW i \in 1..n, NEW j \in 1..n, b[i] = b[j]
      PROVE  i = j
  <2>1. CASE i < j
    BY <1>1, <1>2, <2>1 DEF Sorts
  <2>2. CASE j < i
    BY <1>1, <1>2, <2>2 DEF Sorts
  <2> QED
    BY <1>1, <2>1, <2>2
<1>3. b \in Injection(1..n, S)
  BY <1>1, <1>2 DEF Injection, IsInjective
<1>4. Cardinality(1..n) = n
  BY <1>1, FS_Interval
<1>5. b \in Surjection(1..n, S)
  <2>1. Cardinality(1..n) = Cardinality(S)
    BY <1>4
  <2> HIDE DEF n
  <2> QED
    BY <1>3, <2>1, FS_Injection
<1> HIDE DEF n
<1> QED
  BY <1>2, <1>5 DEF Surjection, n

-----------------------------------------------------------------------------
(* Sums over the trades of a sequence *)

\* K are the indices I of a sequence of m elements and, after them, the indices J of another
\* one; h has the values of f and g there.
Joins(f, I, m, g, J, h, K) ==
    /\ I \subseteq 1..m /\ J \subseteq Nat \ {0}
    /\ \A i \in I : f[i] \in Int /\ h[i] = f[i]
    /\ \A j \in J : g[j] \in Int /\ h[m + j] = g[j]
    /\ \A k : k \in K <=> k \in I \/ \E j \in J : k = m + j

\* The sum over two lists, one after the other, is the sum of the sums.
LEMMA JoinedSum ==
    ASSUME NEW m \in Nat, NEW f, NEW g, NEW h, NEW I, NEW J, NEW K,
           IsFiniteSet(J), Joins(f, I, m, g, J, h, K)
    PROVE  SumFunctionOnSet(h, K) = SumFunctionOnSet(f, I) + SumFunctionOnSet(g, J)
<1> USE DEF Joins
<1> DEFINE N == {m + j : j \in J}
           name == [j \in J |-> m + j]
<1>1. IsFiniteSet(I) /\ IsFiniteSet(J)
  <2>1. IsFiniteSet(1..m)
    BY FS_Interval
  <2> QED
    BY <2>1, FS_Subset
<1>2. Renames(name, h, g, J, N)
  <2>1. ASSUME NEW r \in J
        PROVE  name[r] \in N /\ g[r] \in Int /\ h[name[r]] = g[r]
    OBVIOUS
  <2>2. ASSUME NEW r \in J, NEW s \in J, name[r] = name[s]
        PROVE  r = s
    BY <2>2
  <2>3. \A k \in N : \E r \in J : k = name[r]
    OBVIOUS
  <2> HIDE DEF name, N
  <2> QED
    BY <2>1, <2>2, <2>3 DEF Renames
<1>3. K = I \cup N /\ I \cap N = {}
  OBVIOUS
<1>4. (\A x \in I \cup N : h[x] \in Int) /\ \A x \in I : f[x] \in Int /\ h[x] = f[x]
  OBVIOUS
<1> HIDE DEF name, N, Joins
<1>5. IsFiniteSet(N) /\ SumFunctionOnSet(h, N) = SumFunctionOnSet(g, J)
  BY <1>1, <1>2, SumRename
<1>6. SumFunctionOnSet(h, I \cup N) = SumFunctionOnSet(h, I) + SumFunctionOnSet(h, N)
  BY <1>1, <1>3, <1>4, <1>5, SumDisjoint
<1>7. SumFunctionOnSet(h, I) = SumFunctionOnSet(f, I)
  BY <1>1, <1>4, SumAgree
<1> QED
  BY <1>3, <1>5, <1>6, <1>7

\* A row of trades.
TradeRow == [taker : Orders \cup {NoOrder}, maker : Orders \cup {NoOrder},
             buyer : Accounts, seller : Accounts, outcome : Outcome,
             price : Nat, quantity : Nat \ {0}, at : Nat]

\* What the elements of a concatenation are.
LEMMA Concat ==
    ASSUME NEW s \in Seq(TradeRow), NEW d \in Seq(TradeRow)
    PROVE  /\ Len(s) \in Nat /\ Len(d) \in Nat /\ DOMAIN s = 1..Len(s) /\ DOMAIN d = 1..Len(d)
           /\ s \o d \in Seq(TradeRow)
           /\ \A k : k \in DOMAIN (s \o d) <=> k \in DOMAIN s \/ \E j \in DOMAIN d : k = Len(s) + j
           /\ \A i \in DOMAIN s : (s \o d)[i] = s[i] /\ s[i] \in TradeRow
           /\ \A j \in DOMAIN d : (s \o d)[Len(s) + j] = d[j] /\ d[j] \in TradeRow
<1>1. /\ Len(s) \in Nat /\ Len(d) \in Nat /\ DOMAIN s = 1..Len(s) /\ DOMAIN d = 1..Len(d)
      /\ s \in [1..Len(s) -> TradeRow] /\ d \in [1..Len(d) -> TradeRow]
  BY LenProperties
<1> DEFINE c == s \o d
<1>2. /\ c \in Seq(TradeRow) /\ Len(c) = Len(s) + Len(d)
      /\ \A i \in 1..Len(s) + Len(d) : c[i] = IF i <= Len(s) THEN s[i] ELSE d[i - Len(s)]
  BY ConcatProperties
<1>3. DOMAIN c = 1..(Len(s) + Len(d))
  BY <1>2, LenProperties
<1> HIDE DEF c
<1>4. ASSUME NEW i \in DOMAIN s
      PROVE  c[i] = s[i] /\ s[i] \in TradeRow
  BY <1>1, <1>2
<1>5. ASSUME NEW j \in DOMAIN d
      PROVE  c[Len(s) + j] = d[j] /\ d[j] \in TradeRow
  <2>1. Len(s) + j \in 1..(Len(s) + Len(d)) /\ ~(Len(s) + j <= Len(s)) /\ (Len(s) + j) - Len(s) = j
    BY <1>1
  <2>2. c[Len(s) + j] = d[(Len(s) + j) - Len(s)]
    BY <1>2, <2>1
  <2> QED
    BY <1>1, <2>1, <2>2
<1>6. ASSUME NEW k
      PROVE  k \in DOMAIN c <=> k \in DOMAIN s \/ \E j \in DOMAIN d : k = Len(s) + j
  <2>1. ASSUME k \in DOMAIN c
        PROVE  k \in DOMAIN s \/ \E j \in DOMAIN d : k = Len(s) + j
    <3>1. k \in Int /\ 1 <= k /\ k <= Len(s) + Len(d)
      BY <1>1, <1>3, <2>1
    <3>2. CASE k <= Len(s)
      BY <1>1, <3>1, <3>2
    <3>3. CASE k > Len(s)
      <4>1. k - Len(s) \in DOMAIN d /\ k = Len(s) + (k - Len(s))
        BY <1>1, <3>1, <3>3
      <4> QED
        BY <4>1
    <3> QED
      BY <1>1, <3>1, <3>2, <3>3
  <2>2. ASSUME k \in DOMAIN s
        PROVE  k \in DOMAIN c
    BY <1>1, <1>3, <2>2
  <2>3. ASSUME NEW j \in DOMAIN d, k = Len(s) + j
        PROVE  k \in DOMAIN c
    BY <1>1, <1>3, <2>3
  <2> QED
    BY <2>1, <2>2, <2>3
<1> QED
  BY <1>1, <1>2, <1>4, <1>5, <1>6 DEF c

\* What the trades of two placements name an order with adds up.
LEMMA QuantityJoins ==
    ASSUME NEW s \in Seq(TradeRow), NEW d \in Seq(TradeRow), NEW r
    PROVE  Quantity(s \o d, Of(s \o d, r)) = Quantity(s, Of(s, r)) + Quantity(d, Of(d, r))
<1> DEFINE f == [i \in DOMAIN s |-> s[i].quantity]
           g == [i \in DOMAIN d |-> d[i].quantity]
           h == [i \in DOMAIN (s \o d) |-> (s \o d)[i].quantity]
           I == Of(s, r)
           J == Of(d, r)
           K == Of(s \o d, r)
<1>1. I \subseteq DOMAIN s /\ J \subseteq DOMAIN d
  BY DEF Of
<1>2. I \subseteq 1..Len(s) /\ J \subseteq 1..Len(d) /\ J \subseteq Nat \ {0}
  BY <1>1, Concat
<1>3. \A i \in I : f[i] \in Int /\ h[i] = f[i]
  <2> SUFFICES ASSUME NEW i \in I
               PROVE  f[i] \in Int /\ h[i] = f[i]
    OBVIOUS
  <2>1. i \in DOMAIN s /\ i \in DOMAIN (s \o d) /\ (s \o d)[i] = s[i] /\ s[i] \in TradeRow
    BY <1>1, Concat
  <2> QED
    BY <2>1 DEF TradeRow
<1>4. \A j \in J : g[j] \in Int /\ h[Len(s) + j] = g[j]
  <2> SUFFICES ASSUME NEW j \in J
               PROVE  g[j] \in Int /\ h[Len(s) + j] = g[j]
    OBVIOUS
  <2>1. j \in DOMAIN d /\ Len(s) + j \in DOMAIN (s \o d) /\ (s \o d)[Len(s) + j] = d[j] /\ d[j] \in TradeRow
    BY <1>1, Concat
  <2> QED
    BY <2>1 DEF TradeRow
<1>5. \A k : k \in K <=> k \in I \/ \E j \in J : k = Len(s) + j
  <2> SUFFICES ASSUME NEW k
               PROVE  k \in K <=> k \in I \/ \E j \in J : k = Len(s) + j
    OBVIOUS
  <2>1. k \in DOMAIN (s \o d) <=> k \in DOMAIN s \/ \E j \in DOMAIN d : k = Len(s) + j
    BY Concat
  <2>2. \A i \in DOMAIN s : (s \o d)[i] = s[i]
    BY Concat
  <2>3. \A j \in DOMAIN d : (s \o d)[Len(s) + j] = d[j]
    BY Concat
  <2> QED
    BY <2>1, <2>2, <2>3 DEF Of
<1>6. Len(s) \in Nat /\ Len(d) \in Nat
  BY Concat
<1>9. IsFiniteSet(J)
  <2>1. IsFiniteSet(1..Len(d))
    BY <1>6, FS_Interval
  <2> QED
    BY <1>2, <2>1, FS_Subset
<1> HIDE DEF f, g, h, I, J, K
<1>7. Joins(f, I, Len(s), g, J, h, K)
  BY <1>2, <1>3, <1>4, <1>5 DEF Joins
<1>8. SumFunctionOnSet(h, K) = SumFunctionOnSet(f, I) + SumFunctionOnSet(g, J)
  BY <1>6, <1>7, <1>9, JoinedSum
<1> QED
  BY <1>8 DEF f, g, h, I, J, K, Quantity

\* A trade moves whole units.
LEMMA CashFlowInt ==
    ASSUME NEW t \in TradeRow, NEW a
    PROVE  CashFlow(t, a) \in Int
<1>1. t.price \in Nat /\ t.quantity \in Nat
  BY DEF TradeRow
<1>2. t.price * t.quantity \in Int
  BY <1>1
<1> QED
  BY <1>2 DEF CashFlow

\* What an account gets from two lists of trades.
LEMMA CashJoins ==
    ASSUME NEW s \in Seq(TradeRow), NEW d \in Seq(TradeRow), NEW a
    PROVE  BalanceDelta(s \o d, a, DOMAIN (s \o d))
               = BalanceDelta(s, a, DOMAIN s) + BalanceDelta(d, a, DOMAIN d)
<1> DEFINE f == [i \in DOMAIN s |-> CashFlow(s[i], a)]
           g == [i \in DOMAIN d |-> CashFlow(d[i], a)]
           h == [i \in DOMAIN (s \o d) |-> CashFlow((s \o d)[i], a)]
<1>1. DOMAIN s \subseteq 1..Len(s) /\ DOMAIN d \subseteq 1..Len(d) /\ DOMAIN d \subseteq Nat \ {0}
  BY Concat
<1>2. \A i \in DOMAIN s : f[i] \in Int /\ h[i] = f[i]
  BY Concat, CashFlowInt
<1>3. \A j \in DOMAIN d : g[j] \in Int /\ h[Len(s) + j] = g[j]
  BY Concat, CashFlowInt
<1>4. \A k : k \in DOMAIN (s \o d) <=> k \in DOMAIN s \/ \E j \in DOMAIN d : k = Len(s) + j
  BY Concat
<1>5. Len(s) \in Nat /\ Len(d) \in Nat
  BY Concat
<1>8. IsFiniteSet(DOMAIN d)
  <2>1. IsFiniteSet(1..Len(d))
    BY <1>5, FS_Interval
  <2> QED
    BY <2>1, Concat
<1> HIDE DEF f, g, h
<1> DEFINE K == DOMAIN (s \o d)
<1>6. Joins(f, DOMAIN s, Len(s), g, DOMAIN d, h, K)
  BY <1>1, <1>2, <1>3, <1>4 DEF Joins
<1> HIDE DEF K
<1>7. SumFunctionOnSet(h, K) = SumFunctionOnSet(f, DOMAIN s) + SumFunctionOnSet(g, DOMAIN d)
  BY <1>5, <1>6, <1>8, JoinedSum
<1> QED
  BY <1>7 DEF f, g, h, K, BalanceDelta

-----------------------------------------------------------------------------
(* Rows of orders and the book *)

OrderRow == [account : Accounts, side : Outcome, price : 0..FullPrice, quantity : Nat \ {0},
             filled : Nat, status : {"PENDING", "PARTIALLY_FILLED", "FILLED", "CANCELLED"}, at : Nat]

\* Stamps tell orders apart, and a resting order has something left.
RowInv ==
    /\ stamp \in Nat /\ now \in Nat
    /\ order \in [Orders -> OrderRow \cup {NoRow}]
    /\ \A o \in Placed : order[o].at <= stamp
    /\ \A o, r \in Placed : order[o].at = order[r].at => o = r
    /\ \A o \in Placed : order[o].filled <= order[o].quantity
    /\ \A o \in Resting : order[o].filled < order[o].quantity

\* A placed order has a row.
LEMMA PlacedRow ==
    ASSUME RowInv, NEW o \in Placed
    PROVE  o \in Orders /\ order[o] \in OrderRow
BY DEF RowInv, Placed

Side(side) == {o \in Resting : order[o].side = side}

BeforePairs(side) == {p \in Side(side) \X Side(side) : Before(p[1], p[2])}

\* What the rows of one side of the book hold.
LEMMA SideRow ==
    ASSUME RowInv, NEW side, NEW o \in Side(side)
    PROVE  /\ o \in Placed /\ o \in Orders /\ order[o] \in OrderRow /\ order[o].side = side
           /\ SortPrice(o) \in Nat /\ order[o].at \in Nat
           /\ Open(o) \in Nat /\ Open(o) > 0 /\ Open(o) = order[o].quantity - order[o].filled
<1>1. o \in Resting /\ o \in Placed /\ order[o].side = side
  BY DEF Side, Resting
<1>2. o \in Orders /\ order[o] \in OrderRow
  BY <1>1, PlacedRow
<1>3. SortPrice(o) \in Nat
  BY <1>2, BinaryAssumption DEF OrderRow, SortPrice
<1>4. order[o].quantity \in Nat /\ order[o].filled \in Nat /\ order[o].filled < order[o].quantity
  BY <1>1, <1>2 DEF OrderRow, RowInv
<1>5. Open(o) \in Nat /\ Open(o) > 0 /\ Open(o) = order[o].quantity - order[o].filled
  BY <1>4 DEF Open
<1>6. order[o].at \in Nat
  BY <1>2 DEF OrderRow
<1> QED
  BY <1>1, <1>2, <1>3, <1>5, <1>6

\* The order of the book sorts: no two orders have one stamp.
LEMMA BeforeOrders ==
    ASSUME RowInv, NEW side
    PROVE  IsFiniteSet(Side(side)) /\ Sorts(BeforePairs(side), Side(side))
<1> DEFINE S == Side(side)
           R == BeforePairs(side)
<1>1. \A o, r \in S : <<o, r>> \in R <=> Before(o, r)
  BY DEF BeforePairs
<1>2. \A o \in S : SortPrice(o) \in Nat /\ order[o].at \in Nat /\ order[o].side = side
  BY SideRow
<1>3. \A o, r \in S : order[o].at = order[r].at => o = r
  BY SideRow DEF RowInv
<1>4. IsFiniteSet(S)
  <2>1. S \subseteq Orders
    BY SideRow
  <2> QED
    BY <2>1, BinaryAssumption, FS_Subset
<1> HIDE DEF S, R
<1>5. \A o \in S : ~Before(o, o)
  BY <1>2 DEF Before
<1>6. \A o, r, u \in S : Before(o, r) /\ Before(r, u) => Before(o, u)
  BY <1>2 DEF Before
<1>7. \A o, r \in S : o = r \/ Before(o, r) \/ Before(r, o)
  BY <1>2, <1>3 DEF Before
<1>8. Sorts(R, S)
  BY <1>1, <1>5, <1>6, <1>7 DEF Sorts
<1> QED
  BY <1>4, <1>8 DEF S, R

\* b is the book of one side, of n orders: each once, in order.
IsBook(b, n, side) ==
    /\ n \in Nat /\ DOMAIN b = 1..n /\ Len(b) = n
    /\ \A i \in 1..n : b[i] \in Side(side)
    /\ \A i, j \in 1..n : i < j => Before(b[i], b[j])
    /\ \A o \in Side(side) : \E i \in 1..n : o = b[i]
    /\ \A i, j \in 1..n : b[i] = b[j] => i = j

\* The CHOOSE of Book finds a list: each resting order of the side once, in order.
LEMMA BookLists ==
    ASSUME RowInv, NEW side
    PROVE  IsBook(Book(side), Cardinality(Side(side)), side)
<1> DEFINE S == Side(side)
           n == Cardinality(S)
           R == BeforePairs(side)
           b == Book(side)
<1>1. IsFiniteSet(S) /\ Sorts(R, S)
  BY BeforeOrders
<1>2. n \in Nat
  BY <1>1, FS_CardinalityType
<1>3. PICK c : Lists(c, R, S)
  BY <1>1, ListExists
<1>4. \A c2 \in [1..n -> S] : \A i, j \in 1..n : <<c2[i], c2[j]>> \in R <=> Before(c2[i], c2[j])
  BY DEF BeforePairs
<1>5. c \in [1..n -> S] /\ \A i, j \in DOMAIN c : i < j => Before(c[i], c[j])
  BY <1>3, <1>4 DEF Lists
<1>6. b = CHOOSE b1 \in [1..n -> S] : \A i, j \in DOMAIN b1 : i < j => Before(b1[i], b1[j])
  BY DEF Book, Side
<1>7. b \in [1..n -> S] /\ \A i, j \in DOMAIN b : i < j => Before(b[i], b[j])
  <2> HIDE DEF b, n, S
  <2> QED
    BY <1>5, <1>6
<1>8. Lists(b, R, S)
  BY <1>4, <1>7 DEF Lists
<1> HIDE DEF b
<1>9. /\ \A x \in S : \E i \in 1..n : x = b[i]
      /\ \A i, j \in 1..n : b[i] = b[j] => i = j
  <2> HIDE DEF S, R
  <2> QED
    BY <1>1, <1>8, ListComplete
<1>10. Len(b) = n /\ DOMAIN b = 1..n
  BY <1>2, <1>7
<1> HIDE DEF n
<1>11. \A i \in 1..n : b[i] \in Side(side)
  BY <1>7
<1>12. IsBook(b, n, side)
  BY <1>2, <1>7, <1>9, <1>10, <1>11 DEF IsBook
<1> QED
  BY <1>12 DEF b, n

-----------------------------------------------------------------------------
(* What a placement reaches *)

\* The open quantities of the book add up from its head.
LEMMA AmountGrows ==
    ASSUME RowInv, NEW side, NEW b, NEW n, IsBook(b, n, side)
    PROVE  /\ Amount(b, 0) = 0
           /\ \A i \in 1..n : /\ Amount(b, i) = Amount(b, i - 1) + Open(b[i])
                              /\ Open(b[i]) \in Nat /\ Open(b[i]) > 0
           /\ \A i \in 0..n : Amount(b, i) \in Nat
<1> DEFINE f == [i \in DOMAIN b |-> Open(b[i])]
<1>1. \A i \in 1..n : f[i] \in Nat /\ f[i] = Open(b[i]) /\ Open(b[i]) > 0
  BY SideRow DEF IsBook
<1>2. \A i : Amount(b, i) = SumFunctionOnSet(f, 1..i)
  BY DEF Amount
<1>3. n \in Nat
  BY DEF IsBook
<1> HIDE DEF f
<1>4. Amount(b, 0) = 0
  <2>1. 1..0 = {}
    OBVIOUS
  <2> QED
    BY <1>2, <2>1, SumEmpty
<1>5. ASSUME NEW i \in 1..n
      PROVE  Amount(b, i) = Amount(b, i - 1) + Open(b[i])
  <2> DEFINE S == 1..(i - 1)
  <2>1. /\ i \notin S /\ S \cup {i} = 1..i
        /\ (\A j \in S : f[j] \in Int) /\ f[i] \in Int /\ f[i] = Open(b[i]) /\ i - 1 \in Int
    <3>1. i \in Int /\ 1 <= i /\ i <= n
      BY <1>3
    <3>2. \A j \in S : j \in 1..n
      BY <1>3, <3>1
    <3>3. S \cup {i} = 1..i
      BY <3>1
    <3> QED
      BY <1>1, <3>1, <3>2, <3>3
  <2>5. IsFiniteSet(S)
    BY <2>1, FS_Interval
  <2>2. Amount(b, i - 1) = SumFunctionOnSet(f, S)
    BY <1>2
  <2> HIDE DEF S
  <2>3. SumFunctionOnSet(f, S \cup {i}) = f[i] + SumFunctionOnSet(f, S)
    BY <2>1, <2>5, SumAdd
  <2>4. SumFunctionOnSet(f, S) \in Int
    BY <2>1, <2>5, SumInt
  <2>6. Amount(b, i) = f[i] + SumFunctionOnSet(f, S)
    BY <1>2, <2>1, <2>3
  <2> QED
    BY <2>1, <2>2, <2>4, <2>6
<1>6. \A i \in 0..n : Amount(b, i) \in Nat
  <2> DEFINE Good == {i \in 0..n : Amount(b, i) \in Nat}
  <2>1. 0 \in Good
    BY <1>3, <1>4
  <2>2. ASSUME NEW i \in 0..(n - 1), i \in Good
        PROVE  i + 1 \in Good
    <3>1. i + 1 \in 1..n /\ (i + 1) - 1 = i
      BY <1>3
    <3>2. Amount(b, i + 1) = Amount(b, i) + Open(b[i + 1])
      BY <1>5, <3>1
    <3> QED
      BY <1>1, <2>2, <3>1, <3>2
  <2> HIDE DEF Good
  <2>3. \A i \in 0..n : i \in Good
    BY <1>3, <2>1, <2>2, CountUp
  <2> QED
    BY <2>3 DEF Good
<1> QED
  BY <1>1, <1>4, <1>5, <1>6

\* The loop ends somewhere.
Stops(q, b, n, k) ==
    /\ \A i \in 1..k : CanMatch(q, b[i]) /\ Amount(b, i - 1) < q.quantity
    /\ k < n => ~CanMatch(q, b[k + 1]) \/ Amount(b, k) >= q.quantity

\* The matching loop ends at some entry.
LEMMA LoopStops ==
    ASSUME RowInv, NEW side, NEW b, NEW n, IsBook(b, n, side), NEW q, q.quantity \in Nat
    PROVE  \E k \in 0..n : Stops(q, b, n, k)
<1> DEFINE Goes(k) == \A i \in 1..k : CanMatch(q, b[i]) /\ Amount(b, i - 1) < q.quantity
           Good == {k \in 0..n : Goes(k)}
<1>1. n \in Nat
  BY DEF IsBook
<1>2. SUFFICES ASSUME ~ \E k \in 0..n : Stops(q, b, n, k)
               PROVE  FALSE
  OBVIOUS
<1>3. 0 \in Good
  BY <1>1
<1>4. ASSUME NEW k \in 0..(n - 1), k \in Good
      PROVE  k + 1 \in Good
  <2>1. k \in 0..n /\ k < n /\ k + 1 \in 0..n /\ Goes(k)
    BY <1>1, <1>4
  <2>2. ~(~CanMatch(q, b[k + 1]) \/ Amount(b, k) >= q.quantity)
    BY <1>2, <2>1 DEF Stops
  <2>3. Amount(b, k) \in Nat
    BY <2>1, AmountGrows
  <2>4. CanMatch(q, b[k + 1]) /\ Amount(b, k) < q.quantity
    BY <2>2, <2>3
  <2>5. \A i \in 1..(k + 1) : i \in 1..k \/ (i = k + 1 /\ i - 1 = k)
    BY <2>1
  <2>6. Goes(k + 1)
    BY <2>1, <2>4, <2>5
  <2> QED
    BY <2>1, <2>6
<1> HIDE DEF Good
<1>5. n \in Good
  BY <1>1, <1>3, <1>4, CountUp
<1>6. n \in 0..n /\ Goes(n)
  BY <1>5 DEF Good
<1>7. Stops(q, b, n, n)
  BY <1>1, <1>6 DEF Stops
<1> QED
  BY <1>2, <1>6, <1>7

\* The CHOOSE of Reached finds where it ends.
LEMMA ReachedStops ==
    ASSUME RowInv, NEW q \in Input
    PROVE  LET side == Opposite(q.side)
               n == Cardinality(Side(side))
           IN  /\ IsBook(Book(side), n, side)
               /\ Reached(q) \in 0..n
               /\ Stops(q, Book(side), n, Reached(q))
<1> DEFINE side == Opposite(q.side)
           n == Cardinality(Side(side))
           b == Book(side)
<1>1. IsBook(b, n, side)
  BY BookLists
<1>2. Len(b) = n
  BY <1>1 DEF IsBook
<1>3. q.quantity \in Nat
  BY DEF Input
<1>4. Reached(q) = CHOOSE k \in 0..n : Stops(q, b, n, k)
  BY <1>2 DEF Reached, Stops
<1> HIDE DEF side, b, n
<1>5. \E k \in 0..n : Stops(q, b, n, k)
  BY <1>1, <1>3, LoopStops
<1>6. Reached(q) \in 0..n /\ Stops(q, b, n, Reached(q))
  BY <1>4, <1>5
<1> QED
  BY <1>1, <1>6 DEF side, b, n

-----------------------------------------------------------------------------
(* The trades of a placement *)

\* d are the trades of the call o for q with the first k of the m orders of the book b: all
\* of them are taken whole but the last, and no more than asked for.
Takes(d, k, o, q, b, m, side) ==
    /\ IsBook(b, m, side) /\ k \in 0..m /\ k \in Nat
    /\ d \in Seq(TradeRow) /\ DOMAIN d = 1..k /\ Len(d) = k
    /\ \A i \in 1..k :
        /\ b[i] \in Side(side) /\ i \in 1..m
        /\ d[i].taker = o /\ d[i].maker = b[i] /\ d[i].buyer = q.account
        /\ d[i].seller = order[b[i]].account /\ d[i].outcome = q.side
        /\ d[i].quantity = Lesser(Open(b[i]), q.quantity - Amount(b, i - 1))
        /\ Amount(b, i - 1) \in Nat /\ Amount(b, i - 1) < q.quantity
        /\ Open(b[i]) \in Nat /\ Open(b[i]) > 0

\* A trade has a price.
LEMMA PriceIsNat ==
    ASSUME RowInv, NEW q \in Input, NEW side, NEW r \in Side(side)
    PROVE  MatchPrice(q, r) \in Nat
<1>1. order[r].price \in Nat /\ q.price \in Nat /\ FullPrice \in Nat
  BY SideRow, BinaryAssumption DEF OrderRow, Input
<1>2. FullPrice \div 2 \in Nat
  BY <1>1
<1> QED
  BY <1>1, <1>2 DEF MatchPrice

\* The trades of one call, in terms of the book.
LEMMA DealsTake ==
    ASSUME RowInv, NEW o \in Orders, NEW q \in Input
    PROVE  \E b, m : Takes(Deals(o, q), Reached(q), o, q, b, m, Opposite(q.side))
<1> DEFINE side == Opposite(q.side)
           m == Cardinality(Side(side))
           b == Book(side)
           k == Reached(q)
           d == Deals(o, q)
<1>1. IsBook(b, m, side) /\ k \in 0..m /\ Stops(q, b, m, k)
  BY ReachedStops
<1>2. m \in Nat /\ q.quantity \in Nat \ {0} /\ q.account \in Accounts /\ q.side \in Outcome
  BY <1>1 DEF IsBook, Input
<1>3. k \in Nat /\ \A i \in 1..k : i \in 1..m
  BY <1>1, <1>2
<1>4. d = [i \in 1..k |->
            [taker |-> o, maker |-> b[i], buyer |-> q.account, seller |-> order[b[i]].account,
             outcome |-> q.side, price |-> MatchPrice(q, b[i]), quantity |-> Fill(q, i), at |-> now]]
  BY DEF Deals
<1>5. \A i \in 1..k : Fill(q, i) = Lesser(Open(b[i]), q.quantity - Amount(b, i - 1))
  BY DEF Fill
<1> HIDE DEF side, m, b, k, d
<1>6. ASSUME NEW i \in 1..k
      PROVE  /\ b[i] \in Side(side) /\ Open(b[i]) \in Nat /\ Open(b[i]) > 0
             /\ Amount(b, i - 1) \in Nat /\ Amount(b, i - 1) < q.quantity
             /\ Fill(q, i) \in Nat \ {0}
             /\ MatchPrice(q, b[i]) \in Nat
             /\ b[i] \in Orders /\ order[b[i]].account \in Accounts
  <2>1. b[i] \in Side(side) /\ i \in 1..m /\ i - 1 \in 0..m
    BY <1>1, <1>2, <1>3 DEF IsBook
  <2>2. Open(b[i]) \in Nat /\ Open(b[i]) > 0 /\ Amount(b, i - 1) \in Nat
    BY <1>1, <2>1, AmountGrows
  <2>3. Amount(b, i - 1) < q.quantity
    BY <1>1 DEF Stops
  <2>4. Fill(q, i) \in Nat \ {0}
    BY <1>2, <1>5, <2>2, <2>3 DEF Lesser
  <2>5. MatchPrice(q, b[i]) \in Nat /\ b[i] \in Orders /\ order[b[i]].account \in Accounts
    BY <2>1, PriceIsNat, SideRow DEF OrderRow
  <2> QED
    BY <2>1, <2>2, <2>3, <2>4, <2>5
<1>7. d \in [1..k -> TradeRow]
  <2> SUFFICES ASSUME NEW i \in 1..k
               PROVE  [taker |-> o, maker |-> b[i], buyer |-> q.account, seller |-> order[b[i]].account,
                       outcome |-> q.side, price |-> MatchPrice(q, b[i]), quantity |-> Fill(q, i), at |-> now]
                          \in TradeRow
    BY <1>4
  <2>1. now \in Nat
    BY DEF RowInv
  <2> QED
    BY <1>2, <1>6, <2>1 DEF TradeRow
<1>8. d \in Seq(TradeRow) /\ DOMAIN d = 1..k /\ Len(d) = k
  BY <1>3, <1>7
<1>9. Takes(d, k, o, q, b, m, side)
  BY <1>1, <1>3, <1>4, <1>5, <1>6, <1>8 DEF Takes
<1> QED
  BY <1>9 DEF side, d, k

\* Together the first j trades take what the first j orders have, or all that is asked for.
LEMMA TakenSoFar ==
    ASSUME RowInv, NEW q \in Input, NEW d, NEW k, NEW o, NEW b, NEW m, NEW side,
           Takes(d, k, o, q, b, m, side)
    PROVE  \A j \in 0..k : Quantity(d, 1..j) = Lesser(Amount(b, j), q.quantity)
<1> USE DEF Takes
<1> DEFINE f == [i \in DOMAIN d |-> d[i].quantity]
           Good == {j \in 0..k : Quantity(d, 1..j) = Lesser(Amount(b, j), q.quantity)}
<1>1. k \in Nat /\ m \in Nat /\ q.quantity \in Nat \ {0} /\ k <= m
  BY DEF IsBook, Input
<1>2. ASSUME NEW i \in 1..k
      PROVE  f[i] = d[i].quantity /\ f[i] \in Nat
  <2>1. f[i] = d[i].quantity
    OBVIOUS
  <2>2. /\ d[i].quantity = Lesser(Open(b[i]), q.quantity - Amount(b, i - 1))
        /\ Amount(b, i - 1) \in Nat /\ Amount(b, i - 1) < q.quantity /\ Open(b[i]) \in Nat
    OBVIOUS
  <2> HIDE DEF Takes, f
  <2> QED
    BY <1>1, <2>1, <2>2 DEF Lesser
<1>3. \A j : Quantity(d, 1..j) = SumFunctionOnSet(f, 1..j)
  BY DEF Quantity
<1>4. 0 \in Good
  <2>1. 1..0 = {} /\ Amount(b, 0) = 0
    BY AmountGrows
  <2>2. Quantity(d, 1..0) = 0
    BY <1>3, <2>1, SumEmpty
  <2> QED
    BY <1>1, <2>1, <2>2 DEF Lesser
<1>5. ASSUME NEW j \in 0..(k - 1), j \in Good
      PROVE  j + 1 \in Good
  <2> DEFINE i == j + 1
             S == 1..j
  <2>1. i \in 1..k /\ i - 1 = j /\ i \in 1..m /\ i \in 0..k /\ j \in Nat
    BY <1>1
  <2>2. Quantity(d, S) = Lesser(Amount(b, j), q.quantity)
    BY <1>5
  <2>3. i \notin S /\ S \cup {i} = 1..i /\ IsFiniteSet(S)
    <3>1. IsFiniteSet(S)
      BY <2>1, FS_Interval
    <3>2. i \notin S /\ S \cup {i} = 1..i
      BY <2>1
    <3> QED
      BY <3>1, <3>2
  <2>4. (\A x \in S : f[x] \in Int) /\ f[i] \in Int
    <3>1. \A x \in S : x \in 1..k
      BY <1>1, <2>1
    <3> HIDE DEF f, S, i, Takes
    <3> QED
      BY <1>2, <2>1, <3>1
  <2>5. Amount(b, i) = Amount(b, j) + Open(b[i]) /\ Open(b[i]) \in Nat /\ Amount(b, j) \in Nat /\ Amount(b, i) \in Nat
    <3>1. i \in 0..m /\ j \in 0..m
      BY <1>1, <2>1
    <3> QED
      BY <2>1, <3>1, AmountGrows
  <2>6. f[i] = Lesser(Open(b[i]), q.quantity - Amount(b, j)) /\ Amount(b, j) < q.quantity
    BY <1>2, <2>1
  <2> HIDE DEF S, f, Good
  <2>7. SumFunctionOnSet(f, S \cup {i}) = f[i] + SumFunctionOnSet(f, S)
    BY <2>3, <2>4, SumAdd
  <2>8. SumFunctionOnSet(f, S) = Lesser(Amount(b, j), q.quantity)
    BY <1>3, <2>2 DEF S
  <2>9. Quantity(d, 1..i) = f[i] + SumFunctionOnSet(f, S)
    BY <1>3, <2>3, <2>7
  <2> HIDE DEF i
  <2>10. Quantity(d, 1..i) = Lesser(Amount(b, i), q.quantity)
    BY <1>1, <2>5, <2>6, <2>8, <2>9 DEF Lesser
  <2> QED
    BY <2>1, <2>10 DEF Good, i
<1> HIDE DEF Good
<1>6. \A j \in 0..k : j \in Good
  BY <1>1, <1>4, <1>5, CountUp
<1> QED
  BY <1>6 DEF Good

\* What a placement does to the call's own order and to the resting ones.
LEMMA TradesOfCall ==
    ASSUME RowInv, NEW o \in Orders, order[o] = NoRow, NEW q \in Input, NEW d, NEW k, NEW b, NEW m, NEW side,
           Takes(d, k, o, q, b, m, side)
    PROVE  /\ Of(d, o) = DOMAIN d
           /\ Quantity(d, DOMAIN d) \in Nat /\ Quantity(d, DOMAIN d) <= q.quantity
<1>1. Of(d, o) = DOMAIN d
  BY DEF Of, Takes
<1>2. k \in Nat /\ k \in 0..k /\ DOMAIN d = 1..k /\ IsBook(b, m, side) /\ k \in 0..m
  BY DEF Takes
<1>3. Quantity(d, DOMAIN d) = Lesser(Amount(b, k), q.quantity) /\ Amount(b, k) \in Nat
  BY <1>2, TakenSoFar, AmountGrows
<1>4. q.quantity \in Nat
  BY DEF Input
<1> QED
  BY <1>1, <1>3, <1>4 DEF Lesser

\* A resting order is in at most one trade of a call, for what is open at most, and for
\* all of it unless it is the last.
LEMMA TradesOfRow ==
    ASSUME RowInv, NEW o \in Orders, order[o] = NoRow, NEW q \in Input, NEW d, NEW k, NEW b, NEW m, NEW side,
           Takes(d, k, o, q, b, m, side), NEW r, r # o
    PROVE  \/ Of(d, r) = {} /\ Quantity(d, Of(d, r)) = 0 /\ \A i \in 1..k : r # b[i]
           \/ \E i \in 1..k : /\ Of(d, r) = {i} /\ r = b[i] /\ r \in Side(side)
                              /\ Quantity(d, Of(d, r)) = d[i].quantity
                              /\ d[i].quantity \in Nat \ {0} /\ d[i].quantity <= Open(r)
                              /\ i < k => d[i].quantity = Open(r)
<1> USE DEF Takes
<1>1. k \in Nat /\ m \in Nat /\ q.quantity \in Nat \ {0} /\ k <= m
  BY DEF IsBook, Input
<1>2. \A i \in DOMAIN d : i \in Of(d, r) <=> r = b[i]
  BY DEF Of
<1>3. CASE \A i \in 1..k : r # b[i]
  <2>1. Of(d, r) = {}
    BY <1>2, <1>3 DEF Of
  <2> QED
    BY <1>3, <2>1, SumEmpty DEF Quantity
<1>4. ASSUME NEW i \in 1..k, r = b[i]
      PROVE  \E j \in 1..k : /\ Of(d, r) = {j} /\ r = b[j] /\ r \in Side(side)
                             /\ Quantity(d, Of(d, r)) = d[j].quantity
                             /\ d[j].quantity \in Nat \ {0} /\ d[j].quantity <= Open(r)
                             /\ j < k => d[j].quantity = Open(r)
  <2>1. Of(d, r) = {i}
    <3>1. \A j \in 1..k : b[j] = b[i] => j = i
      BY <1>1 DEF IsBook
    <3>2. Of(d, r) \subseteq DOMAIN d /\ i \in DOMAIN d
      BY DEF Of
    <3> QED
      BY <1>2, <1>4, <3>1, <3>2
  <2>2. d[i].quantity \in Nat \ {0} /\ d[i].quantity <= Open(r)
    <3>1. /\ d[i].quantity = Lesser(Open(b[i]), q.quantity - Amount(b, i - 1))
          /\ Amount(b, i - 1) \in Nat /\ Amount(b, i - 1) < q.quantity
          /\ Open(b[i]) \in Nat /\ Open(b[i]) > 0
      OBVIOUS
    <3> HIDE DEF Takes
    <3> QED
      BY <1>1, <1>4, <3>1 DEF Lesser
  <2>3. Quantity(d, Of(d, r)) = d[i].quantity
    <3> DEFINE f == [j \in DOMAIN d |-> d[j].quantity]
    <3>1. f[i] \in Int /\ f[i] = d[i].quantity
      BY <2>2
    <3>2. Quantity(d, {i}) = SumFunctionOnSet(f, {i})
      BY DEF Quantity
    <3> HIDE DEF f
    <3>3. SumFunctionOnSet(f, {i}) = f[i]
      BY <3>1, SumOne
    <3> QED
      BY <2>1, <3>1, <3>2, <3>3
  <2>4. ASSUME i < k
        PROVE  d[i].quantity = Open(r)
    <3>1. i + 1 \in 1..k /\ (i + 1) - 1 = i /\ i \in 1..m
      BY <1>1, <2>4
    <3>2. Amount(b, i) < q.quantity
      <4> DEFINE j == i + 1
      <4>1. j \in 1..k /\ j - 1 = i
        BY <3>1
      <4>2. Amount(b, j - 1) < q.quantity
        BY <4>1
      <4> QED
        BY <4>1, <4>2
    <3>4. Amount(b, i) = Amount(b, i - 1) + Open(b[i])
      <4>1. IsBook(b, m, side)
        OBVIOUS
      <4> QED
        BY <3>1, <4>1, AmountGrows
    <3>3. d[i].quantity = Lesser(Open(b[i]), q.quantity - Amount(b, i - 1)) /\ Amount(b, i - 1) \in Nat /\ Open(b[i]) \in Nat
      OBVIOUS
    <3> QED
      BY <1>1, <1>4, <3>2, <3>3, <3>4 DEF Lesser
  <2> QED
    BY <1>4, <2>1, <2>2, <2>3, <2>4
<1> QED
  BY <1>3, <1>4

-----------------------------------------------------------------------------
(* Orders, trades and what deletions leave of them *)

\* The trades of the binary market name two orders that are there, of the accounts that
\* they name, one of each outcome.
TradeInv ==
    /\ trades \in Seq(TradeRow)
    /\ \A i \in DOMAIN trades :
        \/ trades[i].taker = NoOrder /\ trades[i].maker = NoOrder
        \/ /\ trades[i].taker \in Placed /\ trades[i].maker \in Placed
           /\ order[trades[i].taker].account = trades[i].buyer
           /\ order[trades[i].maker].account = trades[i].seller
           /\ order[trades[i].taker].side = trades[i].outcome
           /\ order[trades[i].maker].side = Opposite(trades[i].outcome)

\* Accounts of orders and trades are there; orders of an account that is being deleted
\* came after it was counted.
AccountInv ==
    /\ workload \in Workloads /\ exists \subseteq Accounts
    /\ \A o \in Placed : order[o].account \in exists
    /\ \A i \in DOMAIN trades : trades[i].buyer \in exists /\ trades[i].seller \in exists
    /\ \A a \in DOMAIN deleting :
        deleting[a] \in Nat /\ deleting[a] <= stamp
            /\ \A o \in Placed : order[o].account = a => order[o].at > deleting[a]

RowsInv == RowInv /\ TradeInv /\ BinaryFillsAreTrades

\* The row of r after its fills by the trades d.
FilledRow(r, d, new) ==
    /\ new \in OrderRow
    /\ new.account = order[r].account /\ new.side = order[r].side /\ new.price = order[r].price
    /\ new.quantity = order[r].quantity /\ new.at = order[r].at
    /\ new.filled = order[r].filled + Quantity(d, Of(d, r)) /\ new.filled <= new.quantity
    /\ \/ new = order[r] /\ Quantity(d, Of(d, r)) = 0
       \/ r \in Resting /\ new.status = StatusFor(new.filled, new.quantity) /\ new.filled > order[r].filled

\* The row of the call itself.
OwnRow(o, q, d, new) ==
    /\ new \in OrderRow
    /\ new.account = q.account /\ new.side = q.side /\ new.price = q.price
    /\ new.quantity = q.quantity /\ new.at = stamp + 1
    /\ new.filled = Quantity(d, Of(d, o)) /\ new.filled <= new.quantity
    /\ new.status = StatusFor(new.filled, new.quantity)

\* The row of the order that is placed.
LEMMA OwnRowPlaced ==
    ASSUME RowInv, NEW o \in Orders, NEW q \in Input, PlaceBinary(o, q)
    PROVE  OwnRow(o, q, Deals(o, q), order'[o])
<1> DEFINE d == Deals(o, q)
           F == Quantity(d, DOMAIN d)
           row == [account |-> q.account, side |-> q.side, price |-> q.price, quantity |-> q.quantity,
                   filled |-> 0, status |-> "PENDING", at |-> stamp + 1]
<1>1. PICK b, m : Takes(d, Reached(q), o, q, b, m, Opposite(q.side))
  BY DealsTake
<1>2. order[o] = NoRow /\ order'[o] = Filled(row, F)
  BY DEF PlaceBinary
<1> HIDE DEF d
<1>3. Of(d, o) = DOMAIN d /\ F \in Nat /\ F <= q.quantity
  BY <1>1, <1>2, TradesOfCall
<1> HIDE DEF F
<1>4. 0 + F = F
  BY <1>3
<1>5. order'[o] = [account |-> q.account, side |-> q.side, price |-> q.price, quantity |-> q.quantity,
                   filled |-> F, status |-> StatusFor(F, q.quantity), at |-> stamp + 1]
  BY <1>2, <1>4 DEF Filled
<1>6. q \in Input /\ stamp + 1 \in Nat
  BY DEF RowInv
<1>7. order'[o] \in OrderRow
  BY <1>3, <1>5, <1>6 DEF OrderRow, Input, StatusFor
<1>8. F = Quantity(d, Of(d, o))
  BY <1>3 DEF F
<1>9. OwnRow(o, q, d, order'[o])
  BY <1>3, <1>5, <1>7, <1>8 DEF OwnRow
<1> QED
  BY <1>9 DEF d

\* The rows of the orders that were there.
LEMMA RowFilled ==
    ASSUME RowInv, NEW o \in Orders, NEW q \in Input, PlaceBinary(o, q), NEW r \in Placed
    PROVE  r # o /\ FilledRow(r, Deals(o, q), order'[r])
<1> DEFINE d == Deals(o, q)
           k == Reached(q)
           F == Quantity(d, Of(d, r))
<1>1. PICK b, m : Takes(d, k, o, q, b, m, Opposite(q.side))
  BY DealsTake
<1>2. order[o] = NoRow /\ order[r] # NoRow /\ r # o /\ r \in Orders /\ order[r] \in OrderRow
  BY PlacedRow DEF PlaceBinary, Placed
<1>3. order'[r] = IF Of(d, r) # {} THEN Filled(order[r], F) ELSE order[r]
  BY <1>2 DEF PlaceBinary
<1> HIDE DEF d, k
<1>4. order[r].filled \in Nat /\ order[r].quantity \in Nat /\ order[r].filled <= order[r].quantity
  BY <1>2 DEF OrderRow, RowInv
<1>5. \/ Of(d, r) = {} /\ F = 0
      \/ r \in Side(Opposite(q.side)) /\ Of(d, r) # {} /\ F \in Nat \ {0} /\ F <= Open(r)
  BY <1>1, <1>2, TradesOfRow
<1> HIDE DEF F
<1>6. CASE Of(d, r) = {} /\ F = 0
  <2>1. order'[r] = order[r] /\ order[r].filled = order[r].filled + F
    BY <1>3, <1>4, <1>6
  <2> QED
    BY <1>2, <1>4, <1>6, <2>1 DEF FilledRow, F, d
<1>7. CASE r \in Side(Opposite(q.side)) /\ Of(d, r) # {} /\ F \in Nat \ {0} /\ F <= Open(r)
  <2> DEFINE new == order'[r]
             f == order[r].filled + F
  <2>1. new = [order[r] EXCEPT !.filled = f, !.status = StatusFor(f, order[r].quantity)]
    BY <1>3, <1>7 DEF Filled
  <2>2. r \in Resting /\ Open(r) = order[r].quantity - order[r].filled
    BY <1>7 DEF Side, Open
  <2>3. f \in Nat /\ f <= order[r].quantity /\ f > order[r].filled
    BY <1>4, <1>7, <2>2
  <2>4. StatusFor(f, order[r].quantity) \in {"PENDING", "PARTIALLY_FILLED", "FILLED", "CANCELLED"}
    BY DEF StatusFor
  <2> HIDE DEF f
  <2>5. /\ new \in OrderRow /\ new.filled = f /\ new.status = StatusFor(f, order[r].quantity)
        /\ new.account = order[r].account /\ new.side = order[r].side /\ new.price = order[r].price
        /\ new.quantity = order[r].quantity /\ new.at = order[r].at
    BY <1>2, <2>1, <2>3, <2>4 DEF OrderRow
  <2> HIDE DEF new
  <2>6. new.filled = order[r].filled + Quantity(d, Of(d, r))
    BY <2>5 DEF f, F
  <2>7. FilledRow(r, d, new)
    BY <2>2, <2>3, <2>5, <2>6 DEF FilledRow
  <2> QED
    BY <1>2, <2>7 DEF d, new
<1> QED
  BY <1>5, <1>6, <1>7

\* A placement adds one row.
LEMMA PlacedAfter ==
    ASSUME RowInv, NEW o \in Orders, NEW q \in Input, PlaceBinary(o, q)
    PROVE  /\ Placed' = Placed \cup {o} /\ o \notin Placed
           /\ \A r \in Orders \ Placed : r # o => order'[r] = NoRow
<1>1. order[o] = NoRow /\ o \notin Placed
  BY DEF PlaceBinary, Placed
<1>2. order'[o] # NoRow
  <2>1. order'[o].status \in {"PENDING", "PARTIALLY_FILLED", "FILLED"}
    BY OwnRowPlaced DEF OwnRow, StatusFor
  <2> QED
    BY <2>1 DEF NoRow
<1>3. \A r \in Placed : order'[r] # NoRow /\ r \in Orders
  <2> SUFFICES ASSUME NEW r \in Placed
               PROVE  order'[r] # NoRow /\ r \in Orders
    OBVIOUS
  <2>1. order'[r].status \in {"PENDING", "PARTIALLY_FILLED", "FILLED", "CANCELLED"}
    BY RowFilled DEF FilledRow, OrderRow
  <2> QED
    BY <2>1 DEF NoRow, Placed
<1>4. ASSUME NEW r \in Orders \ Placed, r # o
      PROVE  order'[r] = NoRow
  <2> DEFINE d == Deals(o, q)
  <2>1. order[r] = NoRow
    BY <1>4 DEF Placed
  <2>2. PICK b, m : Takes(d, Reached(q), o, q, b, m, Opposite(q.side))
    BY DealsTake
  <2>3. order'[r] = IF Of(d, r) # {} THEN Filled(order[r], Quantity(d, Of(d, r))) ELSE order[r]
    BY <1>4 DEF PlaceBinary
  <2> HIDE DEF d
  <2>4. Of(d, r) = {}
    <3>1. r \notin Side(Opposite(q.side))
      BY <1>4 DEF Side, Resting
    <3> QED
      BY <1>1, <1>4, <2>2, <3>1, TradesOfRow
  <2> QED
    BY <2>1, <2>3, <2>4
<1> QED
  BY <1>1, <1>2, <1>3, <1>4 DEF Placed

-----------------------------------------------------------------------------
(* A placement keeps it *)

\* A placement leaves proper rows.
LEMMA PlaceKeepsRows ==
    ASSUME RowInv, NEW o \in Orders, NEW q \in Input, PlaceBinary(o, q)
    PROVE  RowInv'
<1>1. stamp \in Nat /\ now \in Nat /\ stamp' = stamp + 1 /\ now' = now
  BY DEF RowInv, PlaceBinary
<1>2. Placed' = Placed \cup {o} /\ o \notin Placed /\ \A r \in Orders \ Placed : r # o => order'[r] = NoRow
  BY PlacedAfter
<1>3. OwnRow(o, q, Deals(o, q), order'[o])
  BY OwnRowPlaced
<1>4. \A r \in Placed : r # o /\ FilledRow(r, Deals(o, q), order'[r])
  BY RowFilled
<1>5. \A r \in Placed : order[r] \in OrderRow
  BY PlacedRow
<1>6. order' \in [Orders -> OrderRow \cup {NoRow}]
  <2>1. order' = [r \in Orders |-> order'[r]]
    BY DEF PlaceBinary
  <2>2. \A r \in Orders : order'[r] \in OrderRow \cup {NoRow}
    BY <1>2, <1>3, <1>4 DEF OwnRow, FilledRow
  <2> QED
    BY <2>1, <2>2
<1>7. \A r \in Placed' : order'[r].at <= stamp'
  <2> SUFFICES ASSUME NEW r \in Placed'
               PROVE  order'[r].at <= stamp'
    OBVIOUS
  <2>1. CASE r = o
    BY <1>1, <1>3, <2>1 DEF OwnRow
  <2>2. CASE r \in Placed
    <3>1. order'[r].at = order[r].at /\ order[r].at <= stamp /\ order[r].at \in Nat
      BY <1>4, <1>5, <2>2 DEF FilledRow, RowInv, OrderRow
    <3> QED
      BY <1>1, <3>1
  <2> QED
    BY <1>2, <2>1, <2>2
<1>8. \A r, u \in Placed' : order'[r].at = order'[u].at => r = u
  <2>1. \A r \in Placed : order'[r].at = order[r].at /\ order[r].at <= stamp /\ order[r].at \in Nat
    BY <1>4, <1>5 DEF FilledRow, RowInv, OrderRow
  <2>2. order'[o].at = stamp + 1
    BY <1>3 DEF OwnRow
  <2>3. \A r \in Placed : order'[r].at # order'[o].at
    BY <1>1, <2>1, <2>2
  <2>4. \A r, u \in Placed : order[r].at = order[u].at => r = u
    BY DEF RowInv
  <2> QED
    BY <1>2, <2>1, <2>3, <2>4
<1>9. \A r \in Placed' : order'[r].filled <= order'[r].quantity
  BY <1>2, <1>3, <1>4 DEF OwnRow, FilledRow
<1>10. \A r \in Resting' : order'[r].filled < order'[r].quantity
  <2> SUFFICES ASSUME NEW r \in Resting'
               PROVE  order'[r].filled < order'[r].quantity
    OBVIOUS
  <2>1. r \in Placed' /\ order'[r].status \in {"PENDING", "PARTIALLY_FILLED"}
    BY DEF Resting
  <2>2. order'[r] \in OrderRow
    BY <1>2, <1>3, <1>4, <2>1 DEF OwnRow, FilledRow
  <2>3. order'[r].filled \in Nat /\ order'[r].quantity \in Nat
    BY <2>2 DEF OrderRow
  <2>4. CASE order'[r].status = StatusFor(order'[r].filled, order'[r].quantity)
    BY <2>1, <2>3, <2>4 DEF StatusFor
  <2>5. CASE r \in Placed /\ order'[r] = order[r]
    BY <2>1, <2>5 DEF RowInv, Resting
  <2> QED
    BY <1>2, <1>3, <1>4, <2>1, <2>4, <2>5 DEF OwnRow, FilledRow
<1> QED
  BY <1>1, <1>6, <1>7, <1>8, <1>9, <1>10 DEF RowInv

\* The trades of a placement come after the others and name its order as taker.
LEMMA DealsJoin ==
    ASSUME RowInv, NEW o \in Orders, NEW q \in Input, PlaceBinary(o, q)
    PROVE  /\ Deals(o, q) \in Seq(TradeRow) /\ trades' = trades \o Deals(o, q)
           /\ \A j \in DOMAIN Deals(o, q) :
                /\ Deals(o, q)[j].taker = o /\ Deals(o, q)[j].maker \in Side(Opposite(q.side))
                /\ Deals(o, q)[j].buyer = q.account /\ Deals(o, q)[j].outcome = q.side
                /\ Deals(o, q)[j].seller = order[Deals(o, q)[j].maker].account
<1>1. PICK b, m : Takes(Deals(o, q), Reached(q), o, q, b, m, Opposite(q.side))
  BY DealsTake
<1>2. trades' = trades \o Deals(o, q)
  BY DEF PlaceBinary
<1> QED
  BY <1>1, <1>2 DEF Takes

\* The order has been placed and not yet removed, with the same request.
SameRequest(r) ==
    /\ r \in Placed' /\ order'[r].account = order[r].account /\ order'[r].side = order[r].side

\* There are two sides.
LEMMA SideIsOpposite ==
    ASSUME NEW side \in Outcome
    PROVE  Opposite(side) \in Outcome /\ Opposite(side) # side /\ Opposite(Opposite(side)) = side
BY DEF Opposite, Outcome

\* The trades of a placement name the accounts and sides of their orders.
LEMMA PlaceKeepsTrades ==
    ASSUME RowInv, TradeInv, NEW o \in Orders, NEW q \in Input, PlaceBinary(o, q)
    PROVE  TradeInv'
<1> DEFINE d == Deals(o, q)
<1>1. /\ d \in Seq(TradeRow) /\ trades' = trades \o d
      /\ \A j \in DOMAIN d :
            /\ d[j].taker = o /\ d[j].maker \in Side(Opposite(q.side))
            /\ d[j].buyer = q.account /\ d[j].outcome = q.side /\ d[j].seller = order[d[j].maker].account
  BY DealsJoin
<1>2. \A r \in Placed : SameRequest(r)
  BY PlacedAfter, RowFilled DEF SameRequest, FilledRow
<1>3. o \in Placed' /\ order'[o].account = q.account /\ order'[o].side = q.side
  BY PlacedAfter, OwnRowPlaced DEF OwnRow
<1>4. trades \in Seq(TradeRow)
  BY DEF TradeInv
<1> HIDE DEF d
<1>5. /\ trades' \in Seq(TradeRow)
      /\ \A k : k \in DOMAIN trades' <=> k \in DOMAIN trades \/ \E j \in DOMAIN d : k = Len(trades) + j
      /\ \A i \in DOMAIN trades : trades'[i] = trades[i]
      /\ \A j \in DOMAIN d : trades'[Len(trades) + j] = d[j]
  BY <1>1, <1>4, Concat
<1>6. ASSUME NEW k \in DOMAIN trades'
      PROVE  \/ trades'[k].taker = NoOrder /\ trades'[k].maker = NoOrder
             \/ /\ trades'[k].taker \in Placed' /\ trades'[k].maker \in Placed'
                /\ order'[trades'[k].taker].account = trades'[k].buyer
                /\ order'[trades'[k].maker].account = trades'[k].seller
                /\ order'[trades'[k].taker].side = trades'[k].outcome
                /\ order'[trades'[k].maker].side = Opposite(trades'[k].outcome)
  <2>1. CASE k \in DOMAIN trades
    BY <1>2, <1>5, <2>1 DEF TradeInv, SameRequest
  <2>2. ASSUME NEW j \in DOMAIN d, k = Len(trades) + j
        PROVE  /\ trades'[k].taker \in Placed' /\ trades'[k].maker \in Placed'
               /\ order'[trades'[k].taker].account = trades'[k].buyer
               /\ order'[trades'[k].maker].account = trades'[k].seller
               /\ order'[trades'[k].taker].side = trades'[k].outcome
               /\ order'[trades'[k].maker].side = Opposite(trades'[k].outcome)
    <3>1. trades'[k] = d[j]
      BY <1>5, <2>2
    <3>2. d[j].maker \in Placed /\ order[d[j].maker].side = Opposite(q.side)
      BY <1>1, SideRow
    <3> QED
      BY <1>1, <1>2, <1>3, <3>1, <3>2 DEF SameRequest
  <2> QED
    BY <1>5, <2>1, <2>2
<1> QED
  BY <1>5, <1>6 DEF TradeInv

\* Nothing names an order that is not there.
LEMMA NoTradesOfNew ==
    ASSUME TradeInv, NEW o \in Orders \ Placed
    PROVE  Of(trades, o) = {} /\ Quantity(trades, Of(trades, o)) = 0
<1>1. o # NoOrder
  BY BinaryAssumption
<1>2. Of(trades, o) = {}
  BY <1>1 DEF Of, TradeInv
<1> QED
  BY <1>2, SumEmpty DEF Quantity

\* Only what is not filled at all is PENDING.
LEMMA PendingIsEmpty ==
    ASSUME NEW f \in Nat, NEW n \in Nat, StatusFor(f, n) = "PENDING"
    PROVE  f = 0
BY DEF StatusFor

\* After a placement every row agrees with its trades.
LEMMA PlaceKeepsFills ==
    ASSUME RowsInv, NEW o \in Orders, NEW q \in Input, PlaceBinary(o, q)
    PROVE  BinaryFillsAreTrades'
<1> DEFINE d == Deals(o, q)
<1>1. RowInv /\ TradeInv /\ BinaryFillsAreTrades
  BY DEF RowsInv
<1>2. d \in Seq(TradeRow) /\ trades' = trades \o d /\ trades \in Seq(TradeRow)
  BY <1>1, DealsJoin DEF TradeInv
<1>3. Placed' = Placed \cup {o} /\ o \notin Placed
  BY <1>1, PlacedAfter
<1>4. OwnRow(o, q, d, order'[o]) /\ \A r \in Placed : FilledRow(r, d, order'[r])
  BY <1>1, OwnRowPlaced, RowFilled
<1>5. \A r \in Placed : order[r] \in OrderRow
  BY <1>1, PlacedRow
<1> HIDE DEF d
<1>6. \A r : Quantity(trades', Of(trades', r)) = Quantity(trades, Of(trades, r)) + Quantity(d, Of(d, r))
  BY <1>2, QuantityJoins
<1>7. ASSUME NEW r \in Placed'
      PROVE  /\ order'[r].filled = Quantity(trades', Of(trades', r))
             /\ order'[r].filled <= order'[r].quantity
             /\ order'[r].status # "CANCELLED" => order'[r].status = StatusFor(order'[r].filled, order'[r].quantity)
             /\ order'[r].status = "PENDING" => order'[r].filled = 0
  <2>1. CASE r = o
    <3>1. Quantity(trades, Of(trades, r)) = 0
      BY <1>1, <1>3, <2>1, NoTradesOfNew
    <3>2. order'[r].filled \in Nat /\ order'[r].filled = Quantity(d, Of(d, r))
      BY <1>4, <2>1 DEF OwnRow, OrderRow
    <3>3. order'[r].filled = Quantity(trades', Of(trades', r))
      BY <1>6, <3>1, <3>2
    <3>4. order'[r].quantity \in Nat /\ order'[r].filled <= order'[r].quantity
                /\ order'[r].status = StatusFor(order'[r].filled, order'[r].quantity)
      BY <1>4, <2>1 DEF OwnRow, OrderRow
    <3> QED
      BY <3>2, <3>3, <3>4, PendingIsEmpty
  <2>2. CASE r \in Placed
    <3>1. FilledRow(r, d, order'[r])
      BY <1>4, <2>2
    <3>2. order'[r].filled = Quantity(trades', Of(trades', r))
      BY <1>1, <1>6, <2>2, <3>1 DEF BinaryFillsAreTrades, FilledRow
    <3>3. order'[r] \in OrderRow /\ order[r] \in OrderRow
      BY <1>5, <2>2, <3>1 DEF FilledRow
    <3>4. order'[r].filled \in Nat /\ order[r].filled \in Nat
      BY <3>3 DEF OrderRow
    <3>5. CASE order'[r] = order[r]
      BY <1>1, <2>2, <3>2, <3>5 DEF BinaryFillsAreTrades
    <3>6. CASE r \in Resting /\ order'[r].status = StatusFor(order'[r].filled, order'[r].quantity)
                /\ order'[r].filled > order[r].filled
      <4>1. order'[r].filled > 0
        BY <3>4, <3>6
      <4>2. order'[r].status # "PENDING"
        BY <3>3, <3>4, <3>6, <4>1, PendingIsEmpty DEF OrderRow
      <4> QED
        BY <3>1, <3>2, <3>6, <4>2 DEF FilledRow
    <3> QED
      BY <3>1, <3>5, <3>6 DEF FilledRow
  <2> QED
    BY <1>3, <2>1, <2>2
<1> QED
  BY <1>7 DEF BinaryFillsAreTrades

-----------------------------------------------------------------------------
(* The other steps *)

\* A cancellation changes a status alone.
LEMMA CancelKeepsRows ==
    ASSUME RowsInv, NEW o \in Orders, CancelBinary(o)
    PROVE  RowsInv' /\ Placed' = Placed /\ \A r \in Placed : order'[r].account = order[r].account /\ order'[r].at = order[r].at
<1>1. o \in Resting /\ o \in Placed /\ order[o] \in OrderRow
  BY PlacedRow DEF CancelBinary, Resting, RowsInv
<1>2. /\ order' = [order EXCEPT ![o] = [order[o] EXCEPT !.status = "CANCELLED"]]
      /\ order \in [Orders -> OrderRow \cup {NoRow}]
      /\ UNCHANGED <<stamp, trades, share, balance, now>>
  BY DEF CancelBinary, RowsInv, RowInv
<1>3. /\ order'[o] \in OrderRow /\ order'[o].status = "CANCELLED"
      /\ order'[o].account = order[o].account /\ order'[o].side = order[o].side /\ order'[o].price = order[o].price
      /\ order'[o].quantity = order[o].quantity /\ order'[o].filled = order[o].filled /\ order'[o].at = order[o].at
  BY <1>1, <1>2 DEF OrderRow
<1>4. \A r \in Orders : r # o => order'[r] = order[r]
  BY <1>2
<1>5. order' \in [Orders -> OrderRow \cup {NoRow}]
  BY <1>2, <1>3
<1>6. order'[o] # NoRow /\ order[o] # NoRow
  BY <1>1, <1>3 DEF NoRow, Placed
<1>7. Placed' = Placed
  BY <1>1, <1>4, <1>6 DEF Placed
<1>8. Resting' = Resting \ {o}
  <2>1. \A r \in Placed : r # o => order'[r].status = order[r].status
    BY <1>4 DEF Placed
  <2> QED
    BY <1>1, <1>3, <1>7, <2>1 DEF Resting
<1>9. \A r \in Placed :
        /\ order'[r].account = order[r].account /\ order'[r].side = order[r].side /\ order'[r].at = order[r].at
        /\ order'[r].filled = order[r].filled /\ order'[r].quantity = order[r].quantity
        /\ order'[r].status = IF r = o THEN "CANCELLED" ELSE order[r].status
  BY <1>3, <1>4 DEF Placed
<1>10. RowInv'
  <2>1. stamp \in Nat /\ now \in Nat /\ (\A r \in Placed : order[r].at <= stamp)
           /\ (\A r, u \in Placed : order[r].at = order[u].at => r = u)
           /\ (\A r \in Placed : order[r].filled <= order[r].quantity)
           /\ (\A r \in Resting : order[r].filled < order[r].quantity)
    BY DEF RowsInv, RowInv
  <2>2. Resting \subseteq Placed
    BY DEF Resting
  <2> QED
    BY <1>2, <1>5, <1>7, <1>8, <1>9, <2>1, <2>2 DEF RowInv
<1>11. TradeInv'
  BY <1>2, <1>7, <1>9 DEF RowsInv, TradeInv
<1>12. BinaryFillsAreTrades'
  <2>1. \A r : Quantity(trades', Of(trades', r)) = Quantity(trades, Of(trades, r))
    BY <1>2
  <2> QED
    BY <1>7, <1>9, <2>1 DEF RowsInv, BinaryFillsAreTrades
<1> QED
  BY <1>7, <1>9, <1>10, <1>11, <1>12 DEF RowsInv

\* What an event of the futures market adds to the trades.
FuturesDeals(event) ==
    [i \in DOMAIN event |->
        [taker |-> NoOrder, maker |-> NoOrder, buyer |-> event[i].buyer,
         seller |-> event[i].seller, outcome |-> "YES", price |-> event[i].price,
         quantity |-> event[i].quantity, at |-> now]]

\* An event of the futures market is a list of trades.
LEMMA FuturesRows ==
    ASSUME RowInv, NEW event \in Seq(FuturesTrade)
    PROVE  FuturesDeals(event) \in Seq(TradeRow) /\ Len(FuturesDeals(event)) = Len(event)
<1>1. Len(event) \in Nat /\ event \in [1..Len(event) -> FuturesTrade]
  BY LenProperties
<1>2. now \in Nat
  BY DEF RowInv
<1>3. FuturesDeals(event) \in [1..Len(event) -> TradeRow]
  <2>1. \A i \in 1..Len(event) : event[i] \in FuturesTrade
    BY <1>1
  <2> QED
    BY <1>1, <1>2, <2>1 DEF FuturesDeals, FuturesTrade, TradeRow, Outcome
<1> QED
  BY <1>1, <1>3

\* The events of a setting have the shape of one.
LEMMA EventIsTrades ==
    ASSUME AccountInv, NEW event \in workload.events
    PROVE  event \in Seq(FuturesTrade)
BY PortfolioAssumption DEF AccountInv

\* The requests of a setting have the shape of one.
LEMMA RequestIsInput ==
    ASSUME AccountInv, NEW o \in Orders, NEW q \in workload.inputs[o]
    PROVE  q \in Input
<1>1. workload.inputs \in [Orders -> SUBSET Input]
  BY PortfolioAssumption DEF AccountInv
<1> QED
  BY <1>1

\* Futures trades touch no order of the binary market.
LEMMA FuturesKeepRows ==
    ASSUME RowsInv, AccountInv, NEW event \in workload.events, TradeFutures(event)
    PROVE  RowsInv'
<1> DEFINE d == FuturesDeals(event)
<1>1. /\ trades' = trades \o d
      /\ order' = order /\ stamp' = stamp /\ now' = now
  BY DEF TradeFutures, FuturesDeals
<1>2. d \in Seq(TradeRow) /\ trades \in Seq(TradeRow)
  BY EventIsTrades, FuturesRows DEF RowsInv, TradeInv
<1>3. \A j \in DOMAIN d : d[j].taker = NoOrder /\ d[j].maker = NoOrder
  BY DEF FuturesDeals
<1> HIDE DEF d
<1>4. Placed' = Placed /\ Resting' = Resting
  BY <1>1 DEF Placed, Resting
<1>5. RowInv'
  BY <1>1, <1>4 DEF RowsInv, RowInv
<1>6. TradeInv'
  <2>1. /\ trades' \in Seq(TradeRow)
        /\ \A k : k \in DOMAIN trades' <=> k \in DOMAIN trades \/ \E j \in DOMAIN d : k = Len(trades) + j
        /\ \A i \in DOMAIN trades : trades'[i] = trades[i]
        /\ \A j \in DOMAIN d : trades'[Len(trades) + j] = d[j]
    BY <1>1, <1>2, Concat
  <2> QED
    BY <1>1, <1>3, <1>4, <2>1 DEF RowsInv, TradeInv
<1>7. BinaryFillsAreTrades'
  <2>1. ASSUME NEW r \in Placed
        PROVE  Quantity(trades', Of(trades', r)) = Quantity(trades, Of(trades, r))
    <3>1. r # NoOrder /\ r \in Orders
      BY BinaryAssumption DEF Placed
    <3>2. Of(d, r) = {}
      BY <1>3, <3>1 DEF Of
    <3>3. Quantity(d, Of(d, r)) = 0
      BY <3>2, SumEmpty DEF Quantity
    <3>4. Quantity(trades', Of(trades', r)) = Quantity(trades, Of(trades, r)) + Quantity(d, Of(d, r))
      BY <1>1, <1>2, QuantityJoins
    <3>5. Quantity(trades, Of(trades, r)) \in Int
      <4>1. order[r] \in OrderRow /\ order[r].filled = Quantity(trades, Of(trades, r))
        BY PlacedRow DEF RowsInv, BinaryFillsAreTrades
      <4> QED
        BY <4>1 DEF OrderRow
    <3> QED
      BY <3>3, <3>4, <3>5
  <2> QED
    BY <1>1, <1>4, <2>1 DEF RowsInv, BinaryFillsAreTrades
<1> QED
  BY <1>5, <1>6, <1>7 DEF RowsInv

\* An account is in some trade.
Traded(a) == \E i \in DOMAIN trades : a \in {trades[i].buyer, trades[i].seller}

\* Which rows a deletion removes.
LEMMA DeleteRows ==
    ASSUME RowsInv, NEW a, DeleteWrite(a)
    PROVE  /\ Placed' = {r \in Placed : Traded(a) \/ order[r].account # a}
           /\ \A r \in Placed' : order'[r] = order[r]
           /\ stamp' = stamp /\ now' = now /\ trades' = trades
           /\ order' \in [Orders -> OrderRow \cup {NoRow}]
           /\ exists' = IF Traded(a) THEN exists ELSE exists \ {a}
           /\ DOMAIN deleting' = DOMAIN deleting \ {a}
           /\ \A b \in DOMAIN deleting' : deleting'[b] = deleting[b]
<1>1. /\ order' = [o \in Orders |->
                IF ~Traded(a) /\ o \in Placed /\ order[o].account = a THEN NoRow ELSE order[o]]
      /\ stamp' = stamp /\ now' = now /\ trades' = trades
      /\ exists' = IF Traded(a) THEN exists ELSE exists \ {a}
      /\ deleting' = Restrict(deleting, DOMAIN deleting \ {a})
  BY DEF DeleteWrite, Traded
<1>2. order \in [Orders -> OrderRow \cup {NoRow}]
  BY DEF RowsInv, RowInv
<1>3. order' \in [Orders -> OrderRow \cup {NoRow}]
  BY <1>1, <1>2
<1>4. \A r \in Placed : order[r] \in OrderRow
  BY PlacedRow DEF RowsInv
<1>5. Placed' = {r \in Placed : Traded(a) \/ order[r].account # a}
  BY <1>1 DEF Placed
<1>6. \A r \in Placed' : order'[r] = order[r]
  BY <1>1, <1>5 DEF Placed
<1>7. DOMAIN deleting' = DOMAIN deleting \ {a} /\ \A b \in DOMAIN deleting' : deleting'[b] = deleting[b]
  BY <1>1 DEF Restrict
<1> QED
  BY <1>1, <1>3, <1>5, <1>6, <1>7

\* No trade names an order that a deletion removes.
LEMMA DeleteKeepsRows ==
    ASSUME RowsInv, NEW a, DeleteWrite(a)
    PROVE  RowsInv'
<1>1. /\ Placed' = {r \in Placed : Traded(a) \/ order[r].account # a}
      /\ \A r \in Placed' : order'[r] = order[r]
      /\ stamp' = stamp /\ now' = now /\ trades' = trades
      /\ order' \in [Orders -> OrderRow \cup {NoRow}]
  BY DeleteRows
<1>2. Placed' \subseteq Placed /\ Resting' \subseteq Resting
  BY <1>1 DEF Resting
<1>3. RowInv'
  <2>1. Resting' \subseteq Placed'
    BY DEF Resting
  <2> QED
    BY <1>1, <1>2, <2>1 DEF RowsInv, RowInv
<1>4. TradeInv'
  <2>1. ASSUME NEW i \in DOMAIN trades, trades[i].taker \in Placed, trades[i].maker \in Placed,
               order[trades[i].taker].account = trades[i].buyer,
               order[trades[i].maker].account = trades[i].seller
        PROVE  trades[i].taker \in Placed' /\ trades[i].maker \in Placed'
    BY <1>1, <2>1 DEF Traded
  <2> QED
    BY <1>1, <2>1 DEF RowsInv, TradeInv
<1>5. BinaryFillsAreTrades'
  BY <1>1, <1>2 DEF RowsInv, BinaryFillsAreTrades
<1> QED
  BY <1>3, <1>4, <1>5 DEF RowsInv

-----------------------------------------------------------------------------
(* BinaryFillsAreTrades and DeletionSparesHistory *)

\* The invariants hold at first.
LEMMA RowsInit == Init => RowsInv /\ AccountInv
<1> SUFFICES ASSUME Init
             PROVE  RowsInv /\ AccountInv
  OBVIOUS
<1>1. /\ order = [o \in Orders |-> NoRow] /\ stamp = 0 /\ trades = <<>> /\ now = 0
      /\ workload \in Workloads /\ exists = Accounts /\ deleting = <<>>
  BY DEF Init, MarketInit
<1>2. Placed = {} /\ Resting = {}
  BY <1>1 DEF Placed, Resting
<1>3. RowInv
  BY <1>1, <1>2 DEF RowInv
<1>4. DOMAIN trades = {} /\ DOMAIN deleting = {} /\ trades \in Seq(TradeRow)
  BY <1>1
<1> QED
  BY <1>1, <1>2, <1>3, <1>4 DEF RowsInv, TradeInv, AccountInv, BinaryFillsAreTrades

\* Steps that write none of the tables.
LEMMA RowsSame ==
    ASSUME UNCHANGED <<order, stamp, trades>>, now' \in Nat, RowsInv
    PROVE  RowsInv'
<1>1. Placed' = Placed /\ Resting' = Resting
  BY DEF Placed, Resting
<1>2. RowInv'
  BY <1>1 DEF RowsInv, RowInv
<1>3. TradeInv'
  BY <1>1 DEF RowsInv, TradeInv
<1>4. BinaryFillsAreTrades'
  BY <1>1 DEF RowsInv, BinaryFillsAreTrades
<1> QED
  BY <1>2, <1>3, <1>4 DEF RowsInv

\* Every step keeps the invariant of the rows.
LEMMA RowsStep == RowsInv /\ AccountInv /\ [Next]_vars => RowsInv'
<1> SUFFICES ASSUME RowsInv, AccountInv, [Next]_vars
             PROVE  RowsInv'
  OBVIOUS
<1>0. now \in Nat
  BY DEF RowsInv, RowInv
<1>1. ASSUME NEW o \in Orders, Place(o)
      PROVE  RowsInv'
  <2>1. PICK q \in workload.inputs[o] : PlaceBinary(o, q)
    BY <1>1 DEF Place
  <2>2. q \in Input
    BY RequestIsInput
  <2> QED
    BY <2>1, <2>2, PlaceKeepsRows, PlaceKeepsTrades, PlaceKeepsFills DEF RowsInv
<1>2. ASSUME NEW o \in Orders, Cancel(o)
      PROVE  RowsInv'
  BY <1>2, CancelKeepsRows DEF Cancel
<1>3. ASSUME NEW event \in workload.events, TradeFutures(event)
      PROVE  RowsInv'
  BY <1>3, FuturesKeepRows
<1>4. ASSUME NEW a \in Accounts, DeleteRead(a)
      PROVE  RowsInv'
  BY <1>0, <1>4, RowsSame DEF DeleteRead, marketVars
<1>5. ASSUME NEW a \in Accounts, DeleteWrite(a)
      PROVE  RowsInv'
  BY <1>5, DeleteKeepsRows
<1>6. ASSUME NEW g \in Agents, CreateAgent(g)
      PROVE  RowsInv'
  BY <1>0, <1>6, RowsSame DEF CreateAgent, marketVars
<1>7. CASE ListPage
  BY <1>0, <1>7, RowsSame DEF ListPage, marketVars
<1>8. CASE Tick
  BY <1>0, <1>8, RowsSame DEF Tick, marketVars
<1>9. CASE UNCHANGED vars
  BY <1>0, <1>9, RowsSame DEF vars, marketVars
<1> QED
  BY <1>1, <1>2, <1>3, <1>4, <1>5, <1>6, <1>7, <1>8, <1>9 DEF Next

\* Steps that write neither orders, trades nor accounts.
LEMMA AccountsSame ==
    ASSUME UNCHANGED <<workload, order, stamp, trades, exists, deleting>>, AccountInv
    PROVE  AccountInv'
<1>1. Placed' = Placed
  BY DEF Placed
<1> QED
  BY <1>1 DEF AccountInv

\* Every step keeps the invariant of the accounts.
LEMMA AccountsStep == RowsInv /\ AccountInv /\ [Next]_vars => AccountInv'
<1> SUFFICES ASSUME RowsInv, AccountInv, [Next]_vars
             PROVE  AccountInv'
  OBVIOUS
<1>0. stamp \in Nat /\ trades \in Seq(TradeRow)
  BY DEF RowsInv, RowInv, TradeInv
<1>1. ASSUME NEW o \in Orders, Place(o)
      PROVE  AccountInv'
  <2>1. PICK q \in workload.inputs[o] : PlaceBinary(o, q) /\ q.account \in exists
    BY <1>1 DEF Place
  <2>2. q \in Input /\ RowInv
    BY RequestIsInput DEF RowsInv
  <2> DEFINE d == Deals(o, q)
  <2>3. /\ d \in Seq(TradeRow) /\ trades' = trades \o d
        /\ \A j \in DOMAIN d :
              /\ d[j].maker \in Side(Opposite(q.side)) /\ d[j].buyer = q.account
              /\ d[j].seller = order[d[j].maker].account
    BY <2>1, <2>2, DealsJoin
  <2>4. Placed' = Placed \cup {o} /\ \A r \in Placed : order'[r].account = order[r].account /\ order'[r].at = order[r].at
    BY <2>1, <2>2, PlacedAfter, RowFilled DEF FilledRow
  <2>5. order'[o].account = q.account /\ order'[o].at = stamp + 1
    BY <2>1, <2>2, OwnRowPlaced DEF OwnRow
  <2>6. \A j \in DOMAIN d : d[j].seller \in exists
    BY <2>2, <2>3, SideRow DEF AccountInv
  <2> HIDE DEF d
  <2>7. /\ \A k : k \in DOMAIN trades' <=> k \in DOMAIN trades \/ \E j \in DOMAIN d : k = Len(trades) + j
        /\ \A i \in DOMAIN trades : trades'[i] = trades[i]
        /\ \A j \in DOMAIN d : trades'[Len(trades) + j] = d[j]
    BY <1>0, <2>3, Concat
  <2>8. workload' = workload /\ exists' = exists /\ deleting' = deleting /\ stamp' = stamp + 1
    BY <1>1, <2>1 DEF Place, PlaceBinary
  <2>9. \A i \in DOMAIN trades' : trades'[i].buyer \in exists' /\ trades'[i].seller \in exists'
    BY <2>1, <2>3, <2>6, <2>7, <2>8 DEF AccountInv
  <2>10. \A r \in Placed' : order'[r].account \in exists'
    BY <2>1, <2>4, <2>5, <2>8 DEF AccountInv
  <2>11. ASSUME NEW a \in DOMAIN deleting'
         PROVE  deleting'[a] \in Nat /\ deleting'[a] <= stamp'
                    /\ \A r \in Placed' : order'[r].account = a => order'[r].at > deleting'[a]
    <3>1. deleting[a] \in Nat /\ deleting[a] <= stamp /\ a \in DOMAIN deleting
      BY <2>8 DEF AccountInv
    <3>2. \A r \in Placed : order'[r].account = a => order'[r].at > deleting[a]
      BY <2>4, <3>1 DEF AccountInv
    <3>3. order'[o].at > deleting[a]
      BY <1>0, <2>5, <3>1
    <3> QED
      BY <1>0, <2>4, <2>8, <3>1, <3>2, <3>3
  <2> QED
    BY <2>8, <2>9, <2>10, <2>11 DEF AccountInv
<1>2. ASSUME NEW o \in Orders, Cancel(o)
      PROVE  AccountInv'
  <2>1. Placed' = Placed /\ \A r \in Placed : order'[r].account = order[r].account /\ order'[r].at = order[r].at
    BY <1>2, CancelKeepsRows DEF Cancel
  <2>2. UNCHANGED <<workload, stamp, trades, exists, deleting>>
    BY <1>2 DEF Cancel, CancelBinary
  <2> QED
    BY <2>1, <2>2 DEF AccountInv
<1>3. ASSUME NEW event \in workload.events, TradeFutures(event)
      PROVE  AccountInv'
  <2> DEFINE d == FuturesDeals(event)
  <2>1. /\ trades' = trades \o d /\ UNCHANGED <<workload, order, stamp, exists, deleting>>
        /\ \A i \in DOMAIN event : {event[i].buyer, event[i].seller} \subseteq exists
    BY <1>3 DEF TradeFutures, FuturesDeals
  <2>2. d \in Seq(TradeRow)
    BY EventIsTrades, FuturesRows DEF RowsInv
  <2>3. \A j \in DOMAIN d : d[j].buyer \in exists /\ d[j].seller \in exists
    BY <2>1 DEF FuturesDeals
  <2> HIDE DEF d
  <2>4. /\ \A k : k \in DOMAIN trades' <=> k \in DOMAIN trades \/ \E j \in DOMAIN d : k = Len(trades) + j
        /\ \A i \in DOMAIN trades : trades'[i] = trades[i]
        /\ \A j \in DOMAIN d : trades'[Len(trades) + j] = d[j]
    BY <1>0, <2>1, <2>2, Concat
  <2>5. \A i \in DOMAIN trades' : trades'[i].buyer \in exists' /\ trades'[i].seller \in exists'
    BY <2>1, <2>3, <2>4 DEF AccountInv
  <2>6. Placed' = Placed
    BY <2>1 DEF Placed
  <2> QED
    BY <2>1, <2>5, <2>6 DEF AccountInv
<1>4. ASSUME NEW a \in Accounts, DeleteRead(a)
      PROVE  AccountInv'
  <2>1. /\ UNCHANGED <<workload, order, stamp, trades, exists>>
        /\ deleting' = [b \in DOMAIN deleting \cup {a} |-> IF b = a THEN stamp ELSE deleting[b]]
        /\ \A o \in Placed : order[o].account # a
    BY <1>4 DEF DeleteRead, marketVars, HasHistory
  <2>2. Placed' = Placed
    BY <2>1 DEF Placed
  <2>3. \A b \in DOMAIN deleting' : (b = a /\ deleting'[b] = stamp) \/ (b \in DOMAIN deleting /\ deleting'[b] = deleting[b])
    BY <2>1
  <2>4. ASSUME NEW b \in DOMAIN deleting'
        PROVE  deleting'[b] \in Nat /\ deleting'[b] <= stamp'
                  /\ \A o \in Placed' : order'[o].account = b => order'[o].at > deleting'[b]
    BY <1>0, <2>1, <2>2, <2>3 DEF AccountInv
  <2> QED
    BY <2>1, <2>2, <2>4 DEF AccountInv
<1>5. ASSUME NEW a \in Accounts, DeleteWrite(a)
      PROVE  AccountInv'
  <2>1. /\ Placed' = {r \in Placed : Traded(a) \/ order[r].account # a}
        /\ \A r \in Placed' : order'[r] = order[r]
        /\ stamp' = stamp /\ trades' = trades
        /\ exists' = IF Traded(a) THEN exists ELSE exists \ {a}
        /\ DOMAIN deleting' = DOMAIN deleting \ {a}
        /\ \A b \in DOMAIN deleting' : deleting'[b] = deleting[b]
    BY <1>5, DeleteRows
  <2>2. workload' = workload
    BY <1>5 DEF DeleteWrite
  <2>3. \A i \in DOMAIN trades' : trades'[i].buyer \in exists' /\ trades'[i].seller \in exists'
    BY <2>1 DEF AccountInv, Traded
  <2>4. \A r \in Placed' : order'[r].account \in exists'
    BY <2>1 DEF AccountInv
  <2> QED
    BY <2>1, <2>2, <2>3, <2>4 DEF AccountInv
<1>6. ASSUME NEW g \in Agents, CreateAgent(g)
      PROVE  AccountInv'
  BY <1>6, AccountsSame DEF CreateAgent, marketVars
<1>7. CASE ListPage
  BY <1>7, AccountsSame DEF ListPage, marketVars
<1>8. CASE Tick
  BY <1>8, AccountsSame DEF Tick, marketVars
<1>9. CASE UNCHANGED vars
  BY <1>9, AccountsSame DEF vars, marketVars
<1> QED
  BY <1>1, <1>2, <1>3, <1>4, <1>5, <1>6, <1>7, <1>8, <1>9 DEF Next

\* Both invariants hold throughout.
LEMMA RowsAlways == Spec => [](RowsInv /\ AccountInv)
<1>1. RowsInv /\ AccountInv /\ [Next]_vars => (RowsInv /\ AccountInv)'
  BY RowsStep, AccountsStep
<1> QED
  BY <1>1, RowsInit, PTL DEF Spec

\* The rows and the trades of several placements agree: the filled quantity of every
\* order is the sum of the trades that name it, its status follows from it, and nobody is
\* filled beyond the order, whatever books matching.ts meets.
THEOREM BinaryFillsMatch == Spec => []BinaryFillsAreTrades
BY RowsAlways, PTL DEF RowsInv

\* An order that a deletion removes was placed after the counts.
LEMMA DeletionStep ==
    ASSUME RowsInv, AccountInv, [Next]_vars, RowsInv', AccountInv'
    PROVE  \A o \in Placed : order'[o] = NoRow => order[o].at > deleting[order[o].account]
<1> SUFFICES ASSUME NEW o \in Placed, order'[o] = NoRow
             PROVE  order[o].at > deleting[order[o].account]
  OBVIOUS
<1>0. o \notin Placed' /\ order[o] # NoRow
  BY DEF Placed
<1>1. ASSUME NEW r \in Orders, Place(r)
      PROVE  FALSE
  <2>1. PICK q \in workload.inputs[r] : PlaceBinary(r, q)
    BY <1>1 DEF Place
  <2>2. q \in Input /\ RowInv
    BY RequestIsInput DEF RowsInv
  <2> QED
    BY <1>0, <2>1, <2>2, PlacedAfter
<1>2. ASSUME NEW r \in Orders, Cancel(r)
      PROVE  FALSE
  BY <1>0, <1>2, CancelKeepsRows DEF Cancel
<1>3. ASSUME NEW a \in Accounts, DeleteWrite(a)
      PROVE  order[o].at > deleting[order[o].account]
  <2>1. a \in DOMAIN deleting
    BY <1>3 DEF DeleteWrite
  <2>2. Placed' = {r \in Placed : Traded(a) \/ order[r].account # a}
    BY <1>3, DeleteRows
  <2>3. order[o].account = a
    BY <1>0, <2>2
  <2> QED
    BY <2>1, <2>3 DEF AccountInv
<1>4. CASE order' = order
  BY <1>0, <1>4
<1> QED
  BY <1>1, <1>2, <1>3, <1>4 DEF Next, vars, marketVars, TradeFutures, DeleteRead, CreateAgent, ListPage, Tick

\* The counts of a deletion may be stale when the account is deleted: still no trade loses
\* a party or an order, and an order that goes with its account came after the counts.
THEOREM DeletionIsSafe == Spec => DeletionSparesHistory
<1>1. ASSUME RowsInv, AccountInv, RowsInv', AccountInv', [Next]_vars
      PROVE  [/\ \A o \in Placed : order'[o] = NoRow => order[o].at > deleting[order[o].account]
              /\ \A i \in DOMAIN trades' :
                    /\ {trades'[i].buyer, trades'[i].seller} \subseteq exists'
                    /\ {trades'[i].taker, trades'[i].maker} \cap Orders
                          \subseteq {o \in Orders : order'[o] # NoRow}]_vars
  <2>1. \A o \in Placed : order'[o] = NoRow => order[o].at > deleting[order[o].account]
    BY <1>1, DeletionStep
  <2>2. \A i \in DOMAIN trades' : {trades'[i].buyer, trades'[i].seller} \subseteq exists'
    BY <1>1 DEF AccountInv
  <2>3. \A i \in DOMAIN trades' : {trades'[i].taker, trades'[i].maker} \cap Orders
                                      \subseteq {o \in Orders : order'[o] # NoRow}
    BY <1>1, BinaryAssumption DEF RowsInv, TradeInv, Placed
  <2> QED
    BY <2>1, <2>2, <2>3
<1> QED
  BY <1>1, RowsAlways, PTL DEF Spec, DeletionSparesHistory

-----------------------------------------------------------------------------
(* ListMissesNone and PnlAgrees *)

\* Agents that the client has still to meet are on the pages ahead.
ListInv ==
    /\ agents \in Seq(Agents)
    /\ list \in [page : Nat, seen : SUBSET Agents, from : SUBSET Agents]
    /\ list.page = 0 => list.from = {}
    /\ \A g \in list.from :
        \/ g \in list.seen
        \/ \E j \in list.page * PageSize + 1 .. Len(agents) : g = agents[Len(agents) + 1 - j]

\* Pages follow one another.
LEMMA PageEnds ==
    ASSUME NEW p \in Nat
    PROVE  /\ p * PageSize \in Nat /\ (p + 1) * PageSize \in Nat
           /\ p * PageSize < (p + 1) * PageSize
           /\ p = 0 => p * PageSize = 0
<1>1. PageSize \in Nat \ {0}
  BY PortfolioAssumption
<1> QED
  BY <1>1

\* What is on a page, in terms of the agents before it.
LEMMA PageHas ==
    ASSUME NEW p \in Nat, agents \in Seq(Agents)
    PROVE  /\ PageItems(p + 1) \subseteq Agents
           /\ \A j \in p * PageSize + 1 .. Len(agents) :
                j <= (p + 1) * PageSize => agents[Len(agents) + 1 - j] \in PageItems(p + 1)
           /\ PageItems(p + 1) = {} => Len(agents) <= p * PageSize
<1> DEFINE s == p * PageSize
           e == (p + 1) * PageSize
           n == Len(agents)
<1>1. s \in Nat /\ e \in Nat /\ e > s /\ n \in Nat
  <2>1. n \in Nat
    OBVIOUS
  <2>2. s \in Nat /\ e \in Nat /\ s < e
    BY PageEnds
  <2> HIDE DEF s, e
  <2> QED
    BY <2>1, <2>2
<1>2. DOMAIN agents = 1..n /\ \A k \in 1..n : agents[k] \in Agents
  OBVIOUS
<1>3. PageItems(p + 1) = {agents[n + 1 - i] : i \in s + 1 .. Lesser(e, n)}
  <2>1. (p + 1) - 1 = p
    OBVIOUS
  <2> QED
    BY <2>1 DEF PageItems
<1> HIDE DEF s, e, n
<1>4. PageItems(p + 1) \subseteq Agents
  <2>1. \A i \in s + 1 .. Lesser(e, n) : n + 1 - i \in 1..n
    BY <1>1 DEF Lesser
  <2> QED
    BY <1>2, <1>3, <2>1
<1>5. \A j \in s + 1 .. n : j <= e => j \in s + 1 .. Lesser(e, n)
  BY <1>1 DEF Lesser
<1>6. ASSUME PageItems(p + 1) = {}, ~(n <= s)
      PROVE  FALSE
  <2>1. s + 1 \in s + 1 .. Lesser(e, n)
    BY <1>1, <1>6 DEF Lesser
  <2> QED
    BY <1>3, <1>6, <2>1
<1>7. \A j \in s + 1 .. n : j <= e => agents[n + 1 - j] \in PageItems(p + 1)
  BY <1>3, <1>5
<1> QED
  BY <1>4, <1>6, <1>7 DEF s, e, n

\* The client meets on a page whoever it was to meet there.
LEMMA PageKeepsList == ASSUME ListInv, ListPage PROVE ListInv'
<1> DEFINE p == list.page
           n == Len(agents)
           items == PageItems(p + 1)
<1>1. p \in Nat /\ agents \in Seq(Agents) /\ n \in Nat
  BY DEF ListInv
<1>2. agents' = agents
  BY DEF ListPage
<1>3. /\ items \subseteq Agents
      /\ \A j \in p * PageSize + 1 .. n :
            j <= (p + 1) * PageSize => agents[n + 1 - j] \in items
      /\ items = {} => n <= p * PageSize
  BY <1>1, PageHas
<1>4. CASE list' = Idle
  BY <1>1, <1>2, <1>4 DEF ListInv, Idle
<1>5. CASE list' = [page |-> p + 1, seen |-> list.seen \cup items,
                    from |-> IF p = 0 THEN Range(agents) ELSE list.from]
  <2>1. list' \in [page : Nat, seen : SUBSET Agents, from : SUBSET Agents]
    <3>1. Range(agents) \subseteq Agents
      BY <1>1 DEF Range
    <3> QED
      BY <1>1, <1>3, <1>5, <3>1 DEF ListInv
  <2>2. list'.page # 0 /\ list'.page = p + 1 /\ list'.seen = list.seen \cup items
    BY <1>1, <1>5
  <2>3. /\ p * PageSize \in Nat /\ (p + 1) * PageSize \in Nat
        /\ p = 0 => p * PageSize = 0
    <3> HIDE DEF p
    <3> QED
      BY <1>1, PageEnds
  <2>4. ASSUME NEW g \in list'.from
        PROVE  g \in list.seen \/ \E j \in p * PageSize + 1 .. n : g = agents[n + 1 - j]
    <3>1. CASE p = 0
      <4>1. PICK k \in 1..n : g = agents[k]
        BY <1>1, <1>5, <2>4, <3>1 DEF Range
      <4>2. n + 1 - k \in p * PageSize + 1 .. n /\ n + 1 - (n + 1 - k) = k
        BY <1>1, <2>3, <3>1
      <4> QED
        BY <4>1, <4>2
    <3>2. CASE p # 0
      BY <1>5, <2>4, <3>2 DEF ListInv
    <3> QED
      BY <3>1, <3>2
  <2>5. ASSUME NEW g \in list'.from
        PROVE  g \in list'.seen \/ \E j \in (p + 1) * PageSize + 1 .. n : g = agents[n + 1 - j]
    <3>1. CASE g \in list.seen
      BY <2>2, <3>1
    <3>2. ASSUME NEW j \in p * PageSize + 1 .. n, g = agents[n + 1 - j]
          PROVE  g \in list'.seen \/ \E i \in (p + 1) * PageSize + 1 .. n : g = agents[n + 1 - i]
      <4>1. CASE j <= (p + 1) * PageSize
        BY <1>3, <2>2, <3>2, <4>1
      <4>2. CASE ~(j <= (p + 1) * PageSize)
        <5>1. j \in (p + 1) * PageSize + 1 .. n
          BY <1>1, <2>3, <4>2
        <5> QED
          BY <3>2, <5>1
      <4> QED
        BY <4>1, <4>2
    <3> QED
      BY <2>4, <3>1, <3>2
  <2> HIDE DEF items
  <2> QED
    BY <1>1, <1>2, <2>1, <2>2, <2>5 DEF ListInv
<1> QED
  BY <1>4, <1>5 DEF ListPage

\* A new agent moves the others to later places, never to earlier ones.
LEMMA CreateKeepsList == ASSUME ListInv, NEW g \in Agents, CreateAgent(g) PROVE ListInv'
<1> DEFINE n == Len(agents)
<1>1. agents \in Seq(Agents) /\ agents' = Append(agents, g) /\ list' = list /\ n \in Nat
  BY DEF ListInv, CreateAgent
<1>2. /\ agents' \in Seq(Agents) /\ Len(agents') = n + 1
      /\ \A k \in 1..n : agents'[k] = agents[k]
  BY <1>1
<1>3. list.page * PageSize \in Nat
  BY PageEnds DEF ListInv
<1>4. ASSUME NEW h \in list.from, NEW j \in list.page * PageSize + 1 .. n, h = agents[n + 1 - j]
      PROVE  \E i \in list.page * PageSize + 1 .. n + 1 : h = agents'[(n + 1) + 1 - i]
  <2>1. j + 1 \in list.page * PageSize + 1 .. n + 1
    BY <1>1, <1>3
  <2>2. (n + 1) + 1 - (j + 1) = n + 1 - j /\ n + 1 - j \in 1..n
    BY <1>1, <1>3
  <2> QED
    BY <1>2, <1>4, <2>1, <2>2
<1>5. \A h \in list.from :
        h \in list.seen \/ \E i \in list.page * PageSize + 1 .. n + 1 : h = agents'[(n + 1) + 1 - i]
  BY <1>4 DEF ListInv
<1>6. /\ list' \in [page : Nat, seen : SUBSET Agents, from : SUBSET Agents]
      /\ list'.page = 0 => list'.from = {}
  BY <1>1 DEF ListInv
<1> QED
  <2>1. \A h \in list'.from : \/ h \in list'.seen
                               \/ \E i \in list'.page * PageSize + 1 .. Len(agents') :
                                      h = agents'[Len(agents') + 1 - i]
    <3> HIDE DEF n
    <3>1. list' = list /\ Len(agents') = n + 1
      BY <1>1, <1>2
    <3> QED
      BY ONLY <1>5, <3>1
  <2> QED
    BY <1>2, <1>6, <2>1 DEF ListInv

\* The invariant of the list holds throughout.
LEMMA ListAlways == Spec => []ListInv
<1>1. Init => ListInv
  <2> SUFFICES ASSUME Init
               PROVE  ListInv
    OBVIOUS
  <2> QED
    BY PortfolioAssumption DEF Init, ListInv, Idle
<1>2. ListInv /\ [Next]_vars => ListInv'
  <2> SUFFICES ASSUME ListInv, [Next]_vars
               PROVE  ListInv'
    OBVIOUS
  <2>1. ASSUME NEW g \in Agents, CreateAgent(g)
        PROVE  ListInv'
    BY <2>1, CreateKeepsList
  <2>2. CASE ListPage
    BY <2>2, PageKeepsList
  <2>3. CASE UNCHANGED <<agents, list>>
    BY <2>3 DEF ListInv
  <2> QED
    BY <2>1, <2>2, <2>3
       DEF Next, vars, Place, Cancel, TradeFutures, DeleteRead, DeleteWrite, Tick
<1> QED
  BY <1>1, <1>2, PTL DEF Spec

\* Whoever was an agent when the client began to read has been listed when it meets an
\* empty page, however many agents were created on the way.
THEOREM ListIsComplete == Spec => ListMissesNone
<1>1. ASSUME ListInv, [Next]_vars
      PROVE  [list.page > 0 /\ list' = Idle => list.from \subseteq list.seen]_vars
  <2> SUFFICES ASSUME list.page > 0, list' = Idle
               PROVE  list.from \subseteq list.seen
    OBVIOUS
  <2>1. list.page \in Nat /\ list.page # 0 /\ list' # list /\ agents \in Seq(Agents)
    BY <1>1 DEF ListInv, Idle
  <2>2. ListPage
    BY <1>1, <2>1 DEF Next, vars, Place, Cancel, TradeFutures, DeleteRead, DeleteWrite, Tick, CreateAgent
  <2>3. PageItems(list.page + 1) = {}
    <3>1. list'.page # list.page + 1
      BY <2>1 DEF Idle
    <3> QED
      BY <2>2, <3>1 DEF ListPage
  <2>4. Len(agents) <= list.page * PageSize /\ list.page * PageSize \in Nat /\ Len(agents) \in Nat
    <3> DEFINE p == list.page
    <3>1. p \in Nat /\ PageItems(p + 1) = {} /\ agents \in Seq(Agents)
      BY <2>1, <2>3
    <3> HIDE DEF p
    <3>2. Len(agents) <= p * PageSize
      BY <3>1, PageHas
    <3>3. p * PageSize \in Nat
      BY <3>1, PageEnds
    <3>4. Len(agents) \in Nat
      BY <3>1
    <3> QED
      BY <3>2, <3>3, <3>4 DEF p
  <2>5. list.page * PageSize + 1 .. Len(agents) = {}
    BY <2>4
  <2> QED
    BY <1>1, <2>5 DEF ListInv
<1> QED
  BY <1>1, ListAlways, PTL DEF Spec, ListMissesNone

-----------------------------------------------------------------------------
\* The balance of an account is the sum of what its trades have moved.
CashInv ==
    /\ balance \in [Accounts -> Int]
    /\ \A a \in Accounts : balance[a] = BalanceDelta(trades, a, DOMAIN trades)

\* No trades, no money.
LEMMA NoCash == ASSUME NEW a PROVE BalanceDelta(<<>>, a, DOMAIN <<>>) = 0
<1>1. DOMAIN <<>> = {}
  OBVIOUS
<1> QED
  BY <1>1, SumEmpty DEF BalanceDelta

\* The sum over a part of the trades is a number.
LEMMA DeltaInt ==
    ASSUME NEW s \in Seq(TradeRow), NEW a, NEW I \in SUBSET DOMAIN s
    PROVE  BalanceDelta(s, a, I) \in Int /\ IsFiniteSet(I)
<1> DEFINE f == [i \in DOMAIN s |-> CashFlow(s[i], a)]
<1>1. IsFiniteSet(I)
  <2>1. DOMAIN s = 1..Len(s) /\ Len(s) \in Nat /\ 1 \in Int
    OBVIOUS
  <2>2. IsFiniteSet(1..Len(s))
    BY <2>1, FS_Interval
  <2> QED
    BY <2>1, <2>2, FS_Subset
<1>2. \A i \in I : f[i] \in Int
  BY CashFlowInt
<1> HIDE DEF f
<1>3. SumFunctionOnSet(f, I) \in Int
  BY <1>1, <1>2, SumInt
<1> QED
  BY <1>1, <1>3 DEF BalanceDelta, f

\* A step that adds trades posts what they move.
LEMMA TradesKeepCash ==
    ASSUME CashInv, NEW d \in Seq(TradeRow), trades \in Seq(TradeRow), trades' = trades \o d,
           balance' = [a \in Accounts |-> balance[a] + BalanceDelta(d, a, DOMAIN d)]
    PROVE  CashInv'
<1>1. \A a \in Accounts : BalanceDelta(d, a, DOMAIN d) \in Int
  BY DeltaInt
<1>2. \A a \in Accounts : BalanceDelta(trades', a, DOMAIN trades')
                              = BalanceDelta(trades, a, DOMAIN trades) + BalanceDelta(d, a, DOMAIN d)
  BY CashJoins
<1>3. balance' \in [Accounts -> Int]
  BY <1>1 DEF CashInv
<1>4. \A a \in Accounts : balance'[a] = BalanceDelta(trades', a, DOMAIN trades')
  BY <1>2 DEF CashInv
<1> QED
  BY <1>3, <1>4 DEF CashInv

\* The invariant of the balances holds throughout.
LEMMA CashAlways == Spec => []CashInv
<1>1. Init => CashInv
  <2> SUFFICES ASSUME Init
               PROVE  CashInv
    OBVIOUS
  <2>1. trades = <<>> /\ balance = [a \in Accounts |-> 0]
    BY DEF Init, MarketInit
  <2> QED
    BY <2>1, NoCash DEF CashInv
<1>2. RowsInv /\ AccountInv /\ CashInv /\ [Next]_vars => CashInv'
  <2> SUFFICES ASSUME RowsInv, AccountInv, CashInv, [Next]_vars
               PROVE  CashInv'
    OBVIOUS
  <2>1. RowInv /\ trades \in Seq(TradeRow)
    BY DEF RowsInv, TradeInv
  <2>2. ASSUME NEW o \in Orders, Place(o)
        PROVE  CashInv'
    <3>1. PICK q \in workload.inputs[o] : PlaceBinary(o, q)
      BY <2>2 DEF Place
    <3>2. q \in Input
      BY RequestIsInput
    <3>3. Deals(o, q) \in Seq(TradeRow) /\ trades' = trades \o Deals(o, q)
      BY <2>1, <3>1, <3>2, DealsJoin
    <3>4. balance' = [a \in Accounts |-> balance[a] + BalanceDelta(Deals(o, q), a, DOMAIN Deals(o, q))]
      BY <3>1 DEF PlaceBinary
    <3> QED
      BY <2>1, <3>3, <3>4, TradesKeepCash
  <2>3. ASSUME NEW event \in workload.events, TradeFutures(event)
        PROVE  CashInv'
    <3>1. FuturesDeals(event) \in Seq(TradeRow)
      BY <2>1, EventIsTrades, FuturesRows
    <3>2. /\ trades' = trades \o FuturesDeals(event)
          /\ balance' = [a \in Accounts |->
                balance[a] + BalanceDelta(FuturesDeals(event), a, DOMAIN FuturesDeals(event))]
      BY <2>3 DEF TradeFutures, FuturesDeals
    <3> QED
      BY <2>1, <3>1, <3>2, TradesKeepCash
  <2>4. CASE UNCHANGED <<trades, balance>>
    BY <2>4 DEF CashInv
  <2> QED
    BY <2>2, <2>3, <2>4
       DEF Next, vars, marketVars, Cancel, CancelBinary, DeleteRead, DeleteWrite, Tick, CreateAgent, ListPage
<1> QED
  BY <1>1, <1>2, RowsAlways, PTL DEF Spec

\* The statement for one account reads each trade once, the one for many adds what was
\* received and what was paid, the leaderboard looks at the balance: they agree for
\* whoever never traded with itself, the last one while no trade is older than a day.
THEOREM ProfitsAgree == Spec => []PnlAgrees
<1>1. RowsInv /\ CashInv => PnlAgrees
  <2> SUFFICES ASSUME RowsInv, CashInv, NEW a \in Accounts, ~SelfTraded(a)
               PROVE  /\ Pnl24h(a) = Pnl24hBatch(a)
                      /\ Recent = DOMAIN trades => Pnl24h(a) = PnlOfLeaderboard(a)
    BY DEF PnlAgrees
  <2> DEFINE f == [i \in DOMAIN trades |-> CashFlow(trades[i], a)]
             g == [i \in DOMAIN trades |->
                    LET cost == trades[i].price * trades[i].quantity
                    IN  CASE trades[i].seller = a -> cost
                          [] trades[i].seller # a /\ trades[i].buyer = a -> -cost
                          [] OTHER -> 0]
  <2>1. trades \in Seq(TradeRow) /\ Recent \subseteq DOMAIN trades
    BY DEF RowsInv, TradeInv, Recent
  <2>2. ASSUME NEW i \in DOMAIN trades
        PROVE  f[i] \in Int /\ g[i] = f[i]
    <3>1. trades[i] \in TradeRow
      BY <2>1
    <3>2. f[i] \in Int
      BY <3>1, CashFlowInt
    <3>3. trades[i].price * trades[i].quantity \in Int
      BY <3>1 DEF TradeRow
    <3>4. ~(trades[i].seller = a /\ trades[i].buyer = a)
      BY DEF SelfTraded
    <3> QED
      BY <3>2, <3>3, <3>4 DEF CashFlow
  <2>3. IsFiniteSet(Recent)
    BY <2>1, DeltaInt
  <2>4. Pnl24h(a) = SumFunctionOnSet(g, Recent) /\ Pnl24hBatch(a) = SumFunctionOnSet(f, Recent)
    BY DEF Pnl24h, Pnl24hBatch, BalanceDelta
  <2> HIDE DEF f, g
  <2>5. \A i \in Recent : f[i] \in Int /\ g[i] = f[i]
    BY <2>1, <2>2
  <2>6. Pnl24h(a) = Pnl24hBatch(a)
    BY <2>3, <2>4, <2>5, SumAgree
  <2>7. Recent = DOMAIN trades => Pnl24hBatch(a) = balance[a]
    BY DEF Pnl24hBatch, CashInv
  <2> QED
    BY <2>6, <2>7 DEF PnlOfLeaderboard
<1> QED
  BY <1>1, RowsAlways, CashAlways, PTL

-----------------------------------------------------------------------------
(* SharesBalanced *)

\* Quantities of trades add up to a quantity.
LEMMA QuantityNat ==
    ASSUME NEW d \in Seq(TradeRow), NEW I \in SUBSET DOMAIN d
    PROVE  Quantity(d, I) \in Nat
<1> DEFINE f == [i \in DOMAIN d |-> d[i].quantity]
<1>1. IsFiniteSet(I)
  BY DeltaInt
<1>2. \A i \in I : f[i] \in Nat
  <2>1. \A i \in I : d[i] \in TradeRow
    OBVIOUS
  <2> QED
    BY <2>1 DEF TradeRow
<1> HIDE DEF f
<1>3. SumFunctionOnSet(f, I) \in Nat
  BY <1>1, <1>2, SumNat
<1> QED
  BY <1>3 DEF Quantity, f

Bought(d, a) == {i \in DOMAIN d : d[i].buyer = a}
Sold(d, a) == {i \in DOMAIN d : d[i].seller = a}

\* What is bought in a list of trades is sold in it.
LEMMA BoughtIsSold ==
    ASSUME NEW d \in Seq(TradeRow)
    PROVE  SumFunctionOnSet([a \in Accounts |-> Quantity(d, Bought(d, a))], Accounts)
               = SumFunctionOnSet([a \in Accounts |-> Quantity(d, Sold(d, a))], Accounts)
<1> DEFINE f == [i \in DOMAIN d |-> d[i].quantity]
           buyer == [i \in DOMAIN d |-> d[i].buyer]
           seller == [i \in DOMAIN d |-> d[i].seller]
           S == DOMAIN d
<1>1. IsFiniteSet(S) /\ IsFiniteSet(Accounts)
  BY DeltaInt, BinaryAssumption
<1>2. \A i \in S : f[i] \in Int /\ buyer[i] \in Accounts /\ seller[i] \in Accounts
  <2>1. \A i \in S : d[i] \in TradeRow
    OBVIOUS
  <2> QED
    BY <2>1 DEF TradeRow
<1>3. \A a : Bought(d, a) = {i \in S : buyer[i] = a} /\ Sold(d, a) = {i \in S : seller[i] = a}
  BY DEF Bought, Sold
<1>4. \A I : Quantity(d, I) = SumFunctionOnSet(f, I)
  BY DEF Quantity
<1> HIDE DEF f, buyer, seller, S
<1>5. SumFunctionOnSet([a \in Accounts |-> SumFunctionOnSet(f, {i \in S : buyer[i] = a})], Accounts)
        = SumFunctionOnSet(f, S)
  BY <1>1, <1>2, SumByKey
<1>6. SumFunctionOnSet([a \in Accounts |-> SumFunctionOnSet(f, {i \in S : seller[i] = a})], Accounts)
        = SumFunctionOnSet(f, S)
  BY <1>1, <1>2, SumByKey
<1> QED
  BY <1>3, <1>4, <1>5, <1>6

\* Without a trade of an account with itself, every trade of a call gives its buyer one
\* outcome and its seller the other one.
LEMMA AcquiredByCall ==
    ASSUME NEW d \in Seq(TradeRow), NEW side \in Outcome, \A i \in DOMAIN d : d[i].outcome = side,
           \A i \in DOMAIN d : d[i].buyer # d[i].seller, NEW a
    PROVE  /\ Acquired(d, a, side) = Quantity(d, Bought(d, a))
           /\ Acquired(d, a, Opposite(side)) = Quantity(d, Sold(d, a))
<1>1. Opposite(side) # side
  BY SideIsOpposite
<1>2. {i \in DOMAIN d : IF d[i].outcome = side THEN Keeps(d, a, i) ELSE d[i].seller = a} = Bought(d, a)
  BY DEF Keeps, Bought
<1>3. {i \in DOMAIN d : IF d[i].outcome = Opposite(side) THEN Keeps(d, a, i) ELSE d[i].seller = a} = Sold(d, a)
  BY <1>1 DEF Sold
<1> QED
  BY <1>2, <1>3 DEF Acquired

\* Nobody acquires less than nothing.
LEMMA AcquiredNat ==
    ASSUME NEW d \in Seq(TradeRow), NEW a, NEW outcome
    PROVE  Acquired(d, a, outcome) \in Nat
BY QuantityNat DEF Acquired

Gained(d) == [a \in Accounts |-> Acquired(d, a, "YES") - Acquired(d, a, "NO")]

\* A call gives out as many shares of one outcome as of the other.
LEMMA GainedIsEven ==
    ASSUME NEW d \in Seq(TradeRow), NEW side \in Outcome, \A i \in DOMAIN d : d[i].outcome = side,
           \A i \in DOMAIN d : d[i].buyer # d[i].seller
    PROVE  SumFunctionOnSet(Gained(d), Accounts) = 0
<1> DEFINE f == [a \in Accounts |-> Quantity(d, Bought(d, a))]
           g == [a \in Accounts |-> Quantity(d, Sold(d, a))]
           h == Gained(d)
<1>1. SumFunctionOnSet(f, Accounts) = SumFunctionOnSet(g, Accounts)
  BY BoughtIsSold
<1>2. \A a \in Accounts : f[a] \in Int /\ g[a] \in Int
  BY QuantityNat DEF Bought, Sold
<1>3. side = "YES" => \A a \in Accounts : h[a] = f[a] - g[a]
  BY AcquiredByCall DEF Gained, Opposite
<1>4. side = "NO" => \A a \in Accounts : h[a] = g[a] - f[a]
  BY AcquiredByCall DEF Gained, Opposite
<1>5. IsFiniteSet(Accounts)
  BY BinaryAssumption
<1> HIDE DEF f, g, h
<1>6. side = "YES" \/ side = "NO"
  BY DEF Outcome
<1>7. \A a \in Accounts : h[a] \in Int
  BY <1>2, <1>3, <1>4, <1>6
<1>8. /\ SumFunctionOnSet(f, Accounts) \in Int
      /\ SumFunctionOnSet(g, Accounts) \in Int
      /\ SumFunctionOnSet(h, Accounts) \in Int
  BY <1>2, <1>5, <1>7, SumInt
<1>9. CASE side = "YES"
  <2>1. \A a \in Accounts : h[a] \in Int /\ g[a] \in Int /\ f[a] = h[a] + g[a]
    BY <1>2, <1>3, <1>7, <1>9
  <2>2. SumFunctionOnSet(f, Accounts) = SumFunctionOnSet(h, Accounts) + SumFunctionOnSet(g, Accounts)
    BY <1>5, <2>1, SumPlus
  <2> QED
    BY <1>1, <1>8, <2>2 DEF h
<1>10. CASE side = "NO"
  <2>1. \A a \in Accounts : h[a] \in Int /\ f[a] \in Int /\ g[a] = h[a] + f[a]
    BY <1>2, <1>4, <1>7, <1>10
  <2>2. SumFunctionOnSet(g, Accounts) = SumFunctionOnSet(h, Accounts) + SumFunctionOnSet(f, Accounts)
    BY <1>5, <2>1, SumPlus
  <2> QED
    BY <1>1, <1>8, <2>2 DEF h
<1> QED
  BY <1>6, <1>9, <1>10

Surplus == [a \in Accounts |-> share[a].yes - share[a].no]

ShareInv ==
    /\ share \in [Accounts -> [yes : Nat, no : Nat]]
    /\ (\A a \in Accounts : ~SelfTraded(a)) => SumFunctionOnSet(Surplus, Accounts) = 0

\* A placement keeps the shares balanced.
LEMMA PlaceKeepsShares ==
    ASSUME RowInv, trades \in Seq(TradeRow), ShareInv, NEW o \in Orders, NEW q \in Input, PlaceBinary(o, q)
    PROVE  ShareInv'
<1> DEFINE d == Deals(o, q)
<1>1. /\ d \in Seq(TradeRow) /\ trades' = trades \o d
      /\ \A i \in DOMAIN d : d[i].outcome = q.side
  BY DealsJoin
<1>2. share' = [a \in Accounts |->
                [yes |-> share[a].yes + Acquired(d, a, "YES"),
                 no |-> share[a].no + Acquired(d, a, "NO")]]
  BY DEF PlaceBinary
<1>3. q.side \in Outcome
  BY DEF Input
<1> HIDE DEF d
<1>4. /\ \A k : k \in DOMAIN trades' <=> k \in DOMAIN trades \/ \E j \in DOMAIN d : k = Len(trades) + j
      /\ \A i \in DOMAIN trades : trades'[i] = trades[i]
      /\ \A j \in DOMAIN d : trades'[Len(trades) + j] = d[j] /\ d[j] \in TradeRow
  BY <1>1, Concat
<1>5. \A a : Acquired(d, a, "YES") \in Nat /\ Acquired(d, a, "NO") \in Nat
  BY <1>1, AcquiredNat
<1>6. share' \in [Accounts -> [yes : Nat, no : Nat]]
  BY <1>2, <1>5 DEF ShareInv
<1>7. ASSUME \A a \in Accounts : ~SelfTraded(a)'
      PROVE  SumFunctionOnSet(Surplus', Accounts) = 0
  <2>1. \A a \in Accounts : ~SelfTraded(a)
    BY <1>4, <1>7 DEF SelfTraded
  <2>2. \A j \in DOMAIN d : d[j].buyer # d[j].seller
    BY <1>4, <1>7 DEF SelfTraded, TradeRow
  <2>3. SumFunctionOnSet(Surplus, Accounts) = 0
    BY <2>1 DEF ShareInv
  <2>4. SumFunctionOnSet(Gained(d), Accounts) = 0
    BY <1>1, <1>3, <2>2, GainedIsEven
  <2>5. \A a \in Accounts : /\ Surplus[a] \in Int /\ Gained(d)[a] \in Int
                            /\ Surplus'[a] = Surplus[a] + Gained(d)[a]
    BY <1>2, <1>5 DEF Surplus, Gained, ShareInv
  <2>6. SumFunctionOnSet(Surplus', Accounts)
            = SumFunctionOnSet(Surplus, Accounts) + SumFunctionOnSet(Gained(d), Accounts)
    BY <2>5, BinaryAssumption, SumPlus
  <2> QED
    BY <2>3, <2>4, <2>6
<1> QED
  BY <1>6, <1>7 DEF ShareInv

\* An event of the futures market moves no shares.
LEMMA FuturesKeepShares ==
    ASSUME RowInv, trades \in Seq(TradeRow), ShareInv, NEW event \in Seq(FuturesTrade), TradeFutures(event)
    PROVE  ShareInv'
<1>1. trades' = trades \o FuturesDeals(event) /\ share' = share
  BY DEF TradeFutures, FuturesDeals
<1>2. FuturesDeals(event) \in Seq(TradeRow)
  BY FuturesRows
<1>3. /\ \A k : k \in DOMAIN trades => k \in DOMAIN trades'
      /\ \A i \in DOMAIN trades : trades'[i] = trades[i]
  BY <1>1, <1>2, Concat
<1>4. ASSUME NEW a, SelfTraded(a)
      PROVE  SelfTraded(a)'
  BY <1>3, <1>4 DEF SelfTraded
<1>5. Surplus' = Surplus
  BY <1>1 DEF Surplus
<1> QED
  BY <1>1, <1>4, <1>5 DEF ShareInv

\* The invariant of the shares holds throughout.
LEMMA SharesAlways == Spec => []ShareInv
<1>1. Init => ShareInv
  <2> SUFFICES ASSUME Init
               PROVE  ShareInv
    OBVIOUS
  <2>1. share = [a \in Accounts |-> [yes |-> 0, no |-> 0]]
    BY DEF Init, MarketInit
  <2>2. \A a \in Accounts : Surplus[a] = 0
    BY <2>1 DEF Surplus
  <2>3. SumFunctionOnSet(Surplus, Accounts) = 0
    BY <2>2, BinaryAssumption, SumZero
  <2> QED
    BY <2>1, <2>3 DEF ShareInv
<1>2. RowsInv /\ AccountInv /\ ShareInv /\ [Next]_vars => ShareInv'
  <2> SUFFICES ASSUME RowsInv, AccountInv, ShareInv, [Next]_vars
               PROVE  ShareInv'
    OBVIOUS
  <2>1. RowInv /\ trades \in Seq(TradeRow)
    BY DEF RowsInv, TradeInv
  <2>2. ASSUME NEW o \in Orders, Place(o)
        PROVE  ShareInv'
    <3>1. PICK q \in workload.inputs[o] : PlaceBinary(o, q)
      BY <2>2 DEF Place
    <3>2. q \in Input
      BY RequestIsInput
    <3> QED
      BY <2>1, <3>1, <3>2, PlaceKeepsShares
  <2>3. ASSUME NEW event \in workload.events, TradeFutures(event)
        PROVE  ShareInv'
    BY <2>1, <2>3, EventIsTrades, FuturesKeepShares
  <2>4. CASE UNCHANGED <<trades, share>>
    BY <2>4 DEF ShareInv, Surplus, SelfTraded
  <2> QED
    BY <2>2, <2>3, <2>4
       DEF Next, vars, marketVars, Cancel, CancelBinary, DeleteRead, DeleteWrite, Tick, CreateAgent, ListPage
<1> QED
  BY <1>1, <1>2, RowsAlways, PTL DEF Spec

\* While no account has traded with itself, the shares of the two outcomes balance over
\* all accounts: what settlement pays for one it takes for the other.
THEOREM SharesBalance == Spec => []SharesBalanced
<1>1. ShareInv => SharesBalanced
  BY DEF ShareInv, SharesBalanced, Surplus
<1> QED
  BY <1>1, SharesAlways, PTL

-----------------------------------------------------------------------------
(* The cost basis *)

HoldingRow == [quantity : Int, average : Int, realized : Int]

\* A quotient is a number, and what divides without a remainder is not rounded.
LEMMA ExactQuotient ==
    ASSUME NEW x \in Int, NEW n \in Int, n > 0
    PROVE  Quotient(x, n) \in Int /\ (x % n = 0 => Quotient(x, n) * n = x)
<1>1. x = n * (x \div n) + (x % n) /\ (x \div n) \in Int /\ (x % n) \in Int
  OBVIOUS
<1>2. (x \div n) * n = n * (x \div n)
  BY <1>1
<1>3. Quotient(x, n) \in Int
  BY <1>1 DEF Quotient
<1>4. x % n = 0 => Quotient(x, n) = x \div n
  BY DEF Quotient
<1> QED
  BY <1>1, <1>2, <1>3, <1>4

\* An average is a number: nothing is divided by zero.
LEMMA AverageIsInt ==
    ASSUME NEW h \in HoldingRow, NEW price \in Int, NEW q \in Int
    PROVE  AverageAfter(h, price, q) \in Int
<1>1. h.quantity \in Int /\ h.average \in Int
  BY DEF HoldingRow
<1> DEFINE x == Size(h.quantity) * h.average + Size(q) * price
           n == Size(h.quantity + q)
<1>2. x \in Int
  BY <1>1 DEF Size
<1>3. SameSide(h.quantity, q) => n \in Int /\ n > 0
  BY <1>1 DEF Size, SameSide
<1> HIDE DEF x, n
<1>4. SameSide(h.quantity, q) => Quotient(x, n) \in Int
  BY <1>2, <1>3, ExactQuotient
<1>5. \/ AverageAfter(h, price, q) = 0 \/ AverageAfter(h, price, q) = price
      \/ SameSide(h.quantity, q) /\ AverageAfter(h, price, q) = Quotient(x, n)
      \/ AverageAfter(h, price, q) = h.average
  BY DEF AverageAfter, x, n
<1> QED
  BY <1>1, <1>4, <1>5

\* So is what is earned.
LEMMA EarnedIsInt ==
    ASSUME NEW h \in HoldingRow, NEW price \in Int, NEW q \in Int
    PROVE  Earned(h, price, q) \in Int
BY DEF HoldingRow, Earned, Lesser, Size

\* A trade leaves a holding.
LEMMA BookedRow ==
    ASSUME NEW h \in HoldingRow, NEW price \in Int, NEW q \in Int
    PROVE  Booked(h, price, q) \in HoldingRow
<1>1. AverageAfter(h, price, q) \in Int /\ Earned(h, price, q) \in Int
  BY AverageIsInt, EarnedIsInt
<1> QED
  BY <1>1 DEF HoldingRow, Booked

-----------------------------------------------------------------------------
(* ExposureCoversPayout *)

\* What the n-th trade makes of a holding.
AfterTrade(h, a, deals, n) ==
    LET t == deals[n]
        b == IF Keeps(deals, a, n) THEN Booked(h, t.price, t.quantity) ELSE h
    IN  IF t.seller = a THEN Booked(b, t.price, -t.quantity) ELSE b

Unwinds(f, h, a, deals, m) == f = [n \in 0..m |-> IF n = 0 THEN h ELSE AfterTrade(f[n - 1], a, deals, n)]

\* The recursion of the cost basis is defined: there is such a function.
LEMMA UnwindsExists ==
    ASSUME NEW h, NEW a, NEW deals, NEW m \in Nat
    PROVE  \E f : Unwinds(f, h, a, deals, m)
<1> DEFINE Good == {n \in 0..m : \E f : Unwinds(f, h, a, deals, n)}
<1>1. 0 \in Good
  <2> DEFINE f == [n \in 0..0 |-> h]
  <2>1. f = [n \in 0..0 |-> IF n = 0 THEN h ELSE AfterTrade(f[n - 1], a, deals, n)]
    BY DOMAIN f = 0..0
  <2>2. Unwinds(f, h, a, deals, 0)
    BY <2>1 DEF Unwinds
  <2> QED
    BY <2>2
<1>2. ASSUME NEW i \in 0..(m - 1), i \in Good
      PROVE  i + 1 \in Good
  <2>1. PICK f : Unwinds(f, h, a, deals, i)
    BY <1>2
  <2> DEFINE g == [n \in 0..i + 1 |-> IF n = 0 THEN h ELSE AfterTrade(f[n - 1], a, deals, n)]
  <2>2. \A n \in 0..i : g[n] = f[n]
    BY <2>1 DEF Unwinds
  <2>3. \A n \in 0..i + 1 : n # 0 => n - 1 \in 0..i
    OBVIOUS
  <2>4. \A n \in 0..i + 1 : n # 0 => AfterTrade(f[n - 1], a, deals, n) = AfterTrade(g[n - 1], a, deals, n)
    BY <2>2, <2>3
  <2>5. g = [n \in 0..i + 1 |-> IF n = 0 THEN h ELSE AfterTrade(g[n - 1], a, deals, n)]
    BY <2>4
  <2> HIDE DEF g
  <2>6. Unwinds(g, h, a, deals, i + 1)
    BY <2>5 DEF Unwinds
  <2> QED
    BY <2>6
<1> HIDE DEF Good
<1>3. \A i \in 0..m : i \in Good
  BY <1>1, <1>2, CountUp
<1> QED
  BY <1>3 DEF Good

\* The cost basis is such a function.
LEMMA CostBasisUnwinds ==
    ASSUME NEW h, NEW a, NEW deals, Len(deals) \in Nat
    PROVE  Unwinds(CostBasis(h, a, deals), h, a, deals, Len(deals))
<1>1. CostBasis(h, a, deals) = CHOOSE f : Unwinds(f, h, a, deals, Len(deals))
  BY DEF CostBasis, Unwinds, AfterTrade
<1> QED
  BY <1>1, UnwindsExists

\* Every trade of an event leaves a holding.
LEMMA AfterTradeRow ==
    ASSUME NEW h \in HoldingRow, NEW a, NEW deals \in Seq(TradeRow), NEW n \in DOMAIN deals
    PROVE  AfterTrade(h, a, deals, n) \in HoldingRow
<1>1. deals[n] \in TradeRow
  OBVIOUS
<1>2. deals[n].price \in Int /\ deals[n].quantity \in Int /\ -deals[n].quantity \in Int
  BY <1>1 DEF TradeRow
<1> QED
  BY <1>2, BookedRow DEF AfterTrade

\* The cost basis, trade by trade.
LEMMA CostBasisRow ==
    ASSUME NEW h \in HoldingRow, NEW a, NEW deals \in Seq(TradeRow)
    PROVE  /\ CostBasis(h, a, deals)[0] = h
           /\ \A n \in 0..Len(deals) : CostBasis(h, a, deals)[n] \in HoldingRow
           /\ \A n \in 1..Len(deals) :
                CostBasis(h, a, deals)[n] = AfterTrade(CostBasis(h, a, deals)[n - 1], a, deals, n)
           /\ DOMAIN CostBasis(h, a, deals) = 0..Len(deals)
<1> DEFINE f == CostBasis(h, a, deals)
           m == Len(deals)
           Good == {n \in 0..m : f[n] \in HoldingRow}
<1>1. m \in Nat /\ DOMAIN deals = 1..m
  OBVIOUS
<1>2. Unwinds(f, h, a, deals, m)
  BY <1>1, CostBasisUnwinds
<1> HIDE DEF f, m
<1>3. /\ f[0] = h /\ DOMAIN f = 0..m
      /\ \A n \in 1..m : f[n] = AfterTrade(f[n - 1], a, deals, n)
  <2>1. \A n \in 1..m : n \in 0..m /\ n # 0
    BY <1>1
  <2>2. DOMAIN f = 0..m /\ \A n \in 0..m : f[n] = IF n = 0 THEN h ELSE AfterTrade(f[n - 1], a, deals, n)
    BY <1>2 DEF Unwinds
  <2>3. 0 \in 0..m
    BY <1>1
  <2> QED
    BY <2>1, <2>2, <2>3
<1>4. 0 \in Good
  BY <1>1, <1>3
<1>5. ASSUME NEW i \in 0..(m - 1), i \in Good
      PROVE  i + 1 \in Good
  <2>1. i + 1 \in 1..m /\ i + 1 \in 0..m /\ (i + 1) - 1 = i /\ i + 1 \in DOMAIN deals
    BY <1>1
  <2>2. f[i + 1] = AfterTrade(f[i], a, deals, i + 1)
    BY <1>3, <2>1
  <2> QED
    BY <1>5, <2>1, <2>2, AfterTradeRow
<1> HIDE DEF Good
<1>6. \A i \in 0..m : i \in Good
  BY <1>1, <1>4, <1>5, CountUp
<1> QED
  BY <1>3, <1>6 DEF Good, f, m

HoldingInv == \A a \in Accounts : holding[a] \in HoldingRow

\* Holdings are holdings throughout.
LEMMA HoldingsAlways == Spec => []HoldingInv
<1>1. Init => HoldingInv
  BY DEF Init, HoldingInv, Flat, HoldingRow
<1>2. RowsInv /\ AccountInv /\ HoldingInv /\ [Next]_vars => HoldingInv'
  <2> SUFFICES ASSUME RowsInv, AccountInv, HoldingInv, [Next]_vars
               PROVE  HoldingInv'
    OBVIOUS
  <2>1. ASSUME NEW event \in workload.events, TradeFutures(event)
        PROVE  HoldingInv'
    <3> DEFINE d == FuturesDeals(event)
    <3>1. d \in Seq(TradeRow)
      BY EventIsTrades, FuturesRows DEF RowsInv
    <3>2. holding' = [a \in Accounts |-> CostBasis(holding[a], a, d)[Len(d)]]
      BY <2>1 DEF TradeFutures, FuturesDeals
    <3> HIDE DEF d
    <3>3. \A a \in Accounts : CostBasis(holding[a], a, d)[Len(d)] \in HoldingRow
      <4>1. Len(d) \in 0..Len(d)
        BY <3>1
      <4> QED
        BY <3>1, <4>1, CostBasisRow DEF HoldingInv
    <3> QED
      BY <3>2, <3>3 DEF HoldingInv
  <2>2. CASE UNCHANGED holding
    BY <2>2 DEF HoldingInv
  <2> QED
    BY <2>1, <2>2
       DEF Next, vars, Place, Cancel, DeleteRead, DeleteWrite, Tick, CreateAgent, ListPage
<1> QED
  BY <1>1, <1>2, RowsAlways, PTL DEF Spec

-----------------------------------------------------------------------------
\* Multiplying keeps the order.
LEMMA TimesMonotone ==
    ASSUME NEW x \in Int, NEW y \in Int, NEW u \in Nat, x <= y
    PROVE  x * u <= y * u
<1>1. (y - x) * u \in Nat
  OBVIOUS
<1>2. (y - x) * u = y * u - x * u
  OBVIOUS
<1> QED
  BY <1>1, <1>2

\* What a contract pays at a value within the price bounds.
LEMMA PayoutWithin ==
    ASSUME NEW q \in Int, NEW v \in Nat, NEW m \in Nat, v <= m
    PROVE  q * v \in Int /\ Size(q) * m \in Nat /\ -(Size(q) * m) <= q * v /\ q * v <= Size(q) * m
<1>1. Size(q) \in Nat /\ -Size(q) <= q /\ q <= Size(q)
  BY DEF Size
<1> DEFINE s == Size(q)
<1> HIDE DEF s
<1>2. s \in Nat /\ -s \in Int /\ -s <= q /\ q <= s
  BY <1>1 DEF s
<1>3. (-s) * v <= q * v /\ q * v <= s * v
  BY <1>2, TimesMonotone
<1>4. v * s <= m * s
  BY <1>2, TimesMonotone
<1>5. v * s = s * v /\ m * s = s * m /\ (-s) * v = -(s * v) /\ s * v \in Int /\ s * m \in Nat /\ q * v \in Int
  BY <1>2
<1>6. -(s * m) <= q * v /\ q * v <= s * m
  BY <1>3, <1>4, <1>5
<1> QED
  BY <1>5, <1>6 DEF s

\* Exposure is a bound for every position: settlement at no value within the price bounds,
\* with either outcome, moves an account by more.
THEOREM ExposureIsBound == Spec => []ExposureCoversPayout
<1>1. HoldingInv /\ ShareInv => ExposureCoversPayout
  <2> SUFFICES ASSUME HoldingInv, ShareInv,
                      NEW a \in Accounts, NEW value \in Values, NEW outcome \in Outcome
               PROVE  Size(FuturesPayout(a, value) + BinaryPayout(a, outcome)) <= Exposure(a)
    BY DEF ExposureCoversPayout
  <2> DEFINE q == holding[a].quantity
             y == share[a].yes
             n == share[a].no
             u == Multiplier
             b == IF outcome = "YES" THEN y - n ELSE n - y
             x == q * value + b
             e == Size(q) * MaxPrice + y + n
  <2>1. q \in Int /\ y \in Nat /\ n \in Nat
    BY DEF HoldingInv, HoldingRow, ShareInv
  <2>2. u \in Nat /\ value \in Nat /\ MaxPrice \in Nat /\ value <= MaxPrice
    BY PortfolioAssumption
  <2> HIDE DEF q, y, n, u
  <2>3. /\ q * value \in Int /\ Size(q) * MaxPrice \in Nat
        /\ -(Size(q) * MaxPrice) <= q * value /\ q * value <= Size(q) * MaxPrice
    BY <2>1, <2>2, PayoutWithin
  <2>4. b \in Int /\ -(y + n) <= b /\ b <= y + n
    BY <2>1
  <2> HIDE DEF b
  <2>5. x \in Int /\ e \in Nat /\ -e \in Int /\ -e <= x /\ x <= e
    BY <2>1, <2>3, <2>4
  <2>6. BinaryPayout(a, outcome) = b * u
    BY <2>1, <2>2 DEF BinaryPayout, b, y, n, u
  <2>7. FuturesPayout(a, value) + BinaryPayout(a, outcome) = x * u
    <3>1. q * value * u + b * u = (q * value + b) * u
      BY <2>2, <2>3, <2>4
    <3> QED
      BY <2>6, <3>1 DEF FuturesPayout, q, u
  <2>8. Exposure(a) = e * u
    BY DEF Exposure, q, y, n, u
  <2> HIDE DEF x, e
  <2>9. (-e) * u <= x * u /\ x * u <= e * u
    BY <2>2, <2>5, TimesMonotone
  <2>10. (-e) * u = -(e * u) /\ e * u \in Int /\ x * u \in Int
    BY <2>2, <2>5
  <2>11. Size(x * u) <= e * u
    BY <2>9, <2>10 DEF Size
  <2> QED
    BY <2>7, <2>8, <2>11
<1> QED
  BY <1>1, HoldingsAlways, SharesAlways, PTL

-----------------------------------------------------------------------------
(* YesInPriority *)

\* In terms of the book: whoever a trade filled came before whoever is still open.
Priority(i, r) ==
    LET m == trades[i].maker
    IN  /\ m \in Orders
        /\ order[m].side = "YES" /\ order[r].side = "YES"
        /\ order[r].at < order[trades[i].taker].at
        => m = r \/ Before(m, r)

PriorityInv == \A i \in DOMAIN trades, r \in Resting : Priority(i, r)

\* What the book is sorted by.
SameKeys(r) ==
    order'[r].side = order[r].side /\ order'[r].price = order[r].price /\ order'[r].at = order[r].at

\* The order of two rows rests on their sides, prices and stamps.
LEMMA BeforeSame ==
    ASSUME NEW m, NEW r, SameKeys(m), SameKeys(r)
    PROVE  Before(m, r)' <=> Before(m, r)
BY DEF SameKeys, Before, SortPrice

\* What an earlier trade respects it respects while the keys stay.
LEMMA PriorityKept ==
    ASSUME PriorityInv, NEW i \in DOMAIN trades, NEW r \in Resting, trades'[i] = trades[i], SameKeys(r),
           trades[i].maker \in Orders => SameKeys(trades[i].maker) /\ SameKeys(trades[i].taker)
    PROVE  Priority(i, r)'
<1>1. Priority(i, r)
  BY DEF PriorityInv
<1> SUFFICES ASSUME trades[i].maker \in Orders
             PROVE  Priority(i, r)'
  BY DEF Priority
<1>2. SameKeys(trades[i].maker) /\ SameKeys(trades[i].taker)
  OBVIOUS
<1>3. Before(trades[i].maker, r)' <=> Before(trades[i].maker, r)
  BY <1>2, BeforeSame
<1> QED
  BY <1>1, <1>2, <1>3 DEF Priority, SameKeys

\* Steps that add no trade of this market and open no order.
LEMMA PriorityStays ==
    ASSUME PriorityInv, TradeInv,
           \A r \in Resting' : r \in Resting /\ SameKeys(r),
           \A i \in DOMAIN trades' :
              \/ trades'[i].maker \notin Orders
              \/ /\ i \in DOMAIN trades /\ trades'[i] = trades[i]
                 /\ SameKeys(trades[i].maker) /\ SameKeys(trades[i].taker)
    PROVE  PriorityInv'
<1>1. ASSUME NEW i \in DOMAIN trades', NEW r \in Resting'
      PROVE  Priority(i, r)'
  <2>1. CASE trades'[i].maker \notin Orders
    BY <2>1 DEF Priority
  <2>2. CASE trades'[i].maker \in Orders
    BY <2>2, PriorityKept
  <2> QED
    BY <2>1, <2>2
<1> QED
  BY <1>1 DEF PriorityInv

\* Who stays open in a placement was not passed over: earlier entries of the book that
\* the loop went past are filled.
LEMMA PassedIsFilled ==
    ASSUME RowInv, NEW o \in Orders, NEW q \in Input, PlaceBinary(o, q),
           NEW b, NEW m, NEW k, NEW side, Takes(Deals(o, q), k, o, q, b, m, side),
           NEW i \in 1..k, NEW j \in 1..k, i < j
    PROVE  b[i] \notin Resting'
<1> DEFINE d == Deals(o, q)
           r == b[i]
<1>1. order[o] = NoRow
  BY DEF PlaceBinary
<1>2. k \in Nat /\ r \in Side(side) /\ (\A x, y \in 1..m : b[x] = b[y] => x = y) /\ 1..k \subseteq 1..m
  BY DEF Takes, IsBook
<1>3. r \in Placed /\ r \in Orders /\ order[r] \in OrderRow /\ Open(r) = order[r].quantity - order[r].filled /\ Open(r) > 0
  BY <1>2, SideRow
<1>4. r # o
  BY <1>1, <1>3 DEF Placed
<1>5. FilledRow(r, d, order'[r])
  BY <1>3, RowFilled
<1> HIDE DEF d
<1>6. Takes(d, k, o, q, b, m, side)
  BY DEF d
<1>7. \E x \in 1..k : r = b[x] /\ Quantity(d, Of(d, r)) = d[x].quantity /\ (x < k => d[x].quantity = Open(r))
  <2>1. \/ \A x \in 1..k : r # b[x]
        \/ \E x \in 1..k : r = b[x] /\ Quantity(d, Of(d, r)) = d[x].quantity /\ (x < k => d[x].quantity = Open(r))
    BY <1>1, <1>4, <1>6, TradesOfRow
  <2> QED
    BY <2>1
<1>8. Quantity(d, Of(d, r)) = Open(r)
  <2>1. PICK x \in 1..k : r = b[x] /\ Quantity(d, Of(d, r)) = d[x].quantity /\ (x < k => d[x].quantity = Open(r))
    BY <1>7
  <2>2. x = i
    BY <1>2, <2>1
  <2>3. i < k
    BY <1>2
  <2> QED
    BY <2>1, <2>2, <2>3
<1> HIDE DEF r
<1>9. order'[r].filled = order'[r].quantity /\ order'[r].quantity \in Nat
  BY <1>3, <1>5, <1>8 DEF FilledRow, OrderRow
<1>10. order'[r].status = "FILLED"
  BY <1>3, <1>5, <1>8, <1>9 DEF FilledRow, StatusFor
<1> QED
  BY <1>10 DEF Resting, r

\* A placement serves the book in its order.
LEMMA PlaceKeepsPriority ==
    ASSUME RowInv, TradeInv, TradeInv', PriorityInv, NEW o \in Orders, NEW q \in Input, PlaceBinary(o, q)
    PROVE  PriorityInv'
<1> DEFINE d == Deals(o, q)
<1>0. stamp \in Nat /\ trades \in Seq(TradeRow)
  BY DEF RowInv, TradeInv
<1>1. Placed' = Placed \cup {o} /\ o \notin Placed
  BY PlacedAfter
<1>2. \A r \in Placed : SameKeys(r) /\ FilledRow(r, d, order'[r]) /\ order[r].at \in Nat /\ order[r].at <= stamp
  BY RowFilled, PlacedRow DEF FilledRow, SameKeys, RowInv, OrderRow
<1>3. order'[o].at = stamp + 1
  BY OwnRowPlaced DEF OwnRow
<1>4. ASSUME NEW r \in Resting', r # o
      PROVE  r \in Resting
  <2>1. r \in Placed /\ order'[r].status \in {"PENDING", "PARTIALLY_FILLED"}
    BY <1>1, <1>4 DEF Resting
  <2> QED
    BY <1>2, <2>1 DEF FilledRow, Resting
<1>5. /\ \A i : i \in DOMAIN trades' <=> i \in DOMAIN trades \/ \E j \in DOMAIN d : i = Len(trades) + j
      /\ \A i \in DOMAIN trades : trades'[i] = trades[i]
      /\ \A j \in DOMAIN d : trades'[Len(trades) + j] = d[j]
  <2>1. d \in Seq(TradeRow) /\ trades' = trades \o d
    BY DealsJoin
  <2> HIDE DEF d
  <2> QED
    BY <1>0, <2>1, Concat
<1>6. ASSUME NEW i \in DOMAIN trades', NEW r \in Resting', r = o
      PROVE  Priority(i, r)'
  <2>1. trades'[i].maker \in Orders => trades'[i].taker \in Placed'
    BY BinaryAssumption DEF TradeInv
  <2>2. trades'[i].maker \in Orders => ~(order'[o].at < order'[trades'[i].taker].at)
    <3>1. ASSUME NEW t \in Placed'
          PROVE  ~(order'[o].at < order'[t].at)
      <4>1. CASE t = o
        BY <1>0, <1>3, <4>1
      <4>2. CASE t \in Placed
        BY <1>0, <1>2, <1>3, <4>2 DEF SameKeys
      <4> QED
        BY <1>1, <4>1, <4>2
    <3> QED
      BY <2>1, <3>1
  <2> QED
    BY <1>6, <2>2 DEF Priority
<1>7. ASSUME NEW i \in DOMAIN trades, NEW r \in Resting', r # o
      PROVE  Priority(i, r)'
  <2>1. r \in Resting /\ SameKeys(r)
    BY <1>2, <1>4, <1>7 DEF Resting
  <2>2. trades[i].maker \in Orders => trades[i].maker \in Placed /\ trades[i].taker \in Placed
    BY BinaryAssumption DEF TradeInv
  <2> QED
    BY <1>2, <1>5, <2>1, <2>2, PriorityKept
<1>8. ASSUME NEW j \in DOMAIN d, NEW i, i = Len(trades) + j, NEW r \in Resting', r # o
      PROVE  Priority(i, r)'
  <2>1. PICK b, m : Takes(d, Reached(q), o, q, b, m, Opposite(q.side))
    BY DealsTake
  <2> DEFINE k == Reached(q)
             mk == b[j]
  <2>2. r \in Resting /\ r \in Placed /\ SameKeys(r)
    BY <1>2, <1>4, <1>8 DEF Resting
  <2>3. /\ j \in 1..k /\ k \in 0..m /\ m \in Nat /\ mk \in Side(Opposite(q.side)) /\ d[j].maker = mk
        /\ IsBook(b, m, Opposite(q.side))
    BY <2>1 DEF Takes, IsBook
  <2>4. trades'[i].maker = mk
    BY <1>5, <1>8, <2>3
  <2>5. mk \in Placed /\ SameKeys(mk) /\ order[mk].side = Opposite(q.side)
    BY <1>2, <2>3, SideRow
  <2>6. ASSUME order'[mk].side = "YES", order'[r].side = "YES"
        PROVE  mk = r \/ Before(mk, r)'
    <3>1. r \in Side(Opposite(q.side))
      BY <2>2, <2>5, <2>6 DEF Side, SameKeys
    <3>2. PICK x \in 1..m : r = b[x]
      BY <2>3, <3>1 DEF IsBook
    <3>3. ~(x < j)
      <4>1. ASSUME x < j
            PROVE  x \in 1..k
        BY <2>3, <4>1
      <4> QED
        BY <1>8, <2>1, <2>3, <3>2, <4>1, PassedIsFilled
    <3>4. x = j \/ j < x
      BY <2>3, <3>3
    <3>5. j \in 1..m
      BY <2>3
    <3>6. j < x => Before(mk, r)
      BY <2>3, <3>2, <3>5 DEF IsBook
    <3> QED
      BY <2>2, <2>5, <3>2, <3>4, <3>6, BeforeSame
  <2> QED
    BY <2>4, <2>6 DEF Priority
<1> HIDE DEF d
<1>9. \A i \in DOMAIN trades', r \in Resting' : Priority(i, r)'
  BY <1>5, <1>6, <1>7, <1>8
<1> QED
  BY <1>9 DEF PriorityInv

\* The invariant of the priority holds throughout.
LEMMA PriorityAlways == Spec => []PriorityInv
<1>1. Init => PriorityInv
  BY DEF Init, MarketInit, PriorityInv
<1>2. RowsInv /\ AccountInv /\ PriorityInv /\ [Next]_vars /\ RowsInv' => PriorityInv'
  <2> SUFFICES ASSUME RowsInv, AccountInv, PriorityInv, [Next]_vars, RowsInv'
               PROVE  PriorityInv'
    OBVIOUS
  <2>1. RowInv /\ TradeInv /\ TradeInv'
    BY DEF RowsInv
  <2>2. \A i \in DOMAIN trades : trades[i].maker \in Orders =>
            trades[i].maker \in Placed /\ trades[i].taker \in Placed
    BY <2>1, BinaryAssumption DEF TradeInv
  <2>3. ASSUME NEW o \in Orders, Place(o)
        PROVE  PriorityInv'
    <3>1. PICK q \in workload.inputs[o] : PlaceBinary(o, q)
      BY <2>3 DEF Place
    <3>2. q \in Input
      BY RequestIsInput
    <3> QED
      BY <2>1, <3>1, <3>2, PlaceKeepsPriority
  <2>4. ASSUME NEW o \in Orders, Cancel(o)
        PROVE  PriorityInv'
    <3>1. trades' = trades /\ order' = [order EXCEPT ![o].status = "CANCELLED"] /\ o \in Resting
      BY <2>4 DEF Cancel, CancelBinary
    <3>2. \A r \in Placed : SameKeys(r)
      BY <2>1, <3>1, PlacedRow DEF RowInv, SameKeys
    <3>3. Placed' = Placed
      BY <2>4, CancelKeepsRows DEF Cancel
    <3>4. \A r \in Resting' : r \in Resting
      BY <2>1, <3>1, <3>3 DEF Resting, Placed, RowInv
    <3>5. \A r \in Resting' : r \in Resting /\ SameKeys(r)
      BY <3>2, <3>4 DEF Resting
    <3>6. \A i \in DOMAIN trades' :
            \/ trades'[i].maker \notin Orders
            \/ /\ i \in DOMAIN trades /\ trades'[i] = trades[i]
               /\ SameKeys(trades[i].maker) /\ SameKeys(trades[i].taker)
      BY <2>2, <3>1, <3>2
    <3> QED
      BY <2>1, <3>5, <3>6, PriorityStays
  <2>5. ASSUME NEW event \in workload.events, TradeFutures(event)
        PROVE  PriorityInv'
    <3> DEFINE d == FuturesDeals(event)
    <3>1. trades' = trades \o d /\ order' = order
      BY <2>5 DEF TradeFutures, FuturesDeals
    <3>2. d \in Seq(TradeRow) /\ trades \in Seq(TradeRow)
      BY <2>1, EventIsTrades, FuturesRows DEF TradeInv
    <3>3. \A j \in DOMAIN d : d[j].maker \notin Orders
      BY BinaryAssumption DEF FuturesDeals
    <3> HIDE DEF d
    <3>4. /\ \A k : k \in DOMAIN trades' <=> k \in DOMAIN trades \/ \E j \in DOMAIN d : k = Len(trades) + j
          /\ \A i \in DOMAIN trades : trades'[i] = trades[i]
          /\ \A j \in DOMAIN d : trades'[Len(trades) + j] = d[j]
      BY <3>1, <3>2, Concat
    <3>5. (\A r : SameKeys(r)) /\ Resting' = Resting
      BY <3>1 DEF SameKeys, Resting, Placed
    <3>6. \A i \in DOMAIN trades' :
            \/ trades'[i].maker \notin Orders
            \/ /\ i \in DOMAIN trades /\ trades'[i] = trades[i]
               /\ SameKeys(trades[i].maker) /\ SameKeys(trades[i].taker)
      BY <3>3, <3>4, <3>5
    <3> QED
      BY <2>1, <3>5, <3>6, PriorityStays
  <2>6. ASSUME NEW a \in Accounts, DeleteWrite(a)
        PROVE  PriorityInv'
    <3>1. (\A r \in Placed' : r \in Placed /\ order'[r] = order[r]) /\ trades' = trades
      BY <2>6, DeleteRows
    <3>2. \A r \in Placed' : SameKeys(r)
      BY <3>1 DEF SameKeys
    <3>3. \A r \in Resting' : r \in Resting /\ SameKeys(r)
      BY <3>1, <3>2 DEF Resting
    <3>4. \A i \in DOMAIN trades' : trades'[i].maker \in Orders =>
                trades'[i].maker \in Placed' /\ trades'[i].taker \in Placed'
      BY <2>1, BinaryAssumption DEF TradeInv
    <3>5. \A i \in DOMAIN trades' :
            \/ trades'[i].maker \notin Orders
            \/ /\ i \in DOMAIN trades /\ trades'[i] = trades[i]
               /\ SameKeys(trades[i].maker) /\ SameKeys(trades[i].taker)
      BY <3>1, <3>2, <3>4
    <3> QED
      BY <2>1, <3>3, <3>5, PriorityStays
  <2>7. CASE UNCHANGED <<order, trades>>
    BY <2>7 DEF PriorityInv, Priority, Before, SortPrice, Resting, Placed
  <2> QED
    BY <2>3, <2>4, <2>5, <2>6, <2>7
       DEF Next, vars, marketVars, DeleteRead, Tick, CreateAgent, ListPage
<1> QED
  BY <1>1, <1>2, RowsAlways, PTL DEF Spec

\* Price-time priority for those who buy NO: no YES order that was there before stays open
\* behind one that was filled, unless its price or its time puts it there.
THEOREM YesKeepsPriority == Spec => []YesInPriority
<1>1. RowsInv /\ PriorityInv => YesInPriority
  <2> SUFFICES ASSUME RowsInv, PriorityInv, NEW i \in DOMAIN trades, NEW r \in Resting,
                      trades[i].maker \in Orders,
                      order[trades[i].maker].side = "YES", order[r].side = "YES",
                      order[r].at < order[trades[i].taker].at
               PROVE  LET m == trades[i].maker
                      IN  \/ order[r].price < order[m].price /\ order[r].price # NoPrice
                          \/ order[m].price = NoPrice \/ order[m].price = FullPrice
                          \/ order[r].price = order[m].price /\ order[r].at >= order[m].at
    BY DEF YesInPriority
  <2> DEFINE m == trades[i].maker
  <2>1. m \in Placed /\ r \in Placed
    BY BinaryAssumption DEF RowsInv, TradeInv, Resting
  <2>2. order[m] \in OrderRow /\ order[r] \in OrderRow
    BY <2>1, PlacedRow DEF RowsInv
  <2>3. m = r \/ Before(m, r)
    BY DEF PriorityInv, Priority
  <2>4. /\ order[m].price \in Nat /\ order[r].price \in Nat /\ order[m].price <= FullPrice
        /\ order[r].price <= FullPrice /\ order[m].at \in Nat /\ order[r].at \in Nat /\ FullPrice \in Nat
    BY <2>2, BinaryAssumption DEF OrderRow
  <2> QED
    BY <2>3, <2>4 DEF Before, SortPrice, NoPrice
<1> QED
  BY <1>1, RowsAlways, PriorityAlways, PTL

-----------------------------------------------------------------------------
(* RealizedIsCash *)

\* A product that is not negative crosses no zero.
LEMMA Crossing ==
    ASSUME NEW x \in Int, NEW y \in Int, ~(x * y < 0)
    PROVE  (x > 0 => y >= 0) /\ (x < 0 => y <= 0)
<1>1. ASSUME x > 0, y < 0
      PROVE  x * y < 0
  BY <1>1
<1>2. ASSUME x < 0, y > 0
      PROVE  x * y < 0
  BY <1>2
<1> QED
  BY <1>1, <1>2

\* A trade neither turns the position nor rounds its average.
Plain(h, price, q) ==
    /\ ~(h.quantity * (h.quantity + q) < 0)
    /\ SameSide(h.quantity, q) =>
        (Size(h.quantity) * h.average + Size(q) * price) % Size(h.quantity + q) = 0

\* What is booked as earned and what is left in the position is what was paid.
LEMMA BookedIsCash ==
    ASSUME NEW h \in HoldingRow, NEW price \in Int, NEW q \in Int, q # 0, Plain(h, price, q)
    PROVE  LET b == Booked(h, price, q)
           IN  b.realized - b.quantity * b.average = h.realized - h.quantity * h.average - q * price
<1> DEFINE s == h.quantity
           v == h.average
           r == h.realized
           w == AverageAfter(h, price, q)
           g == Earned(h, price, q)
<1>1. s \in Int /\ v \in Int /\ r \in Int
  BY DEF HoldingRow
<1>2. w \in Int /\ g \in Int
  BY AverageIsInt, EarnedIsInt
<1>3. (s > 0 => s + q >= 0) /\ (s < 0 => s + q <= 0)
  BY <1>1, Crossing DEF Plain
<1> SUFFICES g - (s + q) * w = -(s * v) - q * price
  <2> HIDE DEF s, v, r, w, g
  <2>1. Booked(h, price, q).realized = r + g
    BY DEF Booked, r, g
  <2>2. Booked(h, price, q).quantity = s + q /\ Booked(h, price, q).average = w
    BY DEF Booked, s, w
  <2>3. (s + q) * w \in Int /\ s * v \in Int /\ q * price \in Int
    BY <1>1, <1>2
  <2>4. g - (s + q) * w = -(s * v) - q * price => (r + g) - (s + q) * w = r - s * v - q * price
    BY <1>1, <1>2, <2>3
  <2> QED
    BY <2>1, <2>2, <2>4 DEF s, v, r
<1>4. CASE s + q = 0
  <2>1. w = 0
    <3>1. s # 0 /\ ~SameSide(s, q)
      BY <1>1, <1>4 DEF SameSide
    <3> QED
      BY <1>4, <3>1 DEF AverageAfter
  <2>2. s # 0 /\ ~SameSide(s, q) /\ Size(s) = Size(q)
    BY <1>1, <1>4 DEF SameSide, Size
  <2>3. g = Lesser(Size(s), Size(q)) * (IF s > 0 THEN price - v ELSE v - price)
    BY <2>2 DEF Earned
  <2>4. Lesser(Size(s), Size(q)) = Size(s)
    BY <2>2 DEF Lesser
  <2> HIDE DEF s, v, r, w, g
  <2>5. q = -s /\ q * price = -(s * price)
    BY <1>1, <1>4
  <2>6. CASE s > 0
    <3>1. g = s * (price - v)
      BY <1>1, <2>3, <2>4, <2>6 DEF Size
    <3>2. s * (price - v) = s * price - s * v
      BY <1>1
    <3> QED
      BY <1>1, <1>4, <2>1, <2>5, <3>1, <3>2
  <2>7. CASE s < 0
    <3>1. g = (-s) * (v - price)
      BY <1>1, <2>3, <2>4, <2>7 DEF Size
    <3>2. (-s) * (v - price) = s * price - s * v
      BY <1>1
    <3> QED
      BY <1>1, <1>4, <2>1, <2>5, <3>1, <3>2
  <2> QED
    BY <1>1, <2>2, <2>6, <2>7
<1>5. CASE s = 0
  <2>1. w = price /\ g = 0
    <3>1. s + q # 0 /\ ~SameSide(s, q)
      BY <1>1, <1>5 DEF SameSide
    <3> QED
      BY <1>5, <3>1 DEF AverageAfter, Earned
  <2> HIDE DEF s, v, r, w, g
  <2> QED
    BY <1>1, <1>5, <2>1
<1>6. CASE SameSide(s, q)
  <2> DEFINE x == Size(s) * v + Size(q) * price
             n == Size(s + q)
  <2>1. s # 0 /\ s + q # 0
    BY <1>1, <1>6 DEF SameSide
  <2>2. w = Quotient(x, n) /\ g = 0
    BY <1>6, <2>1 DEF AverageAfter, Earned
  <2>3. x % n = 0
    BY <1>6 DEF Plain
  <2> HIDE DEF s, v, r, w, g
  <2>4. x \in Int /\ n \in Int /\ n > 0
    BY <1>1, <1>6 DEF Size, SameSide
  <2>5. CASE s > 0
    <3>1. x = s * v + q * price /\ n = s + q
      BY <1>1, <1>6, <2>5 DEF Size, SameSide
    <3> HIDE DEF x, n
    <3>2. w * n = x
      BY <2>2, <2>3, <2>4, ExactQuotient
    <3>3. (s + q) * w = w * n
      BY <1>1, <1>2, <3>1
    <3> QED
      BY <1>1, <2>2, <3>1, <3>2, <3>3
  <2>6. CASE s < 0
    <3>1. x = -(s * v) - q * price /\ n = -(s + q)
      BY <1>1, <1>6, <2>6 DEF Size, SameSide
    <3> HIDE DEF x, n
    <3>2. w * n = x
      BY <2>2, <2>3, <2>4, ExactQuotient
    <3>3. (s + q) * w = -(w * n)
      BY <1>1, <1>2, <3>1
    <3> QED
      BY <1>1, <2>2, <3>1, <3>2, <3>3
  <2> QED
    BY <1>1, <2>1, <2>5, <2>6
<1>7. CASE s # 0 /\ s + q # 0 /\ ~SameSide(s, q)
  <2>1. w = v
    BY <1>7 DEF AverageAfter
  <2>2. g = Lesser(Size(s), Size(q)) * (IF s > 0 THEN price - v ELSE v - price)
    BY <1>7 DEF Earned
  <2>3. Lesser(Size(s), Size(q)) = Size(q)
    BY <1>1, <1>3, <1>7 DEF Size, SameSide, Lesser
  <2> HIDE DEF s, v, r, w, g
  <2>4. (s + q) * v = s * v + q * v /\ s * v \in Int /\ q * v \in Int /\ q * price \in Int
    BY <1>1
  <2>5. CASE s > 0
    <3>1. g = (-q) * (price - v)
      BY <1>1, <1>7, <2>2, <2>3, <2>5 DEF Size, SameSide
    <3>2. (-q) * (price - v) = q * v - q * price
      BY <1>1
    <3> QED
      BY <2>1, <2>4, <3>1, <3>2
  <2>6. CASE s < 0
    <3>1. g = q * (v - price)
      BY <1>1, <1>7, <2>2, <2>3, <2>6 DEF Size, SameSide
    <3>2. q * (v - price) = q * v - q * price
      BY <1>1
    <3> QED
      BY <2>1, <2>4, <3>1, <3>2
  <2> QED
    BY <1>1, <1>7, <2>5, <2>6
<1> QED
  BY <1>4, <1>5, <1>6, <1>7

\* What an account has paid and received if its open contracts are at their average.
Cash(h) == h.realized - h.quantity * h.average

\* Cash is a number.
LEMMA CashIsInt ==
    ASSUME NEW h \in HoldingRow
    PROVE  Cash(h) \in Int
BY DEF HoldingRow, Cash

\* An event that neither turns nor rounds does so at none of its trades.
LEMMA NoTurn ==
    ASSUME NEW f, NEW d, NEW m \in Nat, DOMAIN f = 0..m, ~Turns(f), ~Rounds(f, d), NEW n \in 1..m,
           NEW q \in Int, f[n - 1].quantity \in Int, f[n].quantity = f[n - 1].quantity + q
    PROVE  Plain(f[n - 1], d[n].price, q)
<1>1. n \in DOMAIN f \ {0}
  OBVIOUS
<1>2. f[n].quantity - f[n - 1].quantity = q
  OBVIOUS
<1>3. ~(f[n - 1].quantity * f[n].quantity < 0)
  BY <1>1 DEF Turns
<1>4. SameSide(f[n - 1].quantity, q) =>
        (Size(f[n - 1].quantity) * f[n - 1].average + Size(q) * d[n].price) % Size(f[n - 1].quantity + q) = 0
  BY <1>1, <1>2 DEF Rounds
<1> QED
  BY <1>3, <1>4 DEF Plain

\* One trade of an event: what is booked is what is paid.
LEMMA TradeIsCash ==
    ASSUME NEW h \in HoldingRow, NEW a, NEW d \in Seq(TradeRow),
           \A i \in DOMAIN d : ~(d[i].buyer = a /\ d[i].seller = a),
           ~Turns(CostBasis(h, a, d)), ~Rounds(CostBasis(h, a, d), d), NEW n \in 1..Len(d)
    PROVE  Cash(CostBasis(h, a, d)[n]) = Cash(CostBasis(h, a, d)[n - 1]) + CashFlow(d[n], a)
<1> DEFINE f == CostBasis(h, a, d)
           m == Len(d)
           g == f[n - 1]
           t == d[n]
<1>1. m \in Nat /\ n \in DOMAIN d /\ t \in TradeRow /\ n - 1 \in 0..m /\ n \in 1..m
  OBVIOUS
<1>2. DOMAIN f = 0..m /\ g \in HoldingRow /\ f[n] = AfterTrade(g, a, d, n)
  BY <1>1, CostBasisRow
<1>3. ~Turns(f) /\ ~Rounds(f, d)
  OBVIOUS
<1> HIDE DEF f
<1>4. t.price \in Int /\ t.quantity \in Int /\ -t.quantity \in Int /\ t.quantity # 0 /\ -t.quantity # 0
  BY <1>1 DEF TradeRow
<1>5. g.quantity \in Int /\ Cash(g) \in Int
  BY <1>2, CashIsInt DEF HoldingRow
<1>6. Keeps(d, a, n) <=> t.buyer = a
  BY <1>1 DEF Keeps
<1>7. ASSUME NEW q \in Int, q # 0, f[n] = Booked(g, t.price, q)
      PROVE  Cash(f[n]) = Cash(g) - q * t.price
  <2>1. f[n].quantity = g.quantity + q
    BY <1>7 DEF Booked
  <2>2. Plain(g, t.price, q)
    BY <1>1, <1>2, <1>3, <1>5, <1>7, <2>1, NoTurn
  <2> QED
    BY <1>2, <1>4, <1>7, <2>2, BookedIsCash DEF Cash
<1>8. CASE t.buyer = a
  <2>1. t.seller # a
    BY <1>1, <1>8
  <2>2. f[n] = Booked(g, t.price, t.quantity)
    BY <1>2, <1>6, <1>8, <2>1 DEF AfterTrade
  <2>3. Cash(f[n]) = Cash(g) - t.quantity * t.price
    BY <1>4, <1>7, <2>2
  <2>4. CashFlow(t, a) = 0 - t.price * t.quantity
    BY <1>8, <2>1 DEF CashFlow
  <2> HIDE DEF t, g
  <2> QED
    BY <1>4, <1>5, <2>3, <2>4 DEF f, g, t
<1>9. CASE t.buyer # a /\ t.seller = a
  <2>1. f[n] = Booked(g, t.price, -t.quantity)
    BY <1>2, <1>6, <1>9 DEF AfterTrade
  <2>2. Cash(f[n]) = Cash(g) - (-t.quantity) * t.price
    BY <1>4, <1>7, <2>1
  <2>3. CashFlow(t, a) = t.price * t.quantity - 0
    BY <1>9 DEF CashFlow
  <2> HIDE DEF t, g
  <2> QED
    BY <1>4, <1>5, <2>2, <2>3 DEF f, g, t
<1>10. CASE t.buyer # a /\ t.seller # a
  <2>1. f[n] = g
    BY <1>2, <1>6, <1>10 DEF AfterTrade
  <2>2. CashFlow(t, a) = 0
    BY <1>10 DEF CashFlow
  <2> HIDE DEF t, g
  <2> QED
    BY <1>5, <2>1, <2>2 DEF f, g, t
<1> QED
  BY <1>8, <1>9, <1>10

\* A whole event: by induction over its trades.
LEMMA EventIsCash ==
    ASSUME NEW h \in HoldingRow, NEW a, NEW d \in Seq(TradeRow),
           \A i \in DOMAIN d : ~(d[i].buyer = a /\ d[i].seller = a),
           ~Turns(CostBasis(h, a, d)), ~Rounds(CostBasis(h, a, d), d)
    PROVE  Cash(CostBasis(h, a, d)[Len(d)]) = Cash(h) + BalanceDelta(d, a, DOMAIN d)
<1> DEFINE f == CostBasis(h, a, d)
           m == Len(d)
           c == [i \in DOMAIN d |-> CashFlow(d[i], a)]
           Good == {n \in 0..m : Cash(f[n]) = Cash(h) + SumFunctionOnSet(c, 1..n)}
<1>1. m \in Nat /\ DOMAIN d = 1..m
  OBVIOUS
<1>2. f[0] = h /\ \A n \in 1..m : Cash(f[n]) = Cash(f[n - 1]) + c[n]
  BY <1>1, CostBasisRow, TradeIsCash
<1>3. Cash(h) \in Int /\ \A i \in 1..m : c[i] \in Int
  BY <1>1, CashIsInt, CashFlowInt
<1> HIDE DEF f, c
<1>4. 0 \in Good
  <2>1. 1..0 = {} /\ 0 \in 0..m
    BY <1>1
  <2>2. SumFunctionOnSet(c, 1..0) = 0
    BY <2>1, SumEmpty
  <2> QED
    BY <1>2, <1>3, <2>1, <2>2
<1>5. ASSUME NEW n \in 0..(m - 1), n \in Good
      PROVE  n + 1 \in Good
  <2> DEFINE S == 1..n
  <2>1. /\ n + 1 \in 1..m /\ n + 1 \in 0..m /\ (n + 1) - 1 = n
        /\ S \subseteq 1..m /\ n + 1 \notin S /\ 1..(n + 1) = S \cup {n + 1}
    BY <1>1
  <2>2. IsFiniteSet(S)
    BY <1>1, FS_Interval
  <2> HIDE DEF S
  <2>3. /\ \A i \in S : c[i] \in Int
        /\ c[n + 1] \in Int
    BY <1>3, <2>1
  <2>4. SumFunctionOnSet(c, S \cup {n + 1}) = c[n + 1] + SumFunctionOnSet(c, S) /\ SumFunctionOnSet(c, S) \in Int
    BY <2>1, <2>2, <2>3, SumAdd, SumInt
  <2>5. Cash(f[n + 1]) = Cash(f[n]) + c[n + 1]
    BY <1>2, <2>1
  <2>6. Cash(f[n]) = Cash(h) + SumFunctionOnSet(c, S)
    BY <1>5 DEF S
  <2>7. Cash(f[n + 1]) = Cash(h) + SumFunctionOnSet(c, S \cup {n + 1})
    BY <1>3, <2>3, <2>4, <2>5, <2>6
  <2> QED
    BY <2>1, <2>7
<1> HIDE DEF Good
<1>6. \A n \in 0..m : n \in Good
  BY <1>1, <1>4, <1>5, CountUp
<1>7. Cash(f[m]) = Cash(h) + SumFunctionOnSet(c, 1..m)
  BY <1>1, <1>6 DEF Good
<1> QED
  BY <1>1, <1>7 DEF f, c, BalanceDelta

-----------------------------------------------------------------------------
OfFutures(s) == {i \in DOMAIN s : s[i].taker = NoOrder}

\* What futures trades bring, from two lists of trades.
LEMMA FuturesCashJoins ==
    ASSUME NEW s \in Seq(TradeRow), NEW d \in Seq(TradeRow), NEW a
    PROVE  BalanceDelta(s \o d, a, OfFutures(s \o d))
               = BalanceDelta(s, a, OfFutures(s)) + BalanceDelta(d, a, OfFutures(d))
<1> DEFINE f == [i \in DOMAIN s |-> CashFlow(s[i], a)]
           g == [i \in DOMAIN d |-> CashFlow(d[i], a)]
           h == [i \in DOMAIN (s \o d) |-> CashFlow((s \o d)[i], a)]
           I == OfFutures(s)
           J == OfFutures(d)
           K == OfFutures(s \o d)
<1>1. I \subseteq DOMAIN s /\ J \subseteq DOMAIN d
  BY DEF OfFutures
<1>2. I \subseteq 1..Len(s) /\ J \subseteq Nat \ {0} /\ Len(s) \in Nat
  BY <1>1, Concat
<1>3. \A i \in I : f[i] \in Int /\ h[i] = f[i]
  BY <1>1, Concat, CashFlowInt
<1>4. \A j \in J : g[j] \in Int /\ h[Len(s) + j] = g[j]
  BY <1>1, Concat, CashFlowInt
<1>5. \A k : k \in K <=> k \in I \/ \E j \in J : k = Len(s) + j
  <2> SUFFICES ASSUME NEW k
               PROVE  k \in K <=> k \in I \/ \E j \in J : k = Len(s) + j
    OBVIOUS
  <2>1. /\ k \in DOMAIN (s \o d) <=> k \in DOMAIN s \/ \E j \in DOMAIN d : k = Len(s) + j
        /\ \A i \in DOMAIN s : (s \o d)[i] = s[i]
        /\ \A j \in DOMAIN d : (s \o d)[Len(s) + j] = d[j]
    BY Concat
  <2> QED
    BY <2>1 DEF OfFutures
<1>6. IsFiniteSet(J)
  BY <1>1, DeltaInt
<1> HIDE DEF f, g, h, I, J, K
<1>7. Joins(f, I, Len(s), g, J, h, K)
  BY <1>2, <1>3, <1>4, <1>5 DEF Joins
<1>8. SumFunctionOnSet(h, K) = SumFunctionOnSet(f, I) + SumFunctionOnSet(g, J)
  BY <1>2, <1>6, <1>7, JoinedSum
<1> QED
  BY <1>8 DEF f, g, h, I, J, K, BalanceDelta

EarnedInv ==
    \A a \in Accounts : a \notin turned \cup rounded /\ ~SelfTraded(a) =>
        Cash(holding[a]) = BalanceDelta(trades, a, OfFutures(trades))

\* A binary placement brings nothing to a futures position.
LEMMA PlaceKeepsEarned ==
    ASSUME RowInv, trades \in Seq(TradeRow), EarnedInv, NEW o \in Orders, NEW q \in Input, PlaceBinary(o, q),
           UNCHANGED <<holding, turned, rounded>>
    PROVE  EarnedInv'
<1> DEFINE d == Deals(o, q)
<1>1. d \in Seq(TradeRow) /\ trades' = trades \o d /\ \A j \in DOMAIN d : d[j].taker = o
  BY DealsJoin
<1> HIDE DEF d
<1>2. OfFutures(d) = {}
  BY <1>1, BinaryAssumption DEF OfFutures
<1>3. \A a : BalanceDelta(d, a, OfFutures(d)) = 0
  BY <1>2, SumEmpty DEF BalanceDelta
<1>4. \A a : BalanceDelta(trades, a, OfFutures(trades)) \in Int
  BY DeltaInt DEF OfFutures
<1>5. \A a : BalanceDelta(trades', a, OfFutures(trades')) = BalanceDelta(trades, a, OfFutures(trades))
  BY <1>1, <1>3, <1>4, FuturesCashJoins
<1>6. ASSUME NEW a, SelfTraded(a)
      PROVE  SelfTraded(a)'
  <2>1. \A i \in DOMAIN trades : i \in DOMAIN trades' /\ trades'[i] = trades[i]
    BY <1>1, Concat
  <2> QED
    BY <1>6, <2>1 DEF SelfTraded
<1> QED
  BY <1>5, <1>6 DEF EarnedInv

\* An event of the futures market keeps the cost basis equal to the cash.
LEMMA FuturesKeepEarned ==
    ASSUME RowInv, trades \in Seq(TradeRow), HoldingInv, EarnedInv, NEW event \in Seq(FuturesTrade), TradeFutures(event)
    PROVE  EarnedInv'
<1> DEFINE d == FuturesDeals(event)
<1>1. /\ trades' = trades \o d
      /\ holding' = [a \in Accounts |-> CostBasis(holding[a], a, d)[Len(d)]]
      /\ turned' = turned \cup {a \in Accounts : Turns(CostBasis(holding[a], a, d))}
      /\ rounded' = rounded \cup {a \in Accounts : Rounds(CostBasis(holding[a], a, d), d)}
  BY DEF TradeFutures, FuturesDeals
<1>2. d \in Seq(TradeRow)
  BY FuturesRows
<1>3. OfFutures(d) = DOMAIN d
  BY DEF OfFutures, FuturesDeals
<1> HIDE DEF d
<1>4. /\ \A i \in DOMAIN trades : i \in DOMAIN trades' /\ trades'[i] = trades[i]
      /\ \A j \in DOMAIN d : Len(trades) + j \in DOMAIN trades' /\ trades'[Len(trades) + j] = d[j]
  BY <1>1, <1>2, Concat
<1>5. ASSUME NEW a \in Accounts, a \notin turned' \cup rounded', ~SelfTraded(a)'
      PROVE  Cash(holding'[a]) = BalanceDelta(trades', a, OfFutures(trades'))
  <2>1. ~SelfTraded(a) /\ \A j \in DOMAIN d : ~(d[j].buyer = a /\ d[j].seller = a)
    BY <1>4, <1>5 DEF SelfTraded
  <2>2. ~Turns(CostBasis(holding[a], a, d)) /\ ~Rounds(CostBasis(holding[a], a, d), d)
    BY <1>1, <1>5
  <2>3. Cash(holding[a]) = BalanceDelta(trades, a, OfFutures(trades))
    BY <1>1, <1>5, <2>1 DEF EarnedInv
  <2>4. Cash(holding'[a]) = Cash(holding[a]) + BalanceDelta(d, a, DOMAIN d)
    BY <1>1, <1>2, <2>1, <2>2, EventIsCash DEF HoldingInv
  <2> QED
    BY <1>1, <1>2, <1>3, <2>3, <2>4, FuturesCashJoins
<1> QED
  BY <1>5 DEF EarnedInv

\* The invariant of the cost basis holds throughout.
LEMMA EarnedAlways == Spec => []EarnedInv
<1>1. Init => EarnedInv
  <2> SUFFICES ASSUME Init
               PROVE  EarnedInv
    OBVIOUS
  <2>1. trades = <<>> /\ holding = [a \in Accounts |-> Flat]
    BY DEF Init, MarketInit
  <2>2. OfFutures(trades) = {}
    BY <2>1 DEF OfFutures
  <2>3. \A a : BalanceDelta(trades, a, OfFutures(trades)) = 0
    BY <2>2, SumEmpty DEF BalanceDelta
  <2>4. Cash(Flat) = 0
    BY DEF Cash, Flat
  <2> QED
    BY <2>1, <2>3, <2>4 DEF EarnedInv
<1>2. RowsInv /\ AccountInv /\ HoldingInv /\ EarnedInv /\ [Next]_vars => EarnedInv'
  <2> SUFFICES ASSUME RowsInv, AccountInv, HoldingInv, EarnedInv, [Next]_vars
               PROVE  EarnedInv'
    OBVIOUS
  <2>1. RowInv /\ trades \in Seq(TradeRow)
    BY DEF RowsInv, TradeInv
  <2>2. ASSUME NEW o \in Orders, Place(o)
        PROVE  EarnedInv'
    <3>1. PICK q \in workload.inputs[o] : PlaceBinary(o, q) /\ UNCHANGED <<holding, turned, rounded>>
      BY <2>2 DEF Place
    <3>2. q \in Input
      BY RequestIsInput
    <3> QED
      BY <2>1, <3>1, <3>2, PlaceKeepsEarned
  <2>3. ASSUME NEW event \in workload.events, TradeFutures(event)
        PROVE  EarnedInv'
    BY <2>1, <2>3, EventIsTrades, FuturesKeepEarned
  <2>4. CASE UNCHANGED <<trades, holding, turned, rounded>>
    BY <2>4 DEF EarnedInv, SelfTraded, OfFutures
  <2> QED
    BY <2>2, <2>3, <2>4
       DEF Next, vars, marketVars, Cancel, CancelBinary, DeleteRead, DeleteWrite, Tick, CreateAgent, ListPage
<1> QED
  BY <1>1, <1>2, RowsAlways, HoldingsAlways, PTL DEF Spec

\* The cost basis is the cash: whatever the trades and in whatever order, what an account
\* has realized is what its futures trades brought with what it still holds at its average,
\* unless a trade turned its position, an average was rounded, or it traded with itself.
THEOREM RealizedFromCash == Spec => []RealizedIsCash
<1>1. RowsInv /\ HoldingInv /\ EarnedInv => RealizedIsCash
  <2> SUFFICES ASSUME RowsInv, HoldingInv, EarnedInv,
                      NEW a \in Accounts, a \notin turned \cup rounded, ~SelfTraded(a)
               PROVE  holding[a].realized = BalanceDelta(trades, a, {i \in DOMAIN trades : trades[i].taker = NoOrder})
                                                + holding[a].quantity * holding[a].average
    BY DEF RealizedIsCash
  <2> DEFINE c == BalanceDelta(trades, a, {i \in DOMAIN trades : trades[i].taker = NoOrder})
  <2>1. Cash(holding[a]) = c
    BY DEF EarnedInv, OfFutures
  <2>2. c \in Int
    BY DeltaInt DEF RowsInv, TradeInv
  <2>3. holding[a].realized \in Int /\ holding[a].quantity * holding[a].average \in Int
    BY DEF HoldingInv, HoldingRow
  <2> HIDE DEF c
  <2>4. holding[a].realized = c + holding[a].quantity * holding[a].average
    BY <2>1, <2>2, <2>3 DEF Cash
  <2> QED
    BY <2>4 DEF c
<1> QED
  BY <1>1, RowsAlways, HoldingsAlways, EarnedAlways, PTL
=============================================================================
