-------------------------- MODULE MCOrderPlacement --------------------------
(***************************************************************************)
(* OrderPlacement on small instances.                                      *)
(***************************************************************************)
EXTENDS OrderPlacement, TLC

CONSTANTS m1, m2, a1, a2, a3, o1, o2, o3, o4

Req(a, m, s, p, q) ==
    [account |-> a, market |-> m, side |-> s,
     type |-> IF p = 0 THEN "MARKET" ELSE "LIMIT", price |-> p, quantity |-> q]

\* Two sellers at equal or different prices, or a buyer with an order of its own on
\* the other side; then calls that sweep both, rest, or trade in another market,
\* which shares account a1 (a2 and a3 may trade in one market each).
MixedRequests ==
    o1 :> {Req(a1, m1, "SELL", 2, 2), Req(a2, m1, "SELL", 1, 1)}
    @@ o2 :> {Req(a2, m1, "SELL", 2, 1), Req(a1, m1, "BUY", 2, 2)}
    @@ o3 :> {Req(a3, m1, "BUY", 0, 2), Req(a1, m2, "BUY", 1, 1)}
    @@ o4 :> {Req(a2, m1, "BUY_NO", 1, 2), Req(a3, m2, "SELL", 1, 1)}

\* Three placements contending for one advisory lock, with trades between them, or two
\* sellers of different prices before a buyer that needs only the better one.
ContendingRequests ==
    o1 :> {Req(a1, m1, "SELL", 1, 2)}
    @@ o2 :> {Req(a2, m1, "BUY", 1, 1), Req(a2, m1, "SELL", 2, 1)}
    @@ o3 :> {Req(a3, m1, "BUY", 0, 2), Req(a2, m1, "SELL", 2, 1)}

MarketBalances == (a1 :> 4) @@ (a2 :> 4) @@ (a3 :> 6)
=============================================================================
