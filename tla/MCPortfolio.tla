----------------------------- MODULE MCPortfolio -----------------------------
(***************************************************************************)
(* Portfolio on small instances.                                           *)
(***************************************************************************)
EXTENDS Portfolio, TLC

CONSTANTS a1, a2, a3, o1, o2, o3, o4, g1, g2, g3, g4

In(a, s, p, q) == [account |-> a, side |-> s, price |-> p, quantity |-> q]
Trade(b, s, p, q) == [buyer |-> b, seller |-> s, price |-> p, quantity |-> q]
Setting(i1, i2, i3, i4, events, admin) ==
    [inputs |-> o1 :> i1 @@ o2 :> i2 @@ o3 :> i3 @@ o4 :> i4, events |-> events, admin |-> admin]

AgentsAtFirst == <<g1, g2>>

\* Books of both outcomes with equal and different prices and market orders, met by
\* larger orders; futures positions that are added to, reduced, closed and turned,
\* also by their own orders; accounts deleted while they place orders; lists read
\* while agents are created.
Loads == {
    Setting({In(a1, "YES", 2, 1), In(a1, "NO", 1, 1)}, {In(a2, "YES", 3, 1), In(a2, "NO", 2, 2)},
            {In(a1, "YES", 2, 2), In(a1, "NO", 0, 1)}, {In(a3, "NO", 2, 3), In(a3, "YES", 3, 3)},
            {}, {}),
    Setting({}, {}, {}, {},
            {<<Trade(a1, a2, 360, 1)>>, <<Trade(a2, a1, 720, 1)>>,
             <<Trade(a1, a2, 720, 1), Trade(a1, a3, 1080, 2)>>, <<Trade(a3, a3, 360, 1)>>,
             <<Trade(a2, a1, 721, 1)>>}, {}),
    Setting({In(a1, "YES", 3, 1)}, {In(a2, "NO", 2, 2)}, {In(a1, "NO", 0, 1)}, {},
            {<<Trade(a2, a3, 360, 1)>>}, {"delete"}),
    Setting({}, {}, {}, {}, {}, {"list", "create"}) }
=============================================================================
