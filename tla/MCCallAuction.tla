---------------------------- MODULE MCCallAuction ----------------------------
(***************************************************************************)
(* CallAuction on small instances.                                         *)
(***************************************************************************)
EXTENDS CallAuction, TLC

CONSTANTS w1, w2, c1, c2, c3, r1, r2, r3, b1, b2, m1, m2, s1, s2

\* Two connections in the pool of the first worker, one in the second's.
Pool == c1 :> w1 @@ c2 :> w1 @@ c3 :> w2

\* The cron of both workers at the first hour, and of the first at the second.
Firing == r1 :> w1 @@ r2 :> w2 @@ r3 :> w1
FiringHour == r1 :> 1 @@ r2 :> 1 @@ r3 :> 2

Item(m, v) == [market |-> m, fairValue |-> v]

\* One agent values both markets, another the first.
Items == s1 :> <<Item(m1, 3), Item(m2, 5)>> @@ s2 :> <<Item(m1, 4)>>
Callers == s1 :> b1 @@ s2 :> b2
=============================================================================
