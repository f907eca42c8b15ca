---------------------------- MODULE MCSettlement ----------------------------
(***************************************************************************)
(* Settlement on small instances.                                          *)
(***************************************************************************)
EXTENDS Settlement, TLC

CONSTANTS open1, lock1, resolve1, ingest1, a1, a2, p1, p2

\* An operator who opens, locks and resolves once, with or without an ingestion.
Operator == {open1, lock1, resolve1}
OperatorAndFile == Operator \cup {ingest1}
OperatorKind == open1 :> "open" @@ lock1 :> "lock" @@ resolve1 :> "resolve"
OperatorAndFileKind == OperatorKind @@ ingest1 :> "ingest"

Trade(b, s, q) == [buyer |-> b, seller |-> s, price |-> 1, quantity |-> q]

\* A deal between two accounts and one of an account with itself.
Deals == p1 :> Trade(a2, a1, 2) @@ p2 :> Trade(a1, a1, 1)
OneDeal == p1 :> Trade(a1, a2, 1)

Balances == a1 :> 10 @@ a2 :> 10
=============================================================================
