-------------------------- MODULE MCMarketLifecycle --------------------------
(***************************************************************************)
(* MarketLifecycle on small instances.                                     *)
(***************************************************************************)
EXTENDS MarketLifecycle, TLC

CONSTANTS open1, lock1, lock2, resolve1, resolve2, ingest1

KindOf ==
    open1 :> "open" @@ lock1 :> "lock" @@ lock2 :> "lock"
    @@ resolve1 :> "resolve" @@ resolve2 :> "resolve" @@ ingest1 :> "ingest"

\* The calls of an instance and what each one is.
OnceOpened == {open1, lock1, lock2, resolve1, resolve2, ingest1}
OnceOpenedKind == [c \in OnceOpened |-> KindOf[c]]
=============================================================================
