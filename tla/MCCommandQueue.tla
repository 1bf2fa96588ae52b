----------------------------- MODULE MCCommandQueue -----------------------------
(***************************************************************************)
(* Instances of CommandQueue.  "exit" is a strategy's close (no expiry),   *)
(* "order" an entry, which expires and can rest at the broker.  Callers:   *)
(* "cron" is the every-minute pass, which sends closes by ProtectionQueue  *)
(* and entries by enqueue(); "page" is a dashboard page, which calls       *)
(* enqueue() for either.                                                   *)
(***************************************************************************)
EXTENDS CommandQueue, TLC

CONSTANTS e1, e2

AccountOfKey == [k \in Keys |-> "demo"]
BoundToDemo == [e \in Executors |-> "demo"]

\* Neither is bound: one terminal is as good as the other.
Unbound == [e \in Executors |-> NoAccount]
Same    == Permutations({e1, e2})

OrderExpires == [k \in Keys |-> IF k = "order" THEN 1 ELSE 0]
OrderLasts   == [k \in Keys |-> IF k = "order" THEN 2 ELSE 0]

PassSendsCloses == {<<"cron", "exit">>}
=============================================================================
