---------------------------- MODULE MCSubLedger ----------------------------
(***************************************************************************)
(* Small instances of SubLedger.  "dca" is the row of a built-in strategy, *)
(* "ai" that of an AI strategy and "manual" that of the manual orders.     *)
(***************************************************************************)
EXTENDS SubLedger

MCRows == {"dca", "ai", "manual"}
MCAIRow == {"ai"}
MCManual == {"manual"}
MCNone == {}
MCOneRequest == {"req1"}

\* The operator places manual orders, and closes the AI strategy's position or
\* confirms its signals, while the scheduler trades it and another strategy.
HandlesMixed ==
  [a \in {"tick", "req1"} |-> IF a = "tick" THEN {"dca", "ai"} ELSE {"ai", "manual"}]

\* The operator and the scheduler on one row.
HandlesShared == [a \in {"tick", "req1"} |-> {"ai"}]
=============================================================================
