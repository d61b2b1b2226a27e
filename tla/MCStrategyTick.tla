--------------------------- MODULE MCStrategyTick ---------------------------
(***************************************************************************)
(* Small instances of StrategyTick.                                        *)
(***************************************************************************)
EXTENDS StrategyTick

MCTwoPrices == {2, 3}
MCThreePrices == {2, 3, 4}
MCBudgets == {0, 6, 9}
MCOneBudget == {6}
=============================================================================
