---------------------------- MODULE MCAISignals ----------------------------
(***************************************************************************)
(* Small instances of AISignals.                                           *)
(***************************************************************************)
EXTENDS AISignals

MCCosts == {1}
MCOneRequest == {"req1"}
MCTwoRequests == {"req1", "req2"}
=============================================================================
