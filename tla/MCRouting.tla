----------------------------- MODULE MCRouting -----------------------------
(***************************************************************************)
(* Small instances of Routing.  "binance" has a sandbox and takes orders,  *)
(* "binance-alpha" is a read-only venue without a sandbox or credentials.  *)
(***************************************************************************)
EXTENDS Routing

MCVenues == {"binance", "binance-alpha"}
MCSandboxed == {"binance"}
MCPlacing == {"binance"}
MCFields == [v \in Venues |-> IF v = "binance" THEN {"key", "secret"} ELSE {}]
MCNoKeys == [v \in Venues |-> {}]
MCOneRow == {"btc"}
MCOneRequest == {"req1"}
MCOneAdmin == {"adm1"}
=============================================================================
