---------------------------- MODULE DrawdownHalt ----------------------------
(***************************************************************************)
(* Equity snapshots over days, the retention that deletes them, and the    *)
(* drawdown half of the kill switch, which compares the newest with the    *)
(* greatest of those that are left.                                        *)
(*                                                                         *)
(* Net PnL moves by market and fills, in steps nothing here looks into;    *)
(* what it is made of is in Accounting.                                    *)
(***************************************************************************)
EXTENDS Integers, Sequences, FiniteSets

CONSTANTS
  NetRange,     \* the values net PnL takes
  Allocations,  \* the total budgets the operator sets
  MaxDrawdown,  \* drawdown limit in percent
  KeepDays,     \* days of equity snapshots kept, 0 keeps them all
  SnapBound,    \* bound: snapshots stored at a time
  DateBound     \* bound: days

ASSUME DrawdownAssumption ==
  /\ NetRange \subseteq Int /\ NetRange # {}
  /\ Allocations \subseteq Nat /\ Allocations # {}
  /\ MaxDrawdown \in 1..100 /\ KeepDays \in Nat
  /\ SnapBound \in Nat /\ DateBound \in Nat

VARIABLES
  netPnl,     \* net PnL at the present marks
  allocated,  \* the sum of the allocations
  snaps,      \* the EquitySnapshot table, oldest first: [date, equity, net]
  date,       \* the date
  exposed     \* lots held, 0 or 1

haltVars == <<netPnl, allocated, snaps, date, exposed>>

HaltInit ==
  /\ netPnl \in NetRange /\ allocated \in Allocations
  /\ snaps = <<>> /\ date = 0 /\ exposed = 0

Newest == snaps[Len(snaps)]
Equities(t) == {t[i].equity : i \in 1..Len(t)}
Greatest(S) == CHOOSE e \in S : \A f \in S : f <= e

PeakOfLastTwo(t) ==
  Greatest(Equities(SubSeq(t, IF Len(t) > 1 THEN Len(t) - 1 ELSE 1, Len(t))))

\* "Historical peak": the greatest equity among the rows there are.
PeakOf(t) == Greatest(Equities(t))

\* equity_drawdown_pct reaches the limit.
DrawdownTripped ==
  /\ snaps # <<>> /\ PeakOf(snaps) > 0
  /\ (PeakOf(snaps) - Newest.equity) * 100 >= MaxDrawdown * PeakOf(snaps)

\* Market and fills.
NetMoves ==
  /\ netPnl' \in NetRange \ {netPnl}
  /\ UNCHANGED <<allocated, snaps, date, exposed>>

\* update_allocation.
Reallocate ==
  /\ allocated' \in Allocations \ {allocated}
  /\ UNCHANGED <<netPnl, snaps, date, exposed>>

\* record_equity_snapshot at the end of a tick.
RecordSnapshot ==
  /\ Len(snaps) < SnapBound
  /\ snaps' = Append(snaps, [date |-> date, equity |-> allocated + netPnl, net |-> netPnl])
  /\ UNCHANGED <<netPnl, allocated, date, exposed>>

\* prune_equity_snapshots, once a day: the rows before the k-th are older than it keeps.
PruneSnapshots ==
  /\ KeepDays > 0
  /\ \E k \in 2..Len(snaps) + 1 :
       /\ \A i \in 1..Len(snaps) : snaps[i].date < date - KeepDays <=> i < k
       /\ snaps' = SubSeq(snaps, k, Len(snaps))
  /\ UNCHANGED <<netPnl, allocated, date, exposed>>

NewDate ==
  /\ date < DateBound
  /\ date' = date + 1
  /\ UNCHANGED <<netPnl, allocated, snaps, exposed>>

\* review lets an order open exposure only while the switch is not tripped; closing
\* is always allowed.
Expose ==
  /\ exposed = 0 /\ ~DrawdownTripped
  /\ exposed' = 1
  /\ UNCHANGED <<netPnl, allocated, snaps, date>>

WindDown ==
  /\ exposed = 1
  /\ exposed' = 0
  /\ UNCHANGED <<netPnl, allocated, snaps, date>>

HaltNext ==
  \/ NetMoves \/ Reallocate
  \/ RecordSnapshot \/ PruneSnapshots \/ NewDate
  \/ Expose \/ WindDown

HaltSpec == HaltInit /\ [][HaltNext]_haltVars

----------------------------------------------------------------------------
\* Every variable stays in its domain, and the table is in the order of its dates.
HaltTypeOK ==
  /\ netPnl \in NetRange /\ allocated \in Allocations
  /\ date \in 0..DateBound /\ exposed \in 0..1
  /\ Len(snaps) <= SnapBound
  /\ \A i \in 1..Len(snaps) :
       /\ snaps[i].date \in 0..date /\ snaps[i].net \in NetRange
       /\ snaps[i].equity - snaps[i].net \in Allocations
       /\ i > 1 => snaps[i - 1].date <= snaps[i].date

\* "Drawdown of the latest equity from its historical peak" (risk.py): a drawdown
\* halt is lifted by a better snapshot, or by retention once the peak is older than
\* it keeps, and by nothing else: no losing day, fill or date lifts it.
HaltOutlivesLosses ==
  [][DrawdownTripped /\ ~DrawdownTripped' =>
       \/ Len(snaps') > Len(snaps) /\ Newest'.equity > Newest.equity
       \/ \A i \in 1..Len(snaps) :
            snaps[i].equity = PeakOf(snaps) => snaps[i].date < date - KeepDays]_haltVars
=============================================================================
