------------------------------- MODULE Ledger -------------------------------
(***************************************************************************)
(* What portfolio.py promises of the sub-ledger: "every executed fill is   *)
(* attributed to the strategy that triggered it and folded into that       *)
(* strategy's position".  No sessions, no stale rows, no columns: a fill   *)
(* is executed once, booked into its position at most once and in one      *)
(* step, and journalled only after that.  A fault may drop fills that are  *)
(* not journalled; it never books one, undoes one or brings one back.      *)
(*                                                                         *)
(* SubLedger implements it for the rows with one writer.                   *)
(***************************************************************************)
EXTENDS Integers

CONSTANTS
  AllKeys,   \* the positions fills may be for
  Keys       \* those whose content is promised

VARIABLES
  holding,   \* holding[k]: the signed size of position k, for k in Keys
  issued,    \* how many fills there have been, which numbers them
  pending,   \* fills executed and not booked: [id, key, lots]
  awaiting,  \* numbers of the fills booked and not journalled
  journal    \* numbers of the fills in the Trade table

ledgerVars == <<holding, issued, pending, awaiting, journal>>

LedgerInit ==
  /\ holding = [k \in Keys |-> 0]
  /\ issued = 0
  /\ pending = {} /\ awaiting = {} /\ journal = {}

\* An executor fills an order: a new fill, for one position.
Execute ==
  /\ issued' = issued + 1
  /\ \E f \in pending' :
       /\ f.id = issued' /\ f.key \in AllKeys
       /\ pending' = pending \cup {f}
  /\ UNCHANGED <<holding, awaiting, journal>>

\* A fill nobody was told of.
ExecuteUnheard ==
  /\ issued' = issued + 1
  /\ UNCHANGED <<holding, pending, awaiting, journal>>

\* The fill enters its position, whole and once.
Book(f) ==
  /\ f \in pending
  /\ holding' = [k \in Keys |-> IF k = f.key THEN holding[k] + f.lots ELSE holding[k]]
  /\ pending' = pending \ {f}
  /\ awaiting' = awaiting \cup {f.id}
  /\ UNCHANGED <<issued, journal>>

\* The booked fill enters the Trade table.
Journal(i) ==
  /\ i \in awaiting
  /\ awaiting' = awaiting \ {i}
  /\ journal' = journal \cup {i}
  /\ UNCHANGED <<holding, issued, pending>>

\* A crash or a failed transaction forgets fills; positions and trades stay.
Forget ==
  /\ pending' \subseteq pending /\ awaiting' \subseteq awaiting
  /\ UNCHANGED <<holding, issued, journal>>

LedgerNext ==
  \/ Execute \/ ExecuteUnheard
  \/ \E f \in pending : Book(f)
  \/ \E i \in awaiting : Journal(i)
  \/ Forget

LedgerSpec == LedgerInit /\ [][LedgerNext]_ledgerVars
=============================================================================
