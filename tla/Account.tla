------------------------------- MODULE Account -------------------------------
(***************************************************************************)
(* What the open-position guards of the Settings and Venues endpoints      *)
(* promise: "blocked while positions are open - paper and real state must  *)
(* not mix".  No requests, no routers, no credentials: one account is      *)
(* selected, every fill is one of it, and another one is selected only     *)
(* while nothing is open.                                                  *)
(*                                                                         *)
(* Routing implements it until something the guards cannot see has         *)
(* happened; from then on nothing is promised.                             *)
(***************************************************************************)
CONSTANTS
  Accounts,  \* the accounts fills happen in
  Rows       \* the positions

VARIABLES
  selected,  \* the account in force
  books,     \* books[r]: accounts whose fills the open leg of r is made of
  voided     \* the promise has lapsed

accountVars == <<selected, books, voided>>

AccountInit ==
  /\ selected \in Accounts
  /\ books = [r \in Rows |-> {}]
  /\ voided = FALSE

\* A fill closes the position, or opens it or adds to it.
FillHere(r) ==
  /\ \/ books' = [books EXCEPT ![r] = {}]
     \/ books' = [books EXCEPT ![r] = @ \cup {selected}]
  /\ UNCHANGED <<selected, voided>>

Select ==
  /\ \A r \in Rows : books[r] = {}
  /\ selected' \in Accounts
  /\ UNCHANGED <<books, voided>>

Void ==
  /\ selected' \in Accounts /\ books' \in [Rows -> SUBSET Accounts]
  /\ voided' = TRUE

AccountNext == (\E r \in Rows : FillHere(r)) \/ Select \/ Void

AccountSpec == AccountInit /\ [][AccountNext]_accountVars
=============================================================================
