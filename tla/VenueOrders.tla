----------------------------- MODULE VenueOrders -----------------------------
(***************************************************************************)
(* One order of the venue executor, from the intent to the books, over the *)
(* three kinds of account the factory can build an order client for.       *)
(*                                                                         *)
(*   "final"    Binance spot: the answer lists the fills of a market order  *)
(*              that is over.                                              *)
(*   "running"  Binance futures: the answer is an aggregate of the order as *)
(*              it stands.                                                 *)
(*   "readback" Alpaca: the order is accepted, then read once.             *)
(*   "readonly" no order client: Binance without keys, Polymarket, Alpha.  *)
(*                                                                         *)
(* Quantities are counted in steps of DEFAULT_FILTERS, orders only buy (a  *)
(* sale is the mirror image), and the engine orders what its books lack.   *)
(* A client order id is new for every call, so no venue recognises one.    *)
(***************************************************************************)
EXTENDS Integers

CONSTANTS
  Accounts,    \* the accounts orders go to
  Kind,        \* Kind[a]: how account a answers
  LotStep,     \* LotStep[a]: the size increment its venue demands
  Target,      \* what the engine wants to hold in each account
  MaxSends     \* bound: orders sent to one account

\* What build_venue makes of a venue's name and its credentials.
AccountKinds == {"final", "running", "readback", "readonly"}

ASSUME AccountsAssumption ==
  /\ Kind \in [Accounts -> AccountKinds]
  /\ LotStep \in [Accounts -> Nat \ {0}]
ASSUME TargetAssumption == Target \in Nat \ {0} /\ MaxSends \in Nat

VARIABLES
  filters,    \* filters[a]: the executor's cache, "none", "read" or "default"
  orderAt,    \* orderAt[a]: where the one order in progress is
  size,       \* size[a]: the quantity sent
  done,       \* done[a]: how much of it the venue has filled
  abandoned,  \* abandoned[a]: what older orders may still fill
  venueHas,   \* venueHas[a]: everything the venue filled
  booked,     \* booked[a]: everything record_fill was given
  heard,      \* heard[a]: every order so far was answered when it was over: history
  sends       \* sends[a]: orders sent so far

order == <<orderAt, size, done>>
venueVars == <<filters, order, abandoned, venueHas, booked, heard, sends>>

VenueInit ==
  /\ filters = [a \in Accounts |-> "none"]
  /\ orderAt = [a \in Accounts |-> "idle"]
  /\ size = [a \in Accounts |-> 0] /\ done = [a \in Accounts |-> 0]
  /\ abandoned = [a \in Accounts |-> 0]
  /\ venueHas = [a \in Accounts |-> 0] /\ booked = [a \in Accounts |-> 0]
  /\ heard = [a \in Accounts |-> TRUE] /\ sends = [a \in Accounts |-> 0]

----------------------------------------------------------------------------
\* VenueExecutor.

\* filters_for: what the venue says the first time it is asked, through at most
\* three rate-limited attempts, or the defaults when it refuses to say; kept.
ReadFilters(a, answer) ==
  /\ orderAt[a] = "idle" /\ filters[a] = "none"
  /\ filters' = [filters EXCEPT ![a] = answer]
  /\ UNCHANGED <<order, abandoned, venueHas, booked, heard, sends>>

Step(a) == IF filters[a] = "read" THEN LotStep[a] ELSE 1

RoundedUp(a, q) == ((q + Step(a) - 1) \div Step(a)) * Step(a)

\* round_quantity: down to the step.
Rounded(a, q) == (q \div Step(a)) * Step(a)

\* place_order of an account without an order client raises before it sends.
ReadOnly(a) == Kind[a] = "readonly"

\* A quantity that does not round to zero is sent, with an id of its own.
SendOrder(a) ==
  /\ orderAt[a] = "idle" /\ filters[a] # "none" /\ sends[a] < MaxSends
  /\ ~ReadOnly(a)
  /\ Rounded(a, Target - booked[a]) > 0
  /\ orderAt' = [orderAt EXCEPT ![a] = "sent"]
  /\ size' = [size EXCEPT ![a] = Rounded(a, Target - booked[a])]
  /\ sends' = [sends EXCEPT ![a] = @ + 1]
  /\ UNCHANGED <<filters, done, abandoned, venueHas, booked, heard>>

\* The call is over, whatever the venue goes on filling of it.
EndOrder(a) ==
  /\ orderAt' = [orderAt EXCEPT ![a] = "idle"]
  /\ size' = [size EXCEPT ![a] = 0] /\ done' = [done EXCEPT ![a] = 0]
  /\ abandoned' = [abandoned EXCEPT ![a] =
                     @ + IF orderAt[a] = "working" THEN size[a] - done[a] ELSE 0]

\* The venue turns the order down: a size off its step, too little money, no key.
OrderRefused(a) ==
  /\ orderAt[a] = "sent"
  /\ EndOrder(a)
  /\ UNCHANGED <<filters, venueHas, booked, heard, sends>>

----------------------------------------------------------------------------
\* The venue.

OrderAccepted(a) ==
  /\ orderAt[a] = "sent" /\ size[a] % LotStep[a] = 0
  /\ orderAt' = [orderAt EXCEPT ![a] = "working"]
  /\ UNCHANGED <<filters, size, done, abandoned, venueHas, booked, heard, sends>>

FillMore(a) ==
  /\ orderAt[a] = "working" /\ done[a] < size[a]
  /\ done' = [done EXCEPT ![a] = @ + 1]
  /\ venueHas' = [venueHas EXCEPT ![a] = @ + 1]
  /\ UNCHANGED <<filters, orderAt, size, abandoned, booked, heard, sends>>

\* An order nobody waits for any more goes on.
FillAbandoned(a) ==
  /\ abandoned[a] > 0
  /\ abandoned' = [abandoned EXCEPT ![a] = @ - 1]
  /\ venueHas' = [venueHas EXCEPT ![a] = @ + 1]
  /\ UNCHANGED <<filters, order, booked, heard, sends>>

\* The order is over with less than it asked for: an illiquid book, a cancel.
OrderExpires(a) ==
  /\ orderAt[a] = "working" /\ done[a] < size[a]
  /\ size' = [size EXCEPT ![a] = done[a]]
  /\ UNCHANGED <<filters, orderAt, done, abandoned, venueHas, booked, heard, sends>>

----------------------------------------------------------------------------
\* The answer.

\* _parse_fill and Alpaca's read back: what was filled by the time of the answer.
QuantityFilled(a) == done[a]

\* Binance spot answers when the order is over.
Answered(a) ==
  /\ orderAt[a] = "working"
  /\ Kind[a] = "final" => done[a] = size[a]

\* record_fill with the quantity the venue reports.
RecordFill(a) ==
  /\ Answered(a) /\ QuantityFilled(a) > 0
  /\ booked' = [booked EXCEPT ![a] = @ + QuantityFilled(a)]
  /\ heard' = [heard EXCEPT ![a] = @ /\ done[a] = size[a]]
  /\ EndOrder(a)
  /\ UNCHANGED <<filters, venueHas, sends>>

\* "returned no fill", "has not filled": an ExecutionError, and nothing recorded.
NoFill(a) ==
  /\ Answered(a) /\ QuantityFilled(a) = 0
  /\ heard' = [heard EXCEPT ![a] = @ /\ done[a] = size[a]]
  /\ EndOrder(a)
  /\ UNCHANGED <<filters, venueHas, booked, sends>>

LostAnswerIsRetried(a) ==
  /\ orderAt[a] = "working"
  /\ orderAt' = [orderAt EXCEPT ![a] = "sent"]
  /\ done' = [done EXCEPT ![a] = 0]
  /\ UNCHANGED <<filters, size, abandoned, venueHas, booked, heard, sends>>

\* A timeout, an unknown outcome or a failed read back raises; the order, which
\* the venue has accepted, is not sent again by this call.
AnswerLost(a) ==
  /\ orderAt[a] = "working"
  /\ heard' = [heard EXCEPT ![a] = FALSE]
  /\ EndOrder(a)
  /\ UNCHANGED <<filters, venueHas, booked, sends>>

OrderStep(a) ==
  \/ \E answer \in {"read", "default"} : ReadFilters(a, answer)
  \/ SendOrder(a) \/ OrderRefused(a) \/ OrderAccepted(a)
  \/ FillMore(a) \/ FillAbandoned(a) \/ OrderExpires(a)
  \/ RecordFill(a) \/ NoFill(a) \/ AnswerLost(a)

VenueNext == \E a \in Accounts : OrderStep(a)

VenueSpec == VenueInit /\ [][VenueNext]_venueVars

----------------------------------------------------------------------------
\* Every variable stays in its domain; a size sent is one the filters allow.
VenueTypeOK ==
  /\ filters \in [Accounts -> {"none", "read", "default"}]
  /\ orderAt \in [Accounts -> {"idle", "sent", "working"}]
  /\ heard \in [Accounts -> BOOLEAN] /\ sends \in [Accounts -> 0..MaxSends]
  /\ size \in [Accounts -> 0..Target] /\ booked \in [Accounts -> 0..Target]
  /\ \A a \in Accounts :
       /\ done[a] \in 0..size[a] /\ abandoned[a] \in Nat /\ venueHas[a] \in Nat
       /\ orderAt[a] = "sent" => size[a] > 0 /\ size[a] % Step(a) = 0

\* The books never hold what the venue has not filled, over refusals, partial
\* fills, expiries and lost answers; and they hold all of it, as long as every
\* answer came when its order was over.
BooksTrailVenue ==
  \A a \in Accounts :
    /\ booked[a] + done[a] <= venueHas[a]
    /\ heard[a] => booked[a] + done[a] = venueHas[a] /\ abandoned[a] = 0
=============================================================================
