------------------------------ MODULE Routing ------------------------------
(***************************************************************************)
(* Which account an order goes to, while the operator changes settings.    *)
(*                                                                         *)
(* The trading mode, the active venue and the venues' credentials are rows *)
(* of the settings table.  Every turn of the engine and every trading      *)
(* request reads them through an ExecutorRouter: the engine's own one      *)
(* keeps executors it has built, the manual-order and signal endpoints     *)
(* make a fresh one per request.  The Settings and Venues endpoints check  *)
(* that no position is open, and commit the new value afterwards, in       *)
(* another transaction.                                                    *)
(*                                                                         *)
(* An account is where fills happen: Paper is the simulator, <<v, m>> the  *)
(* account of venue v in mode m.  A Position row is reduced to the set of  *)
(* accounts whose fills its open leg is made of.                           *)
(***************************************************************************)
CONSTANTS
  Venues,     \* the venue catalogue
  Sandboxed,  \* venues with a sandbox
  Placing,    \* venues that place orders; the others are read-only
  Fields,     \* Fields[v]: the credential fields venue v declares
  StoredKeys, \* StoredKeys[v]: the fields stored at first
  Rows,       \* Position rows
  Tick,       \* the scheduler thread
  Requests,   \* request threads that trade
  Admins      \* request threads that change settings

RealModes == {"testnet", "live"}
Modes == {"sim"} \cup RealModes
Paper == <<"none", "sim">>
Accounts == {Paper} \cup (Venues \X RealModes)
Traders == {Tick} \cup Requests
AllFields == UNION {Fields[v] : v \in Venues}

ASSUME CatalogueAssumption ==
  /\ Venues # {} /\ "none" \notin Venues
  /\ Sandboxed \subseteq Venues /\ Placing \subseteq Venues
ASSUME KeysAssumption ==
  /\ StoredKeys \in [Venues -> SUBSET AllFields]
  /\ \A v \in Venues : StoredKeys[v] \subseteq Fields[v]
ASSUME ThreadsAssumption == Tick \notin Requests

VARIABLES
  mode,    \* the stored trading mode
  venue,   \* the stored active venue
  keys,    \* keys[v]: the credential fields stored
  cache,   \* accounts the engine's router has an executor for
  book,    \* book[r]: accounts whose fills the open leg of row r is made of
  pc,      \* pc[t]: where trader t is
  acct,    \* acct[t]: the account its executor trades in
  read,    \* read[t]: the mode it has read
  asked,   \* asked[a]: the change settings request a is about to commit
  modes,   \* modes[t]: modes in force since t began: history
  venues,  \* venues[t]: venues active since t began: history
  lapses   \* what the guards cannot see and has happened: "overlap", a settings
           \* request beside another one or beside a trader; "fallback", the
           \* simulator standing in for a venue: history

settings == <<mode, venue, keys>>
trading  == <<pc, acct, read>>
history  == <<modes, venues>>
vars     == <<settings, cache, book, trading, asked, history, lapses>>

Nothing == [kind |-> "none", value |-> "none", left |-> {}]

Init ==
  /\ mode = "sim" /\ venue \in Venues
  /\ keys = StoredKeys
  /\ cache = {}
  /\ book = [r \in Rows |-> {}]
  /\ pc = [t \in Traders |-> "idle"]
  /\ acct = [t \in Traders |-> Paper]
  /\ read = [t \in Traders |-> "sim"]
  /\ asked = [a \in Admins |-> Nothing]
  /\ modes = [t \in Traders |-> {}]
  /\ venues = [t \in Traders |-> {}]
  /\ lapses = {}

Trading == \E t \in Traders : pc[t] # "idle"
Changing == \E a \in Admins : asked[a] # Nothing

OpenRows == {r \in Rows : book[r] # {}}

\* The account the settings select.
Selected == IF mode = "sim" THEN Paper ELSE <<venue, mode>>

----------------------------------------------------------------------------
\* Traders.

Route(t, account) ==
  /\ pc' = [pc EXCEPT ![t] = "routed"]
  /\ acct' = [acct EXCEPT ![t] = account]

\* Forget everything about t's turn.
Rest(t) ==
  /\ pc' = [pc EXCEPT ![t] = "idle"]
  /\ acct' = [acct EXCEPT ![t] = Paper]
  /\ read' = [read EXCEPT ![t] = "sim"]
  /\ modes' = [modes EXCEPT ![t] = {}]
  /\ venues' = [venues EXCEPT ![t] = {}]

\* resolve reads the mode; in Sim the simulator is the executor.
ReadMode(t) ==
  /\ pc[t] = "idle"
  /\ read' = [read EXCEPT ![t] = mode]
  /\ modes' = [modes EXCEPT ![t] = {mode}]
  /\ venues' = [venues EXCEPT ![t] = {venue}]
  /\ IF mode = "sim"
       THEN Route(t, Paper)
       ELSE pc' = [pc EXCEPT ![t] = "moded"] /\ acct' = acct
  /\ lapses' = IF Changing THEN lapses \cup {"overlap"} ELSE lapses
  /\ UNCHANGED <<settings, cache, book, asked>>

\* Whether the stored credentials let an order client be built for v.
Configured(v) == Fields[v] # {} /\ keys[v] = Fields[v]

CachedUnderVenueAlone(v, m) == {c \in cache : c[1] = v}

\* Executors the engine's router keeps for the venue and the mode.
Cached(v, m) == cache \cap {<<v, m>>}

\* resolve in Testnet or Live, on the engine's router (the tick, flatten): a
\* kept executor is used as it is, whatever became of the credentials.
ResolveCached(t) ==
  /\ pc[t] = "moded"
  /\ \E c \in Cached(venue, read[t]) : Route(t, c)
  /\ UNCHANGED <<settings, cache, book, read, asked, history, lapses>>

\* Otherwise the executor is built from the stored credentials; the engine's
\* router keeps it, a request's own router is thrown away.
ResolveBuilt(t) ==
  /\ pc[t] = "moded" /\ Configured(venue)
  /\ Route(t, <<venue, read[t]>>)
  /\ \/ Cached(venue, read[t]) = {} /\ cache' = cache \cup {<<venue, read[t]>>}
     \/ t \in Requests /\ cache' = cache
  /\ UNCHANGED <<settings, book, read, asked, history, lapses>>

\* Without credentials the router falls back to the simulator.
FallBack(t) ==
  /\ pc[t] = "moded" /\ ~Configured(venue)
  /\ Cached(venue, read[t]) = {} \/ t \in Requests
  /\ Route(t, Paper)
  /\ lapses' = lapses \cup {"fallback"}
  /\ UNCHANGED <<settings, cache, book, read, asked, history>>

\* The executor fills an order of t on row r, which closes what is open there
\* or opens or adds to it.  flatten keeps its executor for the next row.
Fill(t, r, closes, more) ==
  /\ pc[t] = "routed" /\ (acct[t] = Paper \/ acct[t][1] \in Placing)
  /\ closes => r \in OpenRows
  /\ book' = [book EXCEPT ![r] = IF closes THEN {} ELSE @ \cup {acct[t]}]
  /\ IF more /\ t \in Requests /\ closes
       THEN UNCHANGED <<trading, history>>
       ELSE Rest(t)
  /\ UNCHANGED <<settings, cache, asked, lapses>>

\* No order, or the order is not executed.
GiveUp(t) ==
  /\ pc[t] # "idle"
  /\ Rest(t)
  /\ UNCHANGED <<settings, cache, book, asked, lapses>>

----------------------------------------------------------------------------
\* Settings requests: what was checked is committed in a later step.

Ask(a, kind, value, left) ==
  /\ asked[a] = Nothing
  /\ asked' = [asked EXCEPT ![a] = [kind |-> kind, value |-> value, left |-> left]]
  /\ lapses' = IF Trading \/ Changing THEN lapses \cup {"overlap"} ELSE lapses
  /\ UNCHANGED <<settings, cache, book, trading, history>>

AskModeUnguarded(a, m) == m # mode /\ Ask(a, "mode", m, {})

AskModeAnySandbox(a, m) == m # mode /\ OpenRows = {} /\ Ask(a, "mode", m, {})

AskModeAsVenue(a, m) == m # mode /\ OpenRows = {} /\ Ask(a, "venue", m, {})

\* update_mode, its confirmation given: refused while a position is open, and
\* for Testnet while the active venue has no sandbox.
AskMode(a, m) ==
  /\ m # mode
  /\ OpenRows = {}
  /\ m = "testnet" => venue \in Sandboxed
  /\ Ask(a, "mode", m, {})

AskVenueUnguarded(a, v) ==
  /\ mode = "testnet" => v \in Sandboxed
  /\ Ask(a, "venue", v, {})

\* set_active: the same guards from the venue's side.
AskVenue(a, v) ==
  /\ v # venue => OpenRows = {}
  /\ mode = "testnet" => v \in Sandboxed
  /\ Ask(a, "venue", v, {})

\* update_venue_credentials: all declared fields at once, positions open or not.
AskKeys(a, v) == Fields[v] # {} /\ Ask(a, "keys", v, Fields[v])

\* A change of settings is seen by every turn under way.
Witness ==
  /\ modes' = [t \in Traders |-> IF pc[t] = "idle" THEN {} ELSE modes[t] \cup {mode'}]
  /\ venues' = [t \in Traders |-> IF pc[t] = "idle" THEN {} ELSE venues[t] \cup {venue'}]

CommitMode(a) ==
  /\ asked[a].kind = "mode"
  /\ mode' = asked[a].value
  /\ asked' = [asked EXCEPT ![a] = Nothing]
  /\ UNCHANGED <<venue, keys, cache, book, trading, lapses>>
  /\ Witness

CommitVenue(a) ==
  /\ asked[a].kind = "venue"
  /\ venue' = asked[a].value
  /\ asked' = [asked EXCEPT ![a] = Nothing]
  /\ UNCHANGED <<mode, keys, cache, book, trading, lapses>>
  /\ Witness

WithoutField(change, f) ==
  IF change.left = {f} THEN Nothing ELSE [change EXCEPT !.left = @ \ {f}]

\* set_venue_credentials commits one field after the other.
CommitKey(a, f) ==
  /\ asked[a].kind = "keys" /\ f \in asked[a].left
  /\ keys' = [keys EXCEPT ![asked[a].value] = @ \cup {f}]
  /\ asked' = [asked EXCEPT ![a] = WithoutField(@, f)]
  /\ UNCHANGED <<mode, venue, cache, book, trading, history, lapses>>

\* The process restarts: settings and positions stay, executors are gone.
Restart ==
  /\ cache' = {}
  /\ pc' = [t \in Traders |-> "idle"]
  /\ acct' = [t \in Traders |-> Paper]
  /\ read' = [t \in Traders |-> "sim"]
  /\ modes' = [t \in Traders |-> {}]
  /\ venues' = [t \in Traders |-> {}]
  /\ asked' = [a \in Admins |-> Nothing]
  /\ UNCHANGED <<settings, book, lapses>>

Trade(t) ==
  \/ ReadMode(t) \/ ResolveCached(t) \/ ResolveBuilt(t) \/ FallBack(t) \/ GiveUp(t)
  \/ \E r \in Rows, closes, more \in BOOLEAN : Fill(t, r, closes, more)

Change(a) ==
  \/ \E m \in Modes : AskMode(a, m)
  \/ \E v \in Venues : AskVenue(a, v) \/ AskKeys(a, v)
  \/ CommitMode(a) \/ CommitVenue(a)
  \/ \E f \in asked[a].left : CommitKey(a, f)

Next ==
  \/ \E t \in Traders : Trade(t)
  \/ \E a \in Admins : Change(a)
  \/ Restart

Spec == Init /\ [][Next]_vars

----------------------------------------------------------------------------
Changes ==
  [kind : {"none", "mode", "venue", "keys"},
   value : {"none"} \cup Modes \cup Venues,
   left : SUBSET AllFields]

\* Every variable stays in its domain; settings requests commit values of the
\* setting's own kind.
TypeOK ==
  /\ mode \in Modes /\ venue \in Venues
  /\ keys \in [Venues -> SUBSET AllFields]
  /\ \A v \in Venues : keys[v] \subseteq Fields[v]
  /\ cache \subseteq Venues \X RealModes
  /\ book \in [Rows -> SUBSET Accounts]
  /\ pc \in [Traders -> {"idle", "moded", "routed"}]
  /\ acct \in [Traders -> Accounts]
  /\ read \in [Traders -> Modes]
  /\ asked \in [Admins -> Changes]
  /\ \A a \in Admins :
       /\ asked[a].kind = "mode" => asked[a].value \in Modes
       /\ asked[a].kind \in {"venue", "keys"} => asked[a].value \in Venues
       /\ asked[a].kind = "keys" => asked[a].left \subseteq Fields[asked[a].value]
  /\ modes \in [Traders -> SUBSET Modes]
  /\ venues \in [Traders -> SUBSET Venues]
  /\ lapses \subseteq {"overlap", "fallback"}

\* "Blocked while positions are open - paper and real state must not mix"
\* (api/settings.py): the open leg of a position is made of fills of one account.
\* The guards ensure it as long as no settings request overlaps another thread
\* and the simulator never stands in for a venue.
BooksNeverMix == lapses = {} => \A r \in Rows : \A c, d \in book[r] : c = d

\* The same promise where the requests come one after the other, with venues
\* that may lack credentials.
SerialBooksNeverMix ==
  "overlap" \notin lapses => \A r \in Rows : \A c, d \in book[r] : c = d

\* What is open is open in the account the settings select, so that the next
\* order for it, a stop above all, closes it where it is.
OpenWhereActive ==
  lapses = {} =>
    \A r \in OpenRows : book[r] = {Selected}

\* "The active venue must have a sandbox to enter Testnet mode" (settings.py)
\* and "a venue with no sandbox cannot be used in Testnet mode" (venues.py):
\* two guards on either side of one rule, which hold it between them as long as
\* the requests do not overlap.
TestnetHasSandbox ==
  "overlap" \notin lapses => (mode = "testnet" => venue \in Sandboxed)

\* However settings change under a turn, and whatever executors the router has
\* kept, an order goes to a venue only if that venue was active at some moment
\* of that turn and its mode in force at some moment of it: no real order while
\* the turn has only known Sim, none on a venue deactivated before it began.
RoutedAccountWasActive ==
  \A t \in Traders :
    pc[t] = "routed" /\ acct[t] # Paper =>
      acct[t][1] \in venues[t] /\ acct[t][2] \in modes[t]

\* Rows, executors, credentials and requests that check first and commit later: as
\* long as lapses is empty, every fill is one of the selected account, and another
\* account is selected only while nothing is open: Routing implements Account.
Promise == INSTANCE Account WITH
  selected <- Selected, books <- book, voided <- (lapses # {})

KeepsAccount == Promise!AccountSpec
=============================================================================
