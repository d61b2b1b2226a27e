---------------------------- MODULE RoutingProofs ----------------------------
(***************************************************************************)
(* Theorems about Routing for every venue catalogue, every set of traders, *)
(* settings requests and rows, and any credentials.                        *)
(***************************************************************************)
EXTENDS Routing, TLAPS

----------------------------------------------------------------------------
\* Type correctness.

\* A trader that has read a mode and not resolved yet has read a real one: in
\* Sim the simulator is routed to at once.
ModedIsReal == \A t \in Traders : pc[t] = "moded" => read[t] \in RealModes

\* TypeOK alone is not inductive: the account <<venue, read[t]>> is one only
\* if the mode read is real.
TypeInv == TypeOK /\ ModedIsReal

\* Initially everything is in its domain.
LEMMA TypeInit == Init => TypeInv
<1> SUFFICES ASSUME Init PROVE TypeInv
  OBVIOUS
<1>1. Nothing \in Changes
  BY DEF Nothing, Changes
<1>2. asked \in [Admins -> Changes] /\ \A a \in Admins : asked[a].kind = "none"
  BY <1>1 DEF Init, Nothing
<1>3. Paper \in Accounts
  BY DEF Accounts
<1>4. QED
  BY <1>2, <1>3, KeysAssumption DEF Init, TypeInv, TypeOK, ModedIsReal, Modes

\* Resting and routing keep a trader's variables in their domains.
LEMMA RestTypes ==
  ASSUME NEW t \in Traders, TypeInv, Rest(t)
  PROVE  /\ pc' \in [Traders -> {"idle", "moded", "routed"}]
         /\ acct' \in [Traders -> Accounts] /\ read' \in [Traders -> Modes]
         /\ modes' \in [Traders -> SUBSET Modes]
         /\ venues' \in [Traders -> SUBSET Venues]
         /\ ModedIsReal'
<1>1. Paper \in Accounts /\ "sim" \in Modes
  BY DEF Accounts, Modes
<1>2. QED
  BY <1>1 DEF Rest, TypeInv, TypeOK, ModedIsReal

\* A step of a trader keeps every variable in its domain.
LEMMA TradeTypes ==
  ASSUME NEW t \in Traders, TypeInv, Trade(t)
  PROVE  TypeInv'
<1> USE DEF settings, trading, history
<1>1. CASE ReadMode(t)
  <2>1. Paper \in Accounts /\ (mode # "sim" => mode \in RealModes)
    BY DEF Accounts, TypeInv, TypeOK, Modes
  <2>2. /\ pc' \in [Traders -> {"idle", "moded", "routed"}]
        /\ acct' \in [Traders -> Accounts] /\ read' \in [Traders -> Modes]
        /\ modes' \in [Traders -> SUBSET Modes] /\ venues' \in [Traders -> SUBSET Venues]
    BY <1>1, <2>1 DEF ReadMode, Route, TypeInv, TypeOK
  <2>3. ModedIsReal'
    BY <1>1, <2>1 DEF ReadMode, Route, TypeInv, TypeOK, ModedIsReal
  <2>4. QED
    BY <1>1, <2>2, <2>3 DEF ReadMode, TypeInv, TypeOK
<1>2. ASSUME NEW c \in Accounts, pc[t] = "moded", Route(t, c), read' = read
      PROVE  /\ pc' \in [Traders -> {"idle", "moded", "routed"}]
             /\ acct' \in [Traders -> Accounts]
             /\ ModedIsReal'
  BY <1>2 DEF Route, TypeInv, TypeOK, ModedIsReal
<1>3. pc[t] = "moded" => <<venue, read[t]>> \in Venues \X RealModes
  BY DEF TypeInv, TypeOK, ModedIsReal
<1>4. CASE ResolveCached(t)
  <2>1. PICK c \in Cached(venue, read[t]) : Route(t, c)
    BY <1>4 DEF ResolveCached
  <2>2. c \in Accounts
    BY DEF Cached, TypeInv, TypeOK, Accounts
  <2>3. QED
    BY <1>2, <1>4, <2>1, <2>2 DEF ResolveCached, TypeInv, TypeOK
<1>5. CASE ResolveBuilt(t)
  <2>1. <<venue, read[t]>> \in Venues \X RealModes /\ Route(t, <<venue, read[t]>>)
    BY <1>3, <1>5 DEF ResolveBuilt
  <2>2. cache' \subseteq Venues \X RealModes
    BY <1>5, <2>1 DEF ResolveBuilt, TypeInv, TypeOK
  <2>3. QED
    BY <1>2, <1>5, <2>1, <2>2 DEF ResolveBuilt, TypeInv, TypeOK, Accounts
<1>6. CASE FallBack(t)
  BY <1>2, <1>6 DEF FallBack, TypeInv, TypeOK, Accounts
<1>7. CASE GiveUp(t)
  BY <1>7, RestTypes DEF GiveUp, TypeInv, TypeOK
<1>8. ASSUME NEW r \in Rows, NEW closes \in BOOLEAN, NEW more \in BOOLEAN,
             Fill(t, r, closes, more)
      PROVE  TypeInv'
  <2>1. book' \in [Rows -> SUBSET Accounts]
    BY <1>8 DEF Fill, TypeInv, TypeOK
  <2>2. CASE UNCHANGED <<trading, history>>
    BY <1>8, <2>1, <2>2 DEF Fill, TypeInv, TypeOK, ModedIsReal
  <2>3. CASE Rest(t)
    BY <1>8, <2>1, <2>3, RestTypes DEF Fill, TypeInv, TypeOK
  <2>4. QED
    BY <1>8, <2>2, <2>3 DEF Fill
<1>9. QED
  BY <1>1, <1>4, <1>5, <1>6, <1>7, <1>8 DEF Trade

\* What Ask writes is well formed when the request is.
LEMMA AskTypes ==
  ASSUME NEW a \in Admins, NEW kind \in {"mode", "venue", "keys"},
         NEW value, NEW left,
         kind = "mode" => value \in Modes /\ left = {},
         kind = "venue" => value \in Venues /\ left = {},
         kind = "keys" => value \in Venues /\ left = Fields[value],
         TypeInv, Ask(a, kind, value, left)
  PROVE  TypeInv'
<1> DEFINE change == [kind |-> kind, value |-> value, left |-> left]
<1>1. change \in Changes
  BY DEF Changes, AllFields
<1>2. asked' = [asked EXCEPT ![a] = change]
  BY DEF Ask
<1>3. /\ change.kind = kind /\ change.value = value /\ change.left = left
  OBVIOUS
<1> HIDE DEF change
<1>4. asked' \in [Admins -> Changes]
  BY <1>1, <1>2 DEF TypeInv, TypeOK
<1>5. \A b \in Admins :
        /\ asked'[b].kind = "mode" => asked'[b].value \in Modes
        /\ asked'[b].kind \in {"venue", "keys"} => asked'[b].value \in Venues
        /\ asked'[b].kind = "keys" => asked'[b].left \subseteq Fields[asked'[b].value]
  BY <1>2, <1>3 DEF TypeInv, TypeOK
<1>6. QED
  BY <1>4, <1>5 DEF Ask, TypeInv, TypeOK, ModedIsReal, settings, trading, history

\* Every turn notes the new mode and venue.
LEMMA WitnessTypes ==
  ASSUME TypeInv, mode' \in Modes, venue' \in Venues, Witness
  PROVE  modes' \in [Traders -> SUBSET Modes] /\ venues' \in [Traders -> SUBSET Venues]
BY DEF Witness, TypeInv, TypeOK

\* A step of a settings request keeps every variable in its domain.
LEMMA ChangeTypes ==
  ASSUME NEW a \in Admins, TypeInv, Change(a)
  PROVE  TypeInv'
<1> USE DEF settings, trading, history
<1>1. ASSUME NEW m \in Modes, AskMode(a, m) PROVE TypeInv'
  BY <1>1, AskTypes DEF AskMode
<1>2. ASSUME NEW v \in Venues, AskVenue(a, v) PROVE TypeInv'
  BY <1>2, AskTypes DEF AskVenue
<1>3. ASSUME NEW v \in Venues, AskKeys(a, v) PROVE TypeInv'
  BY <1>3, AskTypes DEF AskKeys
<1>4. Nothing \in Changes /\ Nothing.kind = "none"
  BY DEF Nothing, Changes
<1>5. ASSUME asked' = [asked EXCEPT ![a] = Nothing]
      PROVE  /\ asked' \in [Admins -> Changes]
             /\ \A b \in Admins :
                  /\ asked'[b].kind = "mode" => asked'[b].value \in Modes
                  /\ asked'[b].kind \in {"venue", "keys"} => asked'[b].value \in Venues
                  /\ asked'[b].kind = "keys" =>
                       asked'[b].left \subseteq Fields[asked'[b].value]
  BY <1>4, <1>5 DEF TypeInv, TypeOK
<1>6. CASE CommitMode(a)
  <2>1. mode' \in Modes /\ venue' \in Venues
    BY <1>6 DEF CommitMode, TypeInv, TypeOK
  <2>2. QED
    BY <1>5, <1>6, <2>1, WitnessTypes DEF CommitMode, TypeInv, TypeOK, ModedIsReal
<1>7. CASE CommitVenue(a)
  <2>1. mode' \in Modes /\ venue' \in Venues
    BY <1>7 DEF CommitVenue, TypeInv, TypeOK
  <2>2. QED
    BY <1>5, <1>7, <2>1, WitnessTypes DEF CommitVenue, TypeInv, TypeOK, ModedIsReal
<1>8. ASSUME NEW f \in asked[a].left, CommitKey(a, f) PROVE TypeInv'
  <2>1. /\ asked[a].value \in Venues /\ f \in Fields[asked[a].value]
        /\ asked[a].left \subseteq Fields[asked[a].value]
    BY <1>8 DEF CommitKey, TypeInv, TypeOK
  <2>2. f \in AllFields
    BY <2>1 DEF AllFields
  <2>3. /\ keys' \in [Venues -> SUBSET AllFields]
        /\ \A v \in Venues : keys'[v] \subseteq Fields[v]
    BY <1>8, <2>1, <2>2 DEF CommitKey, TypeInv, TypeOK
  <2>4. asked' = [asked EXCEPT ![a] = WithoutField(asked[a], f)]
    BY <1>8 DEF CommitKey
  <2>5. LET rest == WithoutField(asked[a], f)
        IN  /\ rest \in Changes
            /\ rest.kind \in {"none", "keys"}
            /\ rest.kind = "keys" =>
                 rest.value \in Venues /\ rest.left \subseteq Fields[rest.value]
    BY <1>4, <1>8, <2>1 DEF CommitKey, WithoutField, TypeInv, TypeOK, Changes
  <2>6. /\ asked' \in [Admins -> Changes]
        /\ \A b \in Admins :
             /\ asked'[b].kind = "mode" => asked'[b].value \in Modes
             /\ asked'[b].kind \in {"venue", "keys"} => asked'[b].value \in Venues
             /\ asked'[b].kind = "keys" =>
                  asked'[b].left \subseteq Fields[asked'[b].value]
    <3> DEFINE rest == WithoutField(asked[a], f)
    <3>1. /\ rest \in Changes
          /\ rest.kind \in {"none", "keys"}
          /\ rest.kind = "keys" =>
               rest.value \in Venues /\ rest.left \subseteq Fields[rest.value]
      BY <2>5
    <3>2. asked' = [asked EXCEPT ![a] = rest]
      BY <2>4
    <3> HIDE DEF rest
    <3>3. QED
      BY <3>1, <3>2 DEF TypeInv, TypeOK
  <2>7. QED
    BY <1>8, <2>3, <2>6 DEF CommitKey, TypeInv, TypeOK, ModedIsReal
<1>9. QED
  BY <1>1, <1>2, <1>3, <1>6, <1>7, <1>8 DEF Change

\* A restart keeps every variable in its domain.
LEMMA RestartTypes ==
  ASSUME TypeInv, Restart
  PROVE  TypeInv'
<1>1. Nothing \in Changes /\ Nothing.kind = "none"
  BY DEF Nothing, Changes
<1>2. Paper \in Accounts /\ "sim" \in Modes
  BY DEF Accounts, Modes
<1>3. asked' \in [Admins -> Changes] /\ \A a \in Admins : asked'[a].kind = "none"
  BY <1>1 DEF Restart
<1>4. QED
  BY <1>2, <1>3 DEF Restart, TypeInv, TypeOK, ModedIsReal, settings

\* Every variable stays in its domain, for every step.
LEMMA TypeStep == TypeInv /\ [Next]_vars => TypeInv'
<1> SUFFICES ASSUME TypeInv, [Next]_vars PROVE TypeInv'
  OBVIOUS
<1>1. CASE UNCHANGED vars
  BY <1>1 DEF vars, settings, trading, history, TypeInv, TypeOK, ModedIsReal
<1>2. QED
  BY <1>1, TradeTypes, ChangeTypes, RestartTypes DEF Next

\* Every variable of the routing stays in its domain.
THEOREM RoutingTypeCorrect == Spec => []TypeOK
<1>1. Spec => []TypeInv
  BY TypeInit, TypeStep, PTL DEF Spec
<1>2. TypeInv => TypeOK
  BY DEF TypeInv
<1>3. QED
  BY <1>1, <1>2, PTL

----------------------------------------------------------------------------
\* Settings requests one at a time.

\* At most one settings request has checked and not committed.
AskedAlone == \A a, b \in Admins : asked[a] # Nothing /\ asked[b] # Nothing => a = b

\* A request that begins while none is under way is the only one.
LEMMA AskAlone ==
  ASSUME NEW a \in Admins, NEW kind \in {"mode", "venue", "keys"}, NEW value, NEW left,
         TypeInv, Ask(a, kind, value, left), lapses' = lapses, "overlap" \notin lapses
  PROVE  /\ ~Trading /\ \A b \in Admins : asked[b] = Nothing
         /\ asked'[a] = [kind |-> kind, value |-> value, left |-> left]
         /\ \A b \in Admins : b # a => asked'[b] = Nothing
<1>1. ~Trading /\ ~Changing
  BY DEF Ask
<1>2. \A b \in Admins : asked[b] = Nothing
  BY <1>1 DEF Changing
<1>3. QED
  BY <1>1, <1>2 DEF Ask, TypeInv, TypeOK

\* A committed change was the only one under way: none is left.
LEMMA CommitAlone ==
  ASSUME NEW a \in Admins, TypeInv, AskedAlone, asked[a].kind # "none",
         asked' = [asked EXCEPT ![a] = Nothing]
  PROVE  \A b \in Admins : asked'[b] = Nothing
<1>1. asked[a] # Nothing
  BY DEF Nothing
<1>2. QED
  BY <1>1 DEF AskedAlone, TypeInv, TypeOK

\* Storing a credential field leaves the other requests alone, and its own
\* request a request for credentials or none.
LEMMA CommitKeyAsked ==
  ASSUME NEW a \in Admins, NEW f, TypeInv, CommitKey(a, f)
  PROVE  /\ asked[a] # Nothing
         /\ asked'[a].kind \in {"none", "keys"}
         /\ \A b \in Admins : b # a => asked'[b] = asked[b]
<1>1. asked[a] # Nothing
  BY DEF CommitKey, Nothing
<1>2. asked[a] \in Changes
  BY DEF TypeInv, TypeOK
<1>3. WithoutField(asked[a], f).kind \in {"none", "keys"}
  BY <1>2 DEF CommitKey, WithoutField, Nothing, Changes
<1>4. QED
  BY <1>1, <1>3 DEF CommitKey, TypeInv, TypeOK

----------------------------------------------------------------------------
\* The sandbox rule.

\* The two guards and the committed settings, while no request has overlapped
\* another thread: what a request has checked is still so when it commits.
SandboxInv ==
  "overlap" \notin lapses =>
    /\ AskedAlone
    /\ mode = "testnet" => venue \in Sandboxed
    /\ \A a \in Admins :
         /\ asked[a].kind = "mode" /\ asked[a].value = "testnet" => venue \in Sandboxed
         /\ asked[a].kind = "venue" /\ mode = "testnet" => asked[a].value \in Sandboxed

\* No step breaks it.
LEMMA SandboxStep == TypeInv /\ SandboxInv /\ [Next]_vars => SandboxInv'
<1> SUFFICES ASSUME TypeInv, SandboxInv, [Next]_vars, "overlap" \notin lapses'
             PROVE  SandboxInv'
  BY DEF SandboxInv
<1> USE DEF settings, trading, history
<1>1. "overlap" \notin lapses
  BY DEF Next, Trade, Change, vars, ReadMode, ResolveCached, ResolveBuilt, FallBack,
         GiveUp, Fill, AskMode, AskVenue, AskKeys, Ask, CommitMode, CommitVenue,
         CommitKey, Restart
<1>2. Nothing.kind = "none"
  BY DEF Nothing
<1>3. ASSUME UNCHANGED <<mode, venue, asked>>
      PROVE  SandboxInv'
  BY <1>1, <1>3 DEF SandboxInv, AskedAlone
<1>4. ASSUME NEW t \in Traders, Trade(t)
      PROVE  UNCHANGED <<mode, venue, asked>>
  BY <1>4 DEF Trade, ReadMode, ResolveCached, ResolveBuilt, FallBack, GiveUp, Fill
<1>5. ASSUME NEW a \in Admins, Change(a)
      PROVE  SandboxInv'
  <2>1. ASSUME NEW kind \in {"mode", "venue", "keys"}, NEW value, NEW left,
               Ask(a, kind, value, left),
               kind = "mode" /\ value = "testnet" => venue \in Sandboxed,
               kind = "venue" /\ mode = "testnet" => value \in Sandboxed
        PROVE  SandboxInv'
    <3>1. lapses' = lapses /\ mode' = mode /\ venue' = venue
      BY <2>1 DEF Ask
    <3>2. /\ asked'[a] = [kind |-> kind, value |-> value, left |-> left]
          /\ \A b \in Admins : b # a => asked'[b] = Nothing
      BY <1>1, <2>1, <3>1, AskAlone
    <3>3. AskedAlone'
      BY <3>2 DEF AskedAlone
    <3>4. QED
      BY <1>1, <1>2, <2>1, <3>1, <3>2, <3>3 DEF SandboxInv
  <2>2. ASSUME NEW m \in Modes, AskMode(a, m) PROVE SandboxInv'
    BY <2>1, <2>2 DEF AskMode
  <2>3. ASSUME NEW v \in Venues, AskVenue(a, v) PROVE SandboxInv'
    BY <2>1, <2>3 DEF AskVenue
  <2>4. ASSUME NEW v \in Venues, AskKeys(a, v) PROVE SandboxInv'
    BY <2>1, <2>4 DEF AskKeys
  <2>5. CASE CommitMode(a)
    <3>1. \A b \in Admins : asked'[b] = Nothing
      BY <1>1, <2>5, CommitAlone DEF CommitMode, SandboxInv
    <3>2. mode' = "testnet" => venue' \in Sandboxed
      BY <1>1, <2>5 DEF CommitMode, SandboxInv
    <3>3. QED
      BY <1>2, <3>1, <3>2 DEF SandboxInv, AskedAlone
  <2>6. CASE CommitVenue(a)
    <3>1. \A b \in Admins : asked'[b] = Nothing
      BY <1>1, <2>6, CommitAlone DEF CommitVenue, SandboxInv
    <3>2. mode' = "testnet" => venue' \in Sandboxed
      BY <1>1, <2>6 DEF CommitVenue, SandboxInv
    <3>3. QED
      BY <1>2, <3>1, <3>2 DEF SandboxInv, AskedAlone
  <2>7. ASSUME NEW f \in asked[a].left, CommitKey(a, f) PROVE SandboxInv'
    <3>1. mode' = mode /\ venue' = venue
      BY <2>7 DEF CommitKey
    <3>2. QED
      BY <1>1, <2>7, <3>1, CommitKeyAsked DEF SandboxInv, AskedAlone
  <2>8. QED
    BY <1>5, <2>2, <2>3, <2>4, <2>5, <2>6, <2>7 DEF Change
<1>6. CASE Restart
  <2>1. \A b \in Admins : asked'[b] = Nothing
    BY <1>6 DEF Restart
  <2>2. QED
    BY <1>1, <1>2, <1>6, <2>1 DEF Restart, SandboxInv, AskedAlone
<1>7. CASE UNCHANGED vars
  BY <1>3, <1>7 DEF vars
<1>8. QED
  BY <1>3, <1>4, <1>5, <1>6, <1>7 DEF Next

\* Testnet implies a sandbox, as long as settings requests do not overlap: the
\* check of update_mode and that of set_active hold one rule between them.
THEOREM SandboxRule == Spec => []TestnetHasSandbox
<1>1. Init => SandboxInv
  BY DEF Init, SandboxInv, AskedAlone, Nothing
<1>2. SandboxInv => TestnetHasSandbox
  BY DEF SandboxInv, TestnetHasSandbox
<1>3. QED
  BY <1>1, <1>2, TypeInit, TypeStep, SandboxStep, PTL DEF Spec

----------------------------------------------------------------------------
\* Orders go where the settings pointed.

\* A trader under way has seen the settings in force; the mode it has read and
\* the account it was routed to are among what it has seen.
SeenInv ==
  \A t \in Traders :
    /\ pc[t] # "idle" => mode \in modes[t] /\ venue \in venues[t]
    /\ pc[t] = "moded" => read[t] \in modes[t]
    /\ pc[t] = "routed" /\ acct[t] # Paper =>
         acct[t][1] \in venues[t] /\ acct[t][2] \in modes[t]

\* Routing to the simulator, or to the active venue in the mode read, keeps it.
LEMMA RouteSeen ==
  ASSUME NEW t \in Traders, NEW c, TypeInv, SeenInv, pc[t] = "moded", Route(t, c),
         c = Paper \/ c = <<venue, read[t]>>,
         UNCHANGED <<settings, read, history>>
  PROVE  SeenInv'
BY DEF Route, SeenInv, TypeInv, TypeOK, settings, history

\* A resting trader has nothing to remember.
LEMMA RestSeen ==
  ASSUME NEW t \in Traders, TypeInv, SeenInv, Rest(t), UNCHANGED settings
  PROVE  SeenInv'
BY DEF Rest, SeenInv, TypeInv, TypeOK, settings

\* No step breaks it.
LEMMA SeenStep == TypeInv /\ SeenInv /\ [Next]_vars => SeenInv'
<1> SUFFICES ASSUME TypeInv, SeenInv, [Next]_vars PROVE SeenInv'
  OBVIOUS
<1> USE DEF settings, trading, history
<1>1. ASSUME NEW t \in Traders, Trade(t) PROVE SeenInv'
  <2>1. CASE ReadMode(t)
    BY <2>1 DEF ReadMode, Route, SeenInv, TypeInv, TypeOK
  <2>2. CASE ResolveCached(t)
    <3>1. PICK c \in Cached(venue, read[t]) : Route(t, c)
      BY <2>2 DEF ResolveCached
    <3>2. c = <<venue, read[t]>>
      BY DEF Cached
    <3>3. QED
      BY <2>2, <3>1, <3>2, RouteSeen DEF ResolveCached
  <2>3. CASE ResolveBuilt(t)
    BY <2>3, RouteSeen DEF ResolveBuilt
  <2>4. CASE FallBack(t)
    BY <2>4, RouteSeen DEF FallBack
  <2>5. CASE GiveUp(t)
    BY <2>5, RestSeen DEF GiveUp
  <2>6. ASSUME NEW r \in Rows, NEW closes \in BOOLEAN, NEW more \in BOOLEAN,
               Fill(t, r, closes, more)
        PROVE  SeenInv'
    <3>1. CASE UNCHANGED <<trading, history>>
      BY <2>6, <3>1 DEF Fill, SeenInv
    <3>2. CASE Rest(t)
      BY <2>6, <3>2, RestSeen DEF Fill
    <3>3. QED
      BY <2>6, <3>1, <3>2 DEF Fill
  <2>7. QED
    BY <1>1, <2>1, <2>2, <2>3, <2>4, <2>5, <2>6 DEF Trade
<1>2. ASSUME NEW a \in Admins, Change(a) PROVE SeenInv'
  <2>1. ASSUME UNCHANGED <<settings, trading, history>> PROVE SeenInv'
    BY <2>1 DEF SeenInv
  <2>2. ASSUME NEW m \in Modes, AskMode(a, m) PROVE SeenInv'
    BY <2>1, <2>2 DEF AskMode, Ask
  <2>3. ASSUME NEW v \in Venues, AskVenue(a, v) \/ AskKeys(a, v) PROVE SeenInv'
    BY <2>1, <2>3 DEF AskVenue, AskKeys, Ask
  <2>4. CASE CommitMode(a) \/ CommitVenue(a)
    <3>1. Witness /\ UNCHANGED trading
      BY <2>4 DEF CommitMode, CommitVenue
    <3>2. QED
      BY <3>1 DEF Witness, SeenInv, TypeInv, TypeOK
  <2>5. ASSUME NEW f \in asked[a].left, CommitKey(a, f) PROVE SeenInv'
    BY <2>5 DEF CommitKey, SeenInv
  <2>6. QED
    BY <1>2, <2>2, <2>3, <2>4, <2>5 DEF Change
<1>3. CASE Restart
  BY <1>3 DEF Restart, SeenInv
<1>4. CASE UNCHANGED vars
  BY <1>4 DEF vars, SeenInv
<1>5. QED
  BY <1>1, <1>2, <1>3, <1>4 DEF Next

\* However settings, credentials and kept executors change under a turn, a real
\* order goes only to a venue and in a mode that were in force during it.
THEOREM RoutedActive == Spec => []RoutedAccountWasActive
<1>1. Init => SeenInv
  BY DEF Init, SeenInv
<1>2. SeenInv => RoutedAccountWasActive
  BY DEF SeenInv, RoutedAccountWasActive
<1>3. QED
  BY <1>1, <1>2, TypeInit, TypeStep, SeenStep, PTL DEF Spec

----------------------------------------------------------------------------
\* The books.

\* What is open is open in the selected account alone.
BooksInv == \A r \in Rows : book[r] # {} => book[r] = {Selected}

\* A trader under way acts on the settings in force.
TradersInv ==
  \A t \in Traders :
    /\ pc[t] = "moded" => read[t] = mode /\ mode # "sim"
    /\ pc[t] = "routed" => acct[t] = Selected

\* A settings request is under way only between turns, alone, and nothing is
\* open if it is going to select another account.
RequestsInv ==
  /\ AskedAlone
  /\ Changing => ~Trading
  /\ \A a \in Admins :
       /\ asked[a].kind = "mode" => OpenRows = {}
       /\ asked[a].kind = "venue" /\ asked[a].value # venue => OpenRows = {}

SafeInv == lapses = {} => BooksInv /\ TradersInv /\ RequestsInv

\* A trader's step keeps the books: what it fills is the selected account's,
\* and no settings request is under way to change it.
LEMMA TradeSafe ==
  ASSUME NEW t \in Traders, TypeInv, SafeInv, Trade(t), lapses' = {}
  PROVE  SafeInv'
<1> USE DEF settings, trading, history
<1>1. lapses = {}
  BY DEF Trade, ReadMode, ResolveCached, ResolveBuilt, FallBack, GiveUp, Fill
<1>2. BooksInv /\ TradersInv /\ RequestsInv
  BY <1>1 DEF SafeInv
<1>3. ~Changing /\ \A a \in Admins : asked[a] = Nothing
  <2>1. CASE ReadMode(t)
    BY <1>1, <2>1 DEF ReadMode, Changing
  <2>2. CASE pc[t] # "idle"
    BY <1>2, <2>2 DEF RequestsInv, Trading, Changing
  <2>3. QED
    BY <2>1, <2>2 DEF Trade, ResolveCached, ResolveBuilt, FallBack, GiveUp, Fill
<1>4. mode' = mode /\ venue' = venue /\ asked' = asked /\ Selected' = Selected
  BY DEF Trade, ReadMode, ResolveCached, ResolveBuilt, FallBack, GiveUp, Fill, Selected
<1>5. RequestsInv'
  BY <1>3, <1>4 DEF RequestsInv, AskedAlone, Changing, Nothing
<1>6. BooksInv' /\ TradersInv'
  <2>1. ASSUME book' = book PROVE BooksInv'
    BY <1>2, <1>4, <2>1 DEF BooksInv
  <2>2. CASE ReadMode(t)
    BY <1>2, <1>4, <2>1, <2>2
       DEF ReadMode, Route, TradersInv, Selected, TypeInv, TypeOK
  <2>3. ASSUME pc[t] = "moded", Route(t, <<venue, read[t]>>), read' = read
        PROVE  TradersInv'
    BY <1>2, <1>4, <2>3 DEF Route, TradersInv, Selected, TypeInv, TypeOK
  <2>4. CASE ResolveCached(t)
    <3>1. PICK c \in Cached(venue, read[t]) : Route(t, c)
      BY <2>4 DEF ResolveCached
    <3>2. c = <<venue, read[t]>>
      BY DEF Cached
    <3>3. QED
      BY <2>1, <2>3, <2>4, <3>1, <3>2 DEF ResolveCached
  <2>5. CASE ResolveBuilt(t)
    BY <2>1, <2>3, <2>5 DEF ResolveBuilt
  <2>6. CASE FallBack(t)
    BY <2>6 DEF FallBack
  <2>7. ASSUME Rest(t) PROVE TradersInv'
    BY <1>2, <1>4, <2>7 DEF Rest, TradersInv, TypeInv, TypeOK
  <2>8. CASE GiveUp(t)
    BY <2>1, <2>7, <2>8 DEF GiveUp
  <2>9. ASSUME NEW r \in Rows, NEW closes \in BOOLEAN, NEW more \in BOOLEAN,
               Fill(t, r, closes, more)
        PROVE  BooksInv' /\ TradersInv'
    <3>1. acct[t] = Selected
      BY <1>2, <2>9 DEF Fill, TradersInv
    <3>2. BooksInv'
      BY <1>2, <1>4, <2>9, <3>1 DEF Fill, BooksInv, TypeInv, TypeOK
    <3>3. CASE UNCHANGED <<trading, history>>
      <4>1. pc' = pc /\ acct' = acct /\ read' = read
        BY <3>3
      <4>2. QED
        BY <1>2, <1>4, <3>2, <4>1 DEF TradersInv
    <3>4. QED
      BY <2>7, <2>9, <3>2, <3>3 DEF Fill
  <2>10. QED
    BY <2>2, <2>4, <2>5, <2>6, <2>8, <2>9 DEF Trade
<1>7. QED
  BY <1>5, <1>6 DEF SafeInv

\* A settings request checks and commits with no turn and no other request in
\* between, so what it found closed is still closed.
LEMMA ChangeSafe ==
  ASSUME NEW a \in Admins, TypeInv, SafeInv, Change(a), lapses' = {}
  PROVE  SafeInv'
<1> USE DEF settings, trading, history
<1>1. lapses = {}
  BY DEF Change, AskMode, AskVenue, AskKeys, Ask, CommitMode, CommitVenue, CommitKey
<1>2. BooksInv /\ TradersInv /\ RequestsInv
  BY <1>1 DEF SafeInv
<1>3. book' = book /\ pc' = pc /\ acct' = acct /\ read' = read /\ OpenRows' = OpenRows
  BY DEF Change, AskMode, AskVenue, AskKeys, Ask, CommitMode, CommitVenue, CommitKey,
         OpenRows
<1>4. Nothing.kind = "none"
  BY DEF Nothing
<1>5. ASSUME mode' = mode, venue' = venue
      PROVE  BooksInv' /\ TradersInv'
  BY <1>2, <1>3, <1>5 DEF BooksInv, TradersInv, Selected
<1>6. ASSUME NEW kind \in {"mode", "venue", "keys"}, NEW value, NEW left,
             Ask(a, kind, value, left),
             kind = "mode" => OpenRows = {},
             kind = "venue" /\ value # venue => OpenRows = {}
      PROVE  SafeInv'
  <2>1. lapses' = lapses /\ mode' = mode /\ venue' = venue
    BY <1>1, <1>6 DEF Ask
  <2>2. /\ ~Trading
        /\ asked'[a] = [kind |-> kind, value |-> value, left |-> left]
        /\ \A b \in Admins : b # a => asked'[b] = Nothing
    BY <1>1, <1>6, <2>1, AskAlone
  <2>3. ~Trading'
    BY <1>3, <2>2 DEF Trading
  <2>4. AskedAlone'
    BY <2>2 DEF AskedAlone
  <2>5. RequestsInv'
    BY <1>3, <1>4, <1>6, <2>1, <2>2, <2>3, <2>4 DEF RequestsInv
  <2>6. QED
    BY <1>5, <2>1, <2>5 DEF SafeInv
<1>7. ASSUME NEW m \in Modes, AskMode(a, m) PROVE SafeInv'
  BY <1>6, <1>7 DEF AskMode
<1>8. ASSUME NEW v \in Venues, AskVenue(a, v) PROVE SafeInv'
  BY <1>6, <1>8 DEF AskVenue
<1>9. ASSUME NEW v \in Venues, AskKeys(a, v) PROVE SafeInv'
  BY <1>6, <1>9 DEF AskKeys
<1>10. ASSUME asked[a].kind # "none", asked' = [asked EXCEPT ![a] = Nothing]
       PROVE  RequestsInv' /\ ~Trading
  <2>1. \A b \in Admins : asked'[b] = Nothing
    BY <1>2, <1>10, CommitAlone DEF RequestsInv
  <2>2. ~Trading
    BY <1>2, <1>4, <1>10 DEF RequestsInv, Changing
  <2>3. QED
    BY <1>4, <2>1, <2>2 DEF RequestsInv, AskedAlone, Changing
<1>11. ASSUME OpenRows = {}, ~Trading PROVE BooksInv' /\ TradersInv'
  BY <1>3, <1>11 DEF BooksInv, TradersInv, OpenRows, Trading
<1>12. CASE CommitMode(a)
  <2>1. OpenRows = {} /\ RequestsInv' /\ ~Trading
    BY <1>2, <1>10, <1>12 DEF CommitMode, RequestsInv
  <2>2. QED
    BY <1>11, <2>1 DEF SafeInv
<1>13. CASE CommitVenue(a)
  <2>1. RequestsInv' /\ ~Trading
    BY <1>10, <1>13 DEF CommitVenue
  <2>2. CASE asked[a].value = venue
    BY <1>5, <1>13, <2>1, <2>2 DEF CommitVenue, SafeInv
  <2>3. CASE asked[a].value # venue
    <3>1. OpenRows = {}
      BY <1>2, <1>13, <2>3 DEF CommitVenue, RequestsInv
    <3>2. QED
      BY <1>11, <2>1, <3>1 DEF SafeInv
  <2>4. QED
    BY <2>2, <2>3
<1>14. ASSUME NEW f \in asked[a].left, CommitKey(a, f) PROVE SafeInv'
  <2>1. /\ asked[a] # Nothing
        /\ asked'[a].kind \in {"none", "keys"}
        /\ \A b \in Admins : b # a => asked'[b] = asked[b]
    BY <1>14, CommitKeyAsked
  <2>2. mode' = mode /\ venue' = venue
    BY <1>14 DEF CommitKey
  <2>3. ~Trading'
    BY <1>2, <1>3, <2>1 DEF RequestsInv, Changing, Trading
  <2>4. AskedAlone'
    BY <1>2, <2>1 DEF RequestsInv, AskedAlone
  <2>5. RequestsInv'
    BY <1>2, <1>3, <2>1, <2>2, <2>3, <2>4 DEF RequestsInv
  <2>6. QED
    BY <1>5, <2>2, <2>5 DEF SafeInv
<1>15. QED
  BY <1>7, <1>8, <1>9, <1>12, <1>13, <1>14 DEF Change

\* No step breaks the books.
LEMMA SafeStep == TypeInv /\ SafeInv /\ [Next]_vars => SafeInv'
<1> SUFFICES ASSUME TypeInv, SafeInv, [Next]_vars, lapses' = {} PROVE SafeInv'
  BY DEF SafeInv
<1>1. CASE Restart
  <2>1. \A a \in Admins : asked'[a] = Nothing
    BY <1>1 DEF Restart
  <2>2. lapses = {} /\ book' = book /\ Selected' = Selected /\ \A t \in Traders : pc'[t] = "idle"
    BY <1>1 DEF Restart, settings, Selected
  <2>3. BooksInv' /\ TradersInv'
    BY <2>2 DEF SafeInv, BooksInv, TradersInv
  <2>4. RequestsInv'
    BY <2>1 DEF RequestsInv, AskedAlone, Changing, Nothing
  <2>5. QED
    BY <2>3, <2>4 DEF SafeInv
<1>2. CASE UNCHANGED vars
  BY <1>2 DEF vars, settings, trading, SafeInv, BooksInv, TradersInv, RequestsInv,
              AskedAlone, Changing, Trading, OpenRows, Selected
<1>3. QED
  BY <1>1, <1>2, TradeSafe, ChangeSafe DEF Next

\* As long as no settings request overlaps another thread and the simulator
\* never stands in, an open position is made of fills of one account, and that
\* account is the one the settings select: the open-position guards of
\* update_mode and set_active are enough.
THEOREM RoutingSafe == Spec => [](BooksNeverMix /\ OpenWhereActive)
<1>1. Init => SafeInv
  BY DEF Init, SafeInv, BooksInv, TradersInv, RequestsInv, AskedAlone, Changing, Nothing
<1>2. SafeInv => BooksNeverMix /\ OpenWhereActive
  BY DEF SafeInv, BooksInv, BooksNeverMix, OpenWhereActive, OpenRows, Selected
<1>3. QED
  BY <1>1, <1>2, TypeInit, TypeStep, SafeStep, PTL DEF Spec

----------------------------------------------------------------------------
\* The promise of the guards.

\* The guards cannot unsee what they missed.
LEMMA LapsesStay == [Next]_vars => lapses \subseteq lapses'
<1>1. ASSUME NEW t \in Traders, Trade(t) PROVE lapses \subseteq lapses'
  BY <1>1 DEF Trade, ReadMode, ResolveCached, ResolveBuilt, FallBack, GiveUp, Fill
<1>2. ASSUME NEW a \in Admins, Change(a) PROVE lapses \subseteq lapses'
  BY <1>2 DEF Change, AskMode, AskVenue, AskKeys, Ask, CommitMode, CommitVenue, CommitKey
<1>3. CASE Restart \/ UNCHANGED vars
  BY <1>3 DEF Restart, vars
<1> QED
  BY <1>1, <1>2, <1>3 DEF Next

LEMMA SelectedIsAccount == TypeInv => Selected \in Accounts
BY DEF TypeInv, TypeOK, Selected, Accounts, Modes, RealModes

\* Before anything has lapsed: a fill is one of the selected account, since the trader
\* acts on the settings in force; a commit that selects another one finds nothing open,
\* since its request has checked and no turn came between; every other step leaves the
\* selected account and the books alone.
LEMMA AccountStep ==
  ASSUME TypeInv, TypeInv', SafeInv, [Next]_vars
  PROVE  [Promise!AccountNext]_(Promise!accountVars)
<1> DEFINE Step == [Promise!AccountNext]_(Promise!accountVars)
<1> USE DEF settings, trading, history
<1>1. CASE lapses' # {}
  <2>1. Selected' \in Accounts
    BY SelectedIsAccount DEF TypeInv, TypeOK, Selected, Accounts, Modes, RealModes
  <2>2. book' \in [Rows -> SUBSET Accounts]
    BY DEF TypeInv, TypeOK
  <2> QED
    BY <1>1, <2>1, <2>2 DEF Promise!AccountNext, Promise!Void
<1>2. CASE lapses' = {}
  <2>1. lapses = {}
    BY <1>2, LapsesStay
  <2>2. BooksInv /\ TradersInv /\ RequestsInv
    BY <2>1 DEF SafeInv
  <2>3. ASSUME book' = book, Selected' = Selected PROVE Step
    BY <1>2, <2>1, <2>3 DEF Promise!accountVars
  <2>4. ASSUME mode' = mode, venue' = venue PROVE Selected' = Selected
    BY <2>4 DEF Selected
  <2>5. ASSUME OpenRows = {}, book' = book PROVE Step
    <3>1. \A r \in Rows : book[r] = {}
      BY <2>5 DEF OpenRows
    <3>2. Selected' \in Accounts
      BY DEF TypeInv, TypeOK, Selected, Accounts, Modes, RealModes
    <3> QED
      BY <1>2, <2>1, <2>5, <3>1, <3>2 DEF Promise!AccountNext, Promise!Select
  <2>6. ASSUME NEW t \in Traders, Trade(t) PROVE Step
    <3>1. mode' = mode /\ venue' = venue
      BY <2>6 DEF Trade, ReadMode, ResolveCached, ResolveBuilt, FallBack, GiveUp, Fill
    <3>2. ASSUME NEW r \in Rows, NEW closes \in BOOLEAN, NEW more \in BOOLEAN,
                 Fill(t, r, closes, more)
          PROVE  Step
      <4>1. acct[t] = Selected
        BY <2>2, <3>2 DEF Fill, TradersInv
      <4>2. \/ book' = [book EXCEPT ![r] = {}]
            \/ book' = [book EXCEPT ![r] = book[r] \cup {Selected}]
        BY <3>2, <4>1 DEF Fill
      <4>3. Promise!FillHere(r)
        BY <1>2, <2>1, <2>4, <3>1, <4>2 DEF Promise!FillHere
      <4> QED
        BY <4>3 DEF Promise!AccountNext
    <3>3. CASE ReadMode(t) \/ ResolveCached(t) \/ ResolveBuilt(t) \/ FallBack(t) \/ GiveUp(t)
      <4>1. book' = book
        BY <3>3 DEF ReadMode, ResolveCached, ResolveBuilt, FallBack, GiveUp
      <4> QED
        BY <2>3, <2>4, <3>1, <4>1
    <3> QED
      BY <2>6, <3>2, <3>3 DEF Trade
  <2>7. ASSUME NEW a \in Admins, Change(a) PROVE Step
    <3>1. book' = book
      BY <2>7 DEF Change, AskMode, AskVenue, AskKeys, Ask, CommitMode, CommitVenue, CommitKey
    <3>2. CASE CommitMode(a)
      <4>1. OpenRows = {}
        BY <2>2, <3>2 DEF CommitMode, RequestsInv
      <4> QED
        BY <2>5, <3>1, <4>1
    <3>3. CASE CommitVenue(a)
      <4>1. CASE asked[a].value = venue
        BY <2>3, <2>4, <3>1, <3>3, <4>1 DEF CommitVenue
      <4>2. CASE asked[a].value # venue
        <5>1. OpenRows = {}
          BY <2>2, <3>3, <4>2 DEF CommitVenue, RequestsInv
        <5> QED
          BY <2>5, <3>1, <5>1
      <4> QED
        BY <4>1, <4>2
    <3>4. CASE mode' = mode /\ venue' = venue
      BY <2>3, <2>4, <3>1, <3>4
    <3> QED
      BY <2>7, <3>2, <3>3, <3>4 DEF Change, AskMode, AskVenue, AskKeys, Ask, CommitKey
  <2>8. CASE Restart
    BY <2>3, <2>4, <2>8 DEF Restart
  <2>9. CASE UNCHANGED vars
    BY <2>3, <2>4, <2>9 DEF vars
  <2> QED
    BY <2>6, <2>7, <2>8, <2>9 DEF Next
<1> QED
  BY <1>1, <1>2

\* With every executor, request and credential of the code, the guards keep what they
\* promise until a settings request overlaps another thread or the simulator stands in:
\* one account is selected, every fill is one of it, and another one is selected only
\* while nothing is open.
THEOREM RoutingRefined == Spec => KeepsAccount
<1>1. Init => Promise!AccountInit
  <2> SUFFICES ASSUME Init PROVE Promise!AccountInit
    OBVIOUS
  <2>1. Selected \in Accounts
    BY TypeInit, SelectedIsAccount
  <2> QED
    BY <2>1 DEF Init, Promise!AccountInit
<1>2. Init => SafeInv
  BY DEF Init, SafeInv, BooksInv, TradersInv, RequestsInv, AskedAlone, Changing, Nothing
<1>3. TypeInv /\ TypeInv' /\ SafeInv /\ [Next]_vars => [Promise!AccountNext]_(Promise!accountVars)
  BY AccountStep
<1> QED
  BY <1>1, <1>2, <1>3, TypeInit, TypeStep, SafeStep, PTL
  DEF Spec, KeepsAccount, Promise!AccountSpec
=============================================================================
