--------------------------- MODULE OperatorProofs ---------------------------
(***************************************************************************)
(* Proofs about what an operator relies on: the requests and their gates    *)
(* (Access), the login limiter (LoginLimiter), the connections graph        *)
(* (Connections), the settings of the AI strategies                         *)
(* (AppSettings), the accounts (Accounting) and the drawdown halt           *)
(* (DrawdownHalt), and about the instance that puts them and the life of    *)
(* the engine beside each other (MCOperations), for every set of operators, *)
(* tokens, relations, providers, prices and budgets, and every value of the *)
(* bounds.  EngineLifecycleProofs has the part of the engine's life.        *)
(***************************************************************************)
EXTENDS MCOperations, EngineLifecycleProofs, SequenceTheorems, TLAPS

----------------------------------------------------------------------------
\* The access gate.

\* A request goes on with what the table gave its account when it began.
Accounted(r) ==
  LET q == requestAt[r] IN
  /\ q.pc = "issue" => q.by \in Present /\ vouched[r] = q.role
  /\ q.pc = "stamp" =>
       /\ q.by \in ApiTokens /\ apiToken[q.by].state # "none"
       /\ vouched[r] = apiToken[q.by].role
  /\ q.pc = "passed" => vouched[r] = "admin" /\ q.role = "admin"
  /\ q.pc = "commit" => vouched[r] = "admin" /\ q.target \in Present /\ q.writes \subseteq q.asks

AccessInv == AccessTypeOK /\ \A r \in Requests : Accounted(r)

\* One thread moves; rows are kept, and so are API tokens with their role.
OneMoves(r) ==
  /\ \A s \in Requests \ {r} : requestAt'[s] = requestAt[s] /\ vouched'[s] = vouched[s]
  /\ Present \subseteq Present'
  /\ \A k \in ApiTokens : apiToken[k].state # "none" =>
       apiToken'[k].state # "none" /\ apiToken'[k].role = apiToken[k].role

LEMMA OthersStay ==
  ASSUME AccessInv, NEW r \in Requests, OneMoves(r)
  PROVE  \A s \in Requests \ {r} : (Accounted(s))'
<1> SUFFICES ASSUME NEW s \in Requests \ {r} PROVE (Accounted(s))'
  OBVIOUS
<1>1. Accounted(s) /\ requestAt'[s] = requestAt[s] /\ vouched'[s] = vouched[s]
  BY DEF AccessInv, OneMoves
<1> QED
  BY <1>1 DEF Accounted, OneMoves

LEMMA StartTypes ==
  ASSUME AccessTypeOK, NEW r \in Requests,
         NEW pc \in {"idle", "issue", "stamp", "passed", "commit", "stream"},
         NEW account \in Operators \cup ApiTokens, NEW role \in Roles,
         NEW tableRole \in Roles \cup {"none"},
         Starts(r, pc, account, role, tableRole)
  PROVE  /\ requestAt' \in [Requests -> RequestStates]
         /\ vouched' \in [Requests -> Roles \cup {"none"}]
         /\ requestAt'[r].pc = pc /\ requestAt'[r].by = account /\ requestAt'[r].role = role
         /\ vouched'[r] = tableRole
         /\ \A s \in Requests \ {r} : requestAt'[s] = requestAt[s] /\ vouched'[s] = vouched[s]
<1> DEFINE q == [Idle EXCEPT !.pc = pc, !.by = account, !.role = role]
<1>1. q \in RequestStates /\ q.pc = pc /\ q.by = account /\ q.role = role
  BY SeededAssumption DEF Idle, RequestStates
<1>2. requestAt' = [requestAt EXCEPT ![r] = q] /\ vouched' = [vouched EXCEPT ![r] = tableRole]
  BY DEF Starts
<1> HIDE DEF q
<1> QED
  BY <1>1, <1>2 DEF AccessTypeOK

LEMMA EndTypes ==
  ASSUME AccessTypeOK, NEW r \in Requests, Ends(r)
  PROVE  /\ requestAt' \in [Requests -> RequestStates]
         /\ vouched' \in [Requests -> Roles \cup {"none"}]
         /\ requestAt'[r].pc = "idle"
         /\ \A s \in Requests \ {r} : requestAt'[s] = requestAt[s] /\ vouched'[s] = vouched[s]
<1>1. Idle \in RequestStates /\ Idle.pc = "idle"
  BY SeededAssumption DEF Idle, RequestStates, Roles
<1>2. requestAt' = [requestAt EXCEPT ![r] = Idle] /\ vouched' = [vouched EXCEPT ![r] = "none"]
  BY DEF Ends
<1> QED
  BY <1>1, <1>2 DEF AccessTypeOK

\* A step that leaves the tables alone keeps the rows.
LEMMA TablesStay ==
  ASSUME UNCHANGED <<users, apiToken>>
  PROVE  /\ Present' = Present
         /\ \A k \in ApiTokens : apiToken'[k] = apiToken[k]
BY DEF Present

\* The requests that begin, and what they read of the table.
LEMMA BeginStep ==
  ASSUME AccessInv, NEW r \in Requests,
         \/ \E t \in tokens : RefreshReads(r, t) \/ PassWithJwt(r, t) \/ OpenStream(r, t)
         \/ \E k \in ApiTokens : ApiTokenReads(r, k)
         \/ \E u \in Operators : LoginReads(r, u)
  PROVE  AccessInv'
<1>1. AccessTypeOK /\ "none" \in Roles \cup {"none"}
  BY DEF AccessInv
<1>2. SUFFICES ASSUME UNCHANGED <<users, tokens, apiToken>>,
                      \E pc \in {"idle", "issue", "stamp", "passed", "commit", "stream"},
                         a \in Operators \cup ApiTokens,
                         role \in Roles, given \in Roles \cup {"none"} :
                        /\ Starts(r, pc, a, role, given)
                        /\ pc \in {"issue", "stamp", "passed", "stream"}
                        /\ pc = "issue" => a \in Present /\ given = role
                        /\ pc = "stamp" => /\ a \in ApiTokens /\ apiToken[a].state # "none"
                                           /\ given = apiToken[a].role
                        /\ pc = "passed" => role = "admin" /\ given = "admin"
               PROVE  AccessInv'
  <2>1. ASSUME NEW u, IsActive(u) PROVE u \in Present /\ u \in Operators /\ users[u].role \in Roles
    BY <1>1, <2>1 DEF IsActive, AccessTypeOK, UserRows
  <2>2. ASSUME NEW t \in tokens PROVE t.sub \in Operators /\ t.role \in Roles
    BY <1>1 DEF AccessTypeOK, Jwts
  <2>3. ASSUME NEW k \in ApiTokens, ApiTokenReads(r, k) PROVE AccessInv'
    <3>1. apiToken[k].role \in Roles /\ apiToken[k].state # "none"
      BY <1>1, <2>3 DEF ApiTokenReads, AccessTypeOK, ApiTokenRows
    <3> QED
      BY <1>2, <2>3, <3>1 DEF ApiTokenReads
  <2>4. ASSUME NEW u \in Operators, LoginReads(r, u) PROVE AccessInv'
    BY <1>2, <2>1, <2>4 DEF LoginReads
  <2>5. ASSUME NEW t \in tokens, RefreshReads(r, t) PROVE AccessInv'
    BY <1>2, <2>1, <2>5 DEF RefreshReads
  <2>6. ASSUME NEW t \in tokens, PassWithJwt(r, t) PROVE AccessInv'
    BY <1>2, <2>1, <2>6 DEF PassWithJwt, RoleOf
  <2>7. ASSUME NEW t \in tokens, OpenStream(r, t) PROVE AccessInv'
    BY <1>1, <1>2, <2>2, <2>7 DEF OpenStream, RoleClaimed
  <2> QED
    BY <2>3, <2>4, <2>5, <2>6, <2>7
<1>3. PICK pc \in {"idle", "issue", "stamp", "passed", "commit", "stream"},
           a \in Operators \cup ApiTokens, role \in Roles, given \in Roles \cup {"none"} :
             /\ Starts(r, pc, a, role, given)
             /\ pc \in {"issue", "stamp", "passed", "stream"}
             /\ pc = "issue" => a \in Present /\ given = role
             /\ pc = "stamp" => /\ a \in ApiTokens /\ apiToken[a].state # "none"
                                /\ given = apiToken[a].role
             /\ pc = "passed" => role = "admin" /\ given = "admin"
  BY <1>2
<1>4. /\ requestAt' \in [Requests -> RequestStates] /\ vouched' \in [Requests -> Roles \cup {"none"}]
      /\ requestAt'[r].pc = pc /\ requestAt'[r].by = a /\ requestAt'[r].role = role
      /\ vouched'[r] = given
      /\ \A s \in Requests \ {r} : requestAt'[s] = requestAt[s] /\ vouched'[s] = vouched[s]
  BY <1>1, <1>3, StartTypes
<1>5. Present' = Present /\ \A k \in ApiTokens : apiToken'[k] = apiToken[k]
  BY <1>2, TablesStay
<1>6. (Accounted(r))'
  BY <1>3, <1>4, <1>5 DEF Accounted
<1>7. \A s \in Requests \ {r} : (Accounted(s))'
  BY <1>4, <1>5, OthersStay DEF OneMoves
<1>8. AccessTypeOK'
  BY <1>1, <1>2, <1>4, <1>5 DEF AccessTypeOK
<1> QED
  BY <1>6, <1>7, <1>8 DEF AccessInv

\* The requests that go on or end with the tables as they are.
LEMMA GoOnStep ==
  ASSUME AccessInv, NEW r \in Requests,
         \/ IssuePair(r) \/ PassWithApiToken(r) \/ RequestEnds(r)
         \/ \E u \in Operators, patch \in Patches : LoadUser(r, u, patch)
  PROVE  AccessInv'
<1>1. AccessTypeOK /\ Accounted(r) /\ UNCHANGED <<users, apiToken>>
      /\ requestAt[r] \in RequestStates
  BY DEF AccessInv, AccessTypeOK, IssuePair, PassWithApiToken, RequestEnds, LoadUser
<1>2. Present' = Present /\ \A k \in ApiTokens : apiToken'[k] = apiToken[k]
  BY <1>1, TablesStay
<1>3. ASSUME Ends(r), tokens' \subseteq Jwts, \A t \in tokens' : t.sub \in Present PROVE AccessInv'
  <2>1. /\ requestAt' \in [Requests -> RequestStates] /\ vouched' \in [Requests -> Roles \cup {"none"}]
        /\ requestAt'[r].pc = "idle"
        /\ \A s \in Requests \ {r} : requestAt'[s] = requestAt[s] /\ vouched'[s] = vouched[s]
    BY <1>1, <1>3, EndTypes
  <2>2. (Accounted(r))'
    BY <2>1 DEF Accounted
  <2>3. \A s \in Requests \ {r} : (Accounted(s))'
    BY <1>2, <2>1, OthersStay DEF OneMoves
  <2>4. AccessTypeOK'
    BY <1>1, <1>2, <1>3, <2>1 DEF AccessTypeOK
  <2> QED
    BY <2>2, <2>3, <2>4 DEF AccessInv
<1>4. CASE IssuePair(r)
  <2>1. requestAt[r].by \in Present /\ requestAt[r].by \in Operators /\ requestAt[r].role \in Roles
    BY <1>1, <1>4 DEF IssuePair, Accounted, AccessTypeOK, RequestStates
  <2>2. \A t \in TokenPair(requestAt[r].by, requestAt[r].role) : t \in Jwts /\ t.sub = requestAt[r].by
    BY <2>1 DEF TokenPair, Jwts, Roles
  <2>3. tokens' \subseteq Jwts /\ \A t \in tokens' : t.sub \in Present
    BY <1>1, <1>4, <2>1, <2>2 DEF IssuePair, AccessTypeOK
  <2> QED
    BY <1>3, <1>4, <2>3 DEF IssuePair
<1>5. CASE RequestEnds(r)
  BY <1>1, <1>3, <1>5 DEF RequestEnds, AccessTypeOK
<1>6. ASSUME NEW q \in RequestStates, requestAt' = [requestAt EXCEPT ![r] = q],
             q.pc \in {"passed", "commit"}, UNCHANGED <<vouched, tokens>>, vouched[r] = "admin",
             q.role = "admin",
             q.pc = "commit" => q.target \in Present /\ q.writes \subseteq q.asks
      PROVE  AccessInv'
  <2>1. requestAt' \in [Requests -> RequestStates] /\ requestAt'[r] = q
        /\ \A s \in Requests \ {r} : requestAt'[s] = requestAt[s] /\ vouched'[s] = vouched[s]
    BY <1>1, <1>6 DEF AccessTypeOK
  <2>2. (Accounted(r))'
    BY <1>2, <1>6, <2>1 DEF Accounted
  <2>3. \A s \in Requests \ {r} : (Accounted(s))'
    BY <1>2, <2>1, OthersStay DEF OneMoves
  <2>4. AccessTypeOK'
    BY <1>1, <1>2, <1>6, <2>1 DEF AccessTypeOK
  <2> QED
    BY <2>2, <2>3, <2>4 DEF AccessInv
<1>7. CASE PassWithApiToken(r)
  <2> DEFINE role == apiToken[requestAt[r].by].role
  <2>1. vouched[r] = role /\ requestAt[r].pc = "stamp"
    BY <1>1, <1>7 DEF PassWithApiToken, Accounted
  <2>2. CASE role # "admin"
    BY <1>1, <1>3, <1>7, <2>2 DEF PassWithApiToken, AccessTypeOK
  <2>3. CASE role = "admin"
    <3> DEFINE q == [requestAt[r] EXCEPT !.pc = "passed", !.role = "admin"]
    <3>1. q \in RequestStates /\ q.pc = "passed" /\ q.role = "admin"
      BY <1>1 DEF RequestStates, Roles
    <3>2. /\ requestAt' = [requestAt EXCEPT ![r] = q] /\ UNCHANGED <<vouched, tokens>>
          /\ vouched[r] = "admin"
      BY <1>7, <2>1, <2>3 DEF PassWithApiToken
    <3> HIDE DEF q
    <3> QED
      BY <1>6, <3>1, <3>2
  <2> QED
    BY <2>2, <2>3
<1>8. ASSUME NEW u \in Operators, NEW patch \in Patches, LoadUser(r, u, patch) PROVE AccessInv'
  <2> DEFINE writes == ChangedColumns(LoadedRow(r, u), patch)
             q == [Idle EXCEPT !.pc = "commit", !.role = "admin", !.target = u, !.asks = patch,
                               !.writes = writes]
  <2>1. patch \in SUBSET Changes /\ writes \subseteq patch
    BY PatchesAssumption DEF ChangedColumns
  <2> HIDE DEF writes
  <2>2. /\ q \in RequestStates /\ q.pc = "commit" /\ q.role = "admin"
        /\ q.target = u /\ q.writes = writes /\ q.asks = patch
    BY <2>1, SeededAssumption DEF Idle, RequestStates, Roles
  <2>3. /\ requestAt' = [requestAt EXCEPT ![r] = q] /\ UNCHANGED <<vouched, tokens>>
        /\ u \in Present /\ vouched[r] = "admin"
    BY <1>1, <1>8 DEF LoadUser, Administered, Accounted, writes
  <2> HIDE DEF q
  <2> QED
    BY <1>6, <2>1, <2>2, <2>3
<1> QED
  BY <1>4, <1>5, <1>7, <1>8

\* What is committed of a row: typed, and of the columns that were asked for.
LEMMA AppliedFacts ==
  ASSUME NEW row \in UserRows, NEW asked, NEW c \in SUBSET asked
  PROVE  /\ Applied(row, c) \in UserRows
         /\ Applied(row, c).active # row.active =>
              (IF Applied(row, c).active THEN "on" ELSE "off") \in asked
         /\ Applied(row, c).role # row.role => Applied(row, c).role \in asked
<1>1. row.active \in BOOLEAN /\ row.role \in Roles
  BY DEF UserRows
<1>2. Applied(row, c) \in UserRows
  BY <1>1 DEF Applied, UserRows, Roles
<1>3. Applied(row, c).active = ("on" \in c \/ (row.active /\ "off" \notin c))
  BY DEF Applied
<1>4. Applied(row, c).role = IF "admin" \in c THEN "admin" ELSE IF "user" \in c THEN "user" ELSE row.role
  BY DEF Applied
<1> QED
  BY <1>1, <1>2, <1>3, <1>4

\* A step of the property.
FollowsTheTable ==
  /\ \A t \in tokens' \ tokens : t.type = "access" =>
       \E r \in Requests : requestAt[r].by = t.sub /\ EndsVouched(r, t.role)
  /\ <<users, apiToken>>' # <<users, apiToken>> =>
       \E r \in Requests : EndsVouched(r, "admin") /\
         \A u \in Present : u \in Present' /\
           (users'[u] # users[u] =>
              requestAt[r].target = u /\ AsAsked(u, requestAt[r].asks))
  /\ \A k \in ApiTokens : apiToken[k].state = "revoked" => apiToken'[k] = apiToken[k]

\* A request that ends with a change of the tables: what it has to keep.
LEMMA CommitStep ==
  ASSUME AccessInv, NEW r \in Requests, Ends(r), UNCHANGED tokens,
         requestAt[r].pc \in {"passed", "commit"},
         Present \subseteq Present', Present' \subseteq Operators,
         users' \in [Present' -> UserRows], apiToken' \in [ApiTokens -> ApiTokenRows],
         \A k \in ApiTokens : apiToken[k].state # "none" =>
           apiToken'[k].state # "none" /\ apiToken'[k].role = apiToken[k].role,
         \A k \in ApiTokens : apiToken[k].state = "revoked" => apiToken'[k].state = "revoked",
         \A u \in Present : users'[u] # users[u] =>
           requestAt[r].target = u /\ AsAsked(u, requestAt[r].asks)
  PROVE  AccessInv' /\ FollowsTheTable
<1>1. AccessTypeOK /\ vouched[r] = "admin"
  BY DEF AccessInv, Accounted
<1>2. /\ requestAt' \in [Requests -> RequestStates] /\ vouched' \in [Requests -> Roles \cup {"none"}]
      /\ requestAt'[r].pc = "idle"
      /\ \A s \in Requests \ {r} : requestAt'[s] = requestAt[s] /\ vouched'[s] = vouched[s]
  BY <1>1, EndTypes
<1>3. (Accounted(r))'
  BY <1>2 DEF Accounted
<1>4. \A s \in Requests \ {r} : (Accounted(s))'
  BY <1>2, OthersStay DEF OneMoves
<1>5. AccessTypeOK'
  BY <1>1, <1>2 DEF AccessTypeOK
<1>6. EndsVouched(r, "admin")
  BY <1>1, <1>2 DEF EndsVouched
<1>7. \A k \in ApiTokens : apiToken[k].state = "revoked" => apiToken'[k] = apiToken[k]
  BY <1>1 DEF AccessTypeOK, ApiTokenRows
<1> QED
  BY <1>3, <1>4, <1>5, <1>6, <1>7 DEF AccessInv, FollowsTheTable

LEMMA AdminStep ==
  ASSUME AccessInv, NEW r \in Requests,
         \/ CommitUser(r)
         \/ \E u \in Operators, role \in Roles : CreateUser(r, u, role)
         \/ \E k \in ApiTokens : \/ RevokeApiToken(r, k)
                                \/ \E role \in Roles : CreateApiToken(r, k, role)
  PROVE  AccessInv' /\ FollowsTheTable
<1>1. AccessTypeOK /\ Accounted(r) /\ requestAt[r] \in RequestStates
  BY DEF AccessInv, AccessTypeOK
<1>2. /\ users \in [Present -> UserRows] /\ Present \subseteq Operators
      /\ apiToken \in [ApiTokens -> ApiTokenRows]
  BY <1>1 DEF AccessTypeOK
<1>3. CASE CommitUser(r)
  <2> DEFINE u == requestAt[r].target
             c == requestAt[r].writes
             asked == requestAt[r].asks
             row == Applied(users[u], c)
  <2>1. /\ u \in Present /\ c \subseteq asked /\ Ends(r) /\ UNCHANGED <<tokens, apiToken>>
        /\ users' = [users EXCEPT ![u] = row] /\ requestAt[r].pc = "commit"
    BY <1>1, <1>3 DEF CommitUser, Accounted
  <2> HIDE DEF u, c, asked
  <2>2. /\ row \in UserRows
        /\ row.active # users[u].active => (IF row.active THEN "on" ELSE "off") \in asked
        /\ row.role # users[u].role => row.role \in asked
    BY <1>2, <2>1, AppliedFacts
  <2> HIDE DEF row
  <2>3. /\ Present' = Present /\ users' \in [Present' -> UserRows] /\ users'[u] = row
        /\ \A v \in Present : v # u => users'[v] = users[v]
    BY <1>2, <2>1, <2>2 DEF Present
  <2>4. AsAsked(u, asked)
    BY <2>2, <2>3 DEF AsAsked
  <2>5. \A v \in Present : users'[v] # users[v] =>
          requestAt[r].target = v /\ AsAsked(v, requestAt[r].asks)
    BY <2>3, <2>4 DEF u, asked
  <2> QED
    BY <1>2, <2>1, <2>3, <2>5, CommitStep
<1>4. ASSUME NEW u \in Operators, NEW role \in Roles, CreateUser(r, u, role)
      PROVE  AccessInv' /\ FollowsTheTable
  <2>1. [active |-> TRUE, role |-> role] \in UserRows
    BY DEF UserRows
  <2>2. /\ users' = [v \in Present \cup {u} |->
                       IF v = u THEN [active |-> TRUE, role |-> role] ELSE users[v]]
        /\ u \notin Present /\ Ends(r) /\ UNCHANGED <<tokens, apiToken>>
        /\ requestAt[r].pc = "passed"
    BY <1>4 DEF CreateUser, Administered
  <2>3. /\ Present' = Present \cup {u} /\ users' \in [Present' -> UserRows]
        /\ \A v \in Present : users'[v] = users[v]
    BY <1>2, <2>1, <2>2 DEF Present
  <2> QED
    BY <1>2, <2>2, <2>3, CommitStep
<1>5. ASSUME NEW k \in ApiTokens, NEW row \in ApiTokenRows, Ends(r), UNCHANGED <<users, tokens>>,
             requestAt[r].pc = "passed", apiToken' = [apiToken EXCEPT ![k] = row],
             row.state # "none", apiToken[k].state # "none" => row.role = apiToken[k].role,
             apiToken[k].state = "revoked" => row.state = "revoked"
      PROVE  AccessInv' /\ FollowsTheTable
  <2>1. /\ Present' = Present /\ users' \in [Present' -> UserRows]
        /\ apiToken' \in [ApiTokens -> ApiTokenRows] /\ apiToken'[k] = row
        /\ \A j \in ApiTokens : j # k => apiToken'[j] = apiToken[j]
    BY <1>2, <1>5 DEF Present
  <2> QED
    BY <1>2, <1>5, <2>1, CommitStep
<1>6. ASSUME NEW k \in ApiTokens, RevokeApiToken(r, k) PROVE AccessInv' /\ FollowsTheTable
  <2>1. [state |-> "revoked", role |-> apiToken[k].role] \in ApiTokenRows
    BY <1>2 DEF ApiTokenRows
  <2> QED
    BY <1>5, <1>6, <2>1 DEF RevokeApiToken, Administered
<1>7. ASSUME NEW k \in ApiTokens, NEW role \in Roles, CreateApiToken(r, k, role)
      PROVE  AccessInv' /\ FollowsTheTable
  <2>1. [state |-> "live", role |-> role] \in ApiTokenRows
    BY DEF ApiTokenRows
  <2> QED
    BY <1>5, <1>7, <2>1 DEF CreateApiToken, Administered
<1> QED
  BY <1>3, <1>4, <1>6, <1>7

LEMMA AccessInvStep == AccessInv /\ [AccessNext]_accessVars => AccessInv'
<1> SUFFICES ASSUME AccessInv, [AccessNext]_accessVars PROVE AccessInv'
  OBVIOUS
<1>1. ASSUME NEW t \in tokens, Expire(t) PROVE AccessInv'
  BY <1>1 DEF Expire, AccessInv, AccessTypeOK, Accounted, Present
<1>2. CASE UNCHANGED accessVars
  BY <1>2 DEF accessVars, AccessInv, AccessTypeOK, Accounted, Present
<1> QED
  BY <1>1, <1>2, BeginStep, GoOnStep, AdminStep DEF AccessNext

LEMMA TableStep == AccessInv /\ AccessNext => FollowsTheTable
<1> SUFFICES ASSUME AccessInv, AccessNext PROVE FollowsTheTable
  OBVIOUS
<1>1. ASSUME UNCHANGED <<users, apiToken>>, tokens' \subseteq tokens PROVE FollowsTheTable
  BY <1>1 DEF FollowsTheTable
<1>2. ASSUME NEW r \in Requests, IssuePair(r) PROVE FollowsTheTable
  <2> DEFINE pair == TokenPair(requestAt[r].by, requestAt[r].role)
  <2>1. \A t \in pair : t.type = "access" =>
          t.sub = requestAt[r].by /\ t.role = requestAt[r].role
    BY DEF TokenPair
  <2>2. vouched[r] = requestAt[r].role /\ requestAt[r].pc = "issue" /\ Ends(r)
        /\ tokens' = tokens \cup pair /\ UNCHANGED <<users, apiToken>>
    BY <1>2 DEF IssuePair, AccessInv, Accounted
  <2>3. requestAt'[r].pc = "idle"
    BY <2>2, EndTypes DEF AccessInv
  <2> HIDE DEF pair
  <2> QED
    BY <2>1, <2>2, <2>3 DEF FollowsTheTable, EndsVouched
<1>3. ASSUME NEW t \in tokens, Expire(t) PROVE FollowsTheTable
  BY <1>1, <1>3 DEF Expire
<1>4. ASSUME NEW r \in Requests,
             \/ PassWithApiToken(r) \/ RequestEnds(r)
             \/ \E t \in tokens : RefreshReads(r, t) \/ PassWithJwt(r, t) \/ OpenStream(r, t)
             \/ \E k \in ApiTokens : ApiTokenReads(r, k)
             \/ \E u \in Operators : LoginReads(r, u) \/ \E patch \in Patches : LoadUser(r, u, patch)
      PROVE  FollowsTheTable
  <2>1. UNCHANGED <<users, tokens, apiToken>>
    BY <1>4 DEF PassWithApiToken, RequestEnds, RefreshReads, PassWithJwt, OpenStream,
                ApiTokenReads, LoginReads, LoadUser
  <2> QED
    BY <1>1, <2>1
<1> QED
  BY <1>2, <1>3, <1>4, AdminStep DEF AccessNext

LEMMA AccessStarts == AccessInit => AccessInv
<1> SUFFICES ASSUME AccessInit PROVE AccessInv
  OBVIOUS
<1> USE SeededAssumption DEF AccessInit
<1>1. Present = {Admin} /\ users \in [Present -> UserRows]
  BY DEF Present, UserRows, Roles
<1>2. Idle \in RequestStates /\ Idle.pc = "idle"
  BY DEF Idle, RequestStates, Roles
<1>3. apiToken \in [ApiTokens -> ApiTokenRows]
  BY DEF ApiTokenRows, Roles
<1> QED
  BY <1>1, <1>2, <1>3 DEF AccessInv, AccessTypeOK, Accounted

\* The tables and the threads keep their types, and no token is of a name the user
\* table does not have.
THEOREM AccessTypesHold == AccessSpec => []AccessTypeOK
<1>1. AccessInv => AccessTypeOK
  BY DEF AccessInv
<1> QED
  BY <1>1, AccessStarts, AccessInvStep, PTL DEF AccessSpec

\* For any number of requests, operators and tokens: an access token is issued with a
\* role the table gave its owner when the request began, the tables change only by the
\* request of an account that was an admin then, in the columns it asked for, and a
\* revoked API token stays revoked.
THEOREM TablesAreFollowed == AccessSpec => RequestsFollowTheTable
<1>1. AccessInv /\ [AccessNext]_accessVars => [FollowsTheTable]_accessVars
  BY TableStep
<1>2. AccessSpec => [](AccessInv)
  BY AccessStarts, AccessInvStep, PTL DEF AccessSpec
<1>3. RequestsFollowTheTable <=> [][FollowsTheTable]_accessVars
  BY DEF RequestsFollowTheTable, FollowsTheTable
<1> QED
  BY <1>1, <1>2, <1>3, PTL DEF AccessSpec

LEMMA LoginStep == LoginTypeOK /\ [LoginNext]_loginVars => LoginTypeOK'
<1> SUFFICES ASSUME LoginTypeOK, [LoginNext]_loginVars PROVE LoginTypeOK'
  OBVIOUS
<1> USE AttemptsAssumption
<1>1. NoLogin \in LoginStates /\ NoEntry \in Entries
  <2>1. 0 \in 0..MaxCount
    BY SMT
  <2> QED
    BY <2>1, NamesAssumption DEF NoLogin, NoEntry, LoginStates, Entries, Untils
<1>2. ASSUME NEW l \in Logins, NEW u \in LoginNames, NEW e \in Entries,
             e.until # "unset" <=> e.count >= MaxAttempts,
             attempts' = [attempts EXCEPT ![u] = e],
             loginAt' \in [Logins -> LoginStates]
      PROVE  LoginTypeOK'
  <2>1. attempts' \in [LoginNames -> Entries]
        /\ \A v \in LoginNames : attempts'[v] = IF v = u THEN e ELSE attempts[v]
    BY <1>2 DEF LoginTypeOK
  <2>2. \A v \in LoginNames : attempts'[v].until # "unset" <=> attempts'[v].count >= MaxAttempts
    BY <1>2, <2>1 DEF LoginTypeOK
  <2> QED
    BY <1>2, <2>1, <2>2 DEF LoginTypeOK
<1>3. ASSUME NEW l \in Logins, NEW q \in LoginStates, loginAt' = [loginAt EXCEPT ![l] = q]
      PROVE  loginAt' \in [Logins -> LoginStates]
  BY <1>3 DEF LoginTypeOK
<1>4. ASSUME NEW l \in Logins
      PROVE  /\ loginAt[l].name \in LoginNames /\ loginAt[l].count \in 0..MaxCount
             /\ attempts[loginAt[l].name] \in Entries
  BY DEF LoginTypeOK, LoginStates
<1>5. ASSUME NEW l \in Logins, NEW u \in LoginNames, NotLocked(l, u) PROVE LoginTypeOK'
  <2>1. [pc |-> "check", name |-> u, count |-> 0] \in LoginStates
    <3>1. 0 \in 0..MaxCount
      BY SMT
    <3> QED
      BY <3>1 DEF LoginStates
  <2> QED
    BY <1>3, <1>5, <2>1 DEF NotLocked, LoginTypeOK
<1>6. ASSUME NEW l \in Logins, LoginSucceeds(l) PROVE LoginTypeOK'
  <2>1. NoEntry.until # "unset" <=> NoEntry.count >= MaxAttempts
    BY SMT DEF NoEntry
  <2>2. loginAt' \in [Logins -> LoginStates]
    BY <1>1, <1>3, <1>6 DEF LoginSucceeds
  <2> QED
    BY <1>1, <1>2, <1>4, <1>6, <2>1, <2>2 DEF LoginSucceeds
<1>7. ASSUME NEW l \in Logins, CountFailure(l) PROVE LoginTypeOK'
  <2>1. [pc |-> "write", name |-> loginAt[l].name, count |-> attempts[loginAt[l].name].count]
          \in LoginStates
    BY <1>4 DEF LoginStates, Entries
  <2> QED
    BY <1>3, <1>7, <2>1 DEF CountFailure, LoginTypeOK
<1>8. ASSUME NEW l \in Logins, RecordFailure(l) PROVE LoginTypeOK'
  <2> DEFINE n == loginAt[l].count + 1
             e == [count |-> n, until |-> IF n >= MaxAttempts THEN "ahead" ELSE "unset"]
  <2>1. n \in 0..MaxCount
    BY <1>4, <1>8, SMT DEF RecordFailure
  <2>2. attempts' = [attempts EXCEPT ![loginAt[l].name] = e]
    BY <1>8 DEF RecordFailure
  <2> HIDE DEF n
  <2>3. e \in Entries /\ (e.until # "unset" <=> e.count >= MaxAttempts)
    BY <2>1 DEF Entries, Untils
  <2>4. loginAt' \in [Logins -> LoginStates]
    BY <1>1, <1>3, <1>8 DEF RecordFailure
  <2> HIDE DEF e
  <2> QED
    BY <1>2, <1>4, <2>2, <2>3, <2>4
<1>9. ASSUME NEW u \in LoginNames, LockoutEnds(u) PROVE LoginTypeOK'
  <2> DEFINE e == [count |-> attempts[u].count, until |-> "past"]
  <2>1. attempts[u] \in Entries /\ attempts[u].count >= MaxAttempts
    BY <1>9 DEF LockoutEnds, LoginTypeOK
  <2>2. e \in Entries /\ (e.until # "unset" <=> e.count >= MaxAttempts)
    BY <2>1 DEF Entries, Untils
  <2>3. attempts' = [attempts EXCEPT ![u] = e] /\ loginAt' = loginAt
    BY <1>9 DEF LockoutEnds
  <2> HIDE DEF e
  <2>4. attempts' \in [LoginNames -> Entries]
        /\ \A v \in LoginNames : attempts'[v] = IF v = u THEN e ELSE attempts[v]
    BY <2>2, <2>3 DEF LoginTypeOK
  <2> QED
    BY <2>2, <2>3, <2>4 DEF LoginTypeOK
<1>10. CASE UNCHANGED loginVars
  BY <1>10 DEF loginVars, LoginTypeOK
<1> QED
  BY <1>5, <1>6, <1>7, <1>8, <1>9, <1>10 DEF LoginNext

\* For any limit and any number of logins that interleave: a name is locked out, or was
\* since its last failure, exactly when its count has reached the limit.
THEOREM LoginTypesHold == LoginSpec => []LoginTypeOK
<1>1. LoginInit => LoginTypeOK
  <2>1. 0 \in 0..MaxCount /\ ~(0 >= MaxAttempts)
    BY AttemptsAssumption, SMT
  <2> QED
    BY <2>1, NamesAssumption
    DEF LoginInit, NoEntry, NoLogin, LoginTypeOK, Entries, LoginStates, Untils
<1> QED
  BY <1>1, LoginStep, PTL DEF LoginSpec

----------------------------------------------------------------------------
\* The connections graph.

LEMMA GraphStep ==
  (word \in [Relations -> {"none", "approved", "deleted"}])
    /\ GraphKeepsOperatorsWord /\ [GraphNext]_graphVars
  => (word \in [Relations -> {"none", "approved", "deleted"}])' /\ GraphKeepsOperatorsWord'
<1> SUFFICES ASSUME word \in [Relations -> {"none", "approved", "deleted"}],
                    GraphKeepsOperatorsWord, [GraphNext]_graphVars
             PROVE  /\ word' \in [Relations -> {"none", "approved", "deleted"}]
                    /\ GraphKeepsOperatorsWord'
  OBVIOUS
<1> DEFINE Goal == /\ word' \in [Relations -> {"none", "approved", "deleted"}]
                   /\ GraphKeepsOperatorsWord'
<1>1. CASE UNCHANGED <<edges, word>>
  BY <1>1 DEF GraphKeepsOperatorsWord
<1>2. ASSUME NEW E, NEW state \in {"pending", "approved"}, edges' = With(E, state), word' = word,
             state = "approved" => E \subseteq SeedEdges
      PROVE  Goal
  <2>1. DOMAIN edges' = DOMAIN edges \cup E
    BY <1>2 DEF With
  <2>2. \A e \in DOMAIN edges : edges'[e] = edges[e]
    BY <1>2 DEF With
  <2>3. \A e \in E \ DOMAIN edges : edges'[e] = state
    BY <1>2 DEF With
  <2>4. ASSUME NEW e \in Relations
        PROVE  /\ word[e] = "approved" => e \in DOMAIN edges' /\ edges'[e] = "approved"
               /\ e \in DOMAIN edges' /\ edges'[e] = "approved" =>
                    e \in SeedEdges \/ word[e] = "approved"
    BY <1>2, <2>1, <2>2, <2>3 DEF GraphKeepsOperatorsWord
  <2> QED
    BY <1>2, <2>4 DEF GraphKeepsOperatorsWord
<1>3. ASSUME NEW n \in SeedNodes, SeedNode(n) PROVE Goal
  BY <1>1, <1>3 DEF SeedNode
<1>4. CASE SeedTheEdges
  BY <1>2, <1>4 DEF SeedTheEdges
<1>5. CASE SeedSkipped \/ GraphRestart \/ SuggestFails
  BY <1>1, <1>5 DEF SeedSkipped, GraphRestart, SuggestFails
<1>6. ASSUME NEW n \in Labels, NEW S \in SUBSET Relations, SuggestAnswered(n, S) PROVE Goal
  BY <1>1, <1>6 DEF SuggestAnswered
<1>7. ASSUME NEW e \in Relations, TakeItem(e) PROVE Goal
  <2>1. edges' = edges \/ edges' = With(added, "pending")
    BY <1>7 DEF TakeItem
  <2>2. word' = word
    BY <1>7 DEF TakeItem
  <2> QED
    BY <1>1, <1>2, <2>1, <2>2
<1>8. CASE KeepSuggestions
  BY <1>2, <1>8 DEF KeepSuggestions
<1>9. ASSUME NEW e \in Relations, ApproveEdge(e) PROVE Goal
  BY <1>9 DEF ApproveEdge, GraphKeepsOperatorsWord
<1>10. ASSUME NEW e \in Relations, DeleteEdge(e) PROVE Goal
  BY <1>10 DEF DeleteEdge, GraphKeepsOperatorsWord
<1>11. ASSUME NEW n \in Labels, CreateNode(n) PROVE Goal
  BY <1>1, <1>11 DEF CreateNode
<1>12. CASE UNCHANGED graphVars
  BY <1>1, <1>12 DEF graphVars
<1> QED
  BY <1>3, <1>4, <1>5, <1>6, <1>7, <1>8, <1>9, <1>10, <1>11, <1>12 DEF GraphNext

\* An edge the operator approved stays until the operator deletes it, and the graph
\* the prompts read has no edge but the seed's and those the operator approved.
THEOREM OperatorHasLastWord == GraphSpec => []GraphKeepsOperatorsWord
<1>1. GraphInit => /\ word \in [Relations -> {"none", "approved", "deleted"}]
                   /\ GraphKeepsOperatorsWord
  BY DEF GraphInit, GraphKeepsOperatorsWord
<1> QED
  BY <1>1, GraphStep, PTL DEF GraphSpec

\* The stored edges with more of the relations: in their domain, with one state for
\* the new ones.
LEMMA WithTypes ==
  ASSUME DOMAIN edges \subseteq Relations, \A e \in DOMAIN edges : edges[e] \in {"pending", "approved"},
         NEW E \in SUBSET Relations, NEW state \in {"pending", "approved"}
  PROVE  /\ DOMAIN With(E, state) = DOMAIN edges \cup E
         /\ DOMAIN With(E, state) \subseteq Relations
         /\ \A e \in DOMAIN With(E, state) : With(E, state)[e] \in {"pending", "approved"}
BY DEF With

LEMMA GraphTypes == GraphTypeOK /\ [GraphNext]_graphVars => GraphTypeOK'
<1> SUFFICES ASSUME GraphTypeOK, [GraphNext]_graphVars PROVE GraphTypeOK'
  OBVIOUS
<1> USE GraphAssumption
<1>0. /\ \A e \in Relations : EndsOf[e] \subseteq Labels
      /\ \A e \in SeedEdges : EndsOf[e] \subseteq SeedNodes
      /\ SeedNodes \subseteq Labels
  BY DEF Labels, SeedNodes
<1>1. ASSUME nodes' \subseteq Labels, nodes \subseteq nodes',
             UNCHANGED <<edges, word, added>>,
             booted' \in BOOLEAN, asking' \in BOOLEAN, asks' \in 0..MaxAsks, items' \subseteq Relations
      PROVE  GraphTypeOK'
  BY <1>1 DEF GraphTypeOK
\* A commit of the edges of E, the ends of which are stored.
<1>2. ASSUME NEW E \in SUBSET Relations, NEW state \in {"pending", "approved"},
             edges' = With(E, state), \A e \in E : EndsOf[e] \subseteq nodes',
             nodes' \subseteq Labels, nodes \subseteq nodes',
             added' \subseteq Relations, \A e \in added' : EndsOf[e] \subseteq nodes',
             UNCHANGED <<word, asks>>, booted' \in BOOLEAN, asking' \in BOOLEAN,
             items' \subseteq Relations
      PROVE  GraphTypeOK'
  <2>1. /\ DOMAIN edges' = DOMAIN edges \cup E /\ DOMAIN edges' \subseteq Relations
        /\ \A e \in DOMAIN edges' : edges'[e] \in {"pending", "approved"}
    BY <1>2, WithTypes DEF GraphTypeOK
  <2>2. \A e \in DOMAIN edges' \cup added' : EndsOf[e] \subseteq nodes'
    BY <1>2, <2>1 DEF GraphTypeOK
  <2> QED
    BY <1>2, <2>1, <2>2 DEF GraphTypeOK
<1>3. ASSUME NEW n \in SeedNodes, SeedNode(n) PROVE GraphTypeOK'
  BY <1>0, <1>1, <1>3 DEF SeedNode, suggestion, GraphTypeOK
<1>4. CASE SeedTheEdges
  <2>1. \A e \in SeedEdges : EndsOf[e] \subseteq nodes
    BY <1>0, <1>4 DEF SeedTheEdges
  <2>2. /\ UNCHANGED <<nodes, word, asks, asking, items, added>>
        /\ edges' = With(SeedEdges, "approved") /\ booted' = TRUE
    BY <1>4 DEF SeedTheEdges, suggestion
  <2> QED
    BY <1>2, <2>1, <2>2 DEF GraphTypeOK
<1>5. CASE SeedSkipped
  BY <1>1, <1>5 DEF SeedSkipped, suggestion, GraphTypeOK
<1>6. CASE GraphRestart \/ SuggestFails
  BY <1>6 DEF GraphRestart, SuggestFails, EndSuggest, GraphTypeOK
<1>7. ASSUME NEW n \in Labels, NEW S \in SUBSET Relations, SuggestAnswered(n, S) PROVE GraphTypeOK'
  <2>1. asks' \in 0..MaxAsks
    BY <1>7, SMT DEF SuggestAnswered, GraphTypeOK
  <2>2. asking' \in BOOLEAN
    BY <1>7 DEF SuggestAnswered
  <2>3. UNCHANGED <<nodes, edges, word, booted, added>> /\ items' = S
    BY <1>7 DEF SuggestAnswered
  <2> QED
    BY <1>1, <2>1, <2>2, <2>3 DEF GraphTypeOK
<1>8. ASSUME NEW e \in Relations, TakeItem(e) PROVE GraphTypeOK'
  <2> DEFINE new == EndsOf[e] \ nodes
  <2>1. /\ nodes' = nodes \cup new /\ EndsOf[e] \subseteq nodes' /\ nodes' \subseteq Labels
        /\ items' \subseteq Relations /\ UNCHANGED <<word, booted, asking, asks>>
    BY <1>0, <1>8 DEF TakeItem, GraphTypeOK
  <2>2. added' \subseteq added \cup {e}
    BY <1>8 DEF TakeItem
  <2>3. added' \subseteq Relations /\ \A f \in added' : EndsOf[f] \subseteq nodes'
    BY <2>1, <2>2 DEF GraphTypeOK
  <2>4. edges' = IF new = {} THEN edges ELSE With(added, "pending")
    BY <1>8 DEF TakeItem
  <2> HIDE DEF new
  <2>5. CASE new = {}
    BY <2>1, <2>3, <2>4, <2>5 DEF GraphTypeOK
  <2>6. CASE new # {}
    BY <1>2, <2>1, <2>3, <2>4, <2>6 DEF GraphTypeOK
  <2> QED
    BY <2>5, <2>6
<1>9. CASE KeepSuggestions
  BY <1>2, <1>9 DEF KeepSuggestions, EndSuggest, GraphTypeOK
<1>10. ASSUME NEW e \in Relations, ApproveEdge(e) PROVE GraphTypeOK'
  BY <1>10 DEF ApproveEdge, suggestion, GraphTypeOK
<1>11. ASSUME NEW e \in Relations, DeleteEdge(e) PROVE GraphTypeOK'
  BY <1>11 DEF DeleteEdge, suggestion, GraphTypeOK
<1>12. ASSUME NEW n \in Labels, CreateNode(n) PROVE GraphTypeOK'
  BY <1>1, <1>12 DEF CreateNode, suggestion, GraphTypeOK
<1>13. CASE UNCHANGED graphVars
  BY <1>13 DEF graphVars, suggestion, GraphTypeOK
<1> QED
  BY <1>3, <1>4, <1>5, <1>6, <1>7, <1>8, <1>9, <1>10, <1>11, <1>12, <1>13 DEF GraphNext

\* The graph keeps its types, and no stored edge, and none the request has added,
\* dangles: both its ends are stored, across crashes between their commits.
THEOREM GraphTypesHold == GraphSpec => []GraphTypeOK
<1>1. GraphInit => GraphTypeOK
  <2> SUFFICES ASSUME GraphInit PROVE GraphTypeOK
    OBVIOUS
  <2>1. DOMAIN edges = {} /\ added = {} /\ nodes = {} /\ items = {} /\ booted = FALSE /\ asking = FALSE
    BY DEF GraphInit
  <2>2. asks \in 0..MaxAsks
    BY GraphAssumption, SMT DEF GraphInit
  <2>3. word \in [Relations -> {"none", "approved", "deleted"}]
    BY DEF GraphInit
  <2> QED
    BY <2>1, <2>2, <2>3 DEF GraphTypeOK
<1> QED
  BY <1>1, GraphTypes, PTL DEF GraphSpec

----------------------------------------------------------------------------
\* The settings of an AI strategy.

\* What a request may save: a provider's credentials rows take what is that provider's.
PutRecords ==
  {r \in [row : RowNames, value : Values] :
     \A p \in Providers : r.row \in {KeyRow(p), UrlRow(p)} => r.value \in {p, Blank}}

RowsInv ==
  /\ rows \in [RowNames -> Values]
  /\ \A p \in Providers : rows[KeyRow(p)] \in {p, Blank} /\ rows[UrlRow(p)] \in {p, Blank}
  /\ puts \in Seq(PutRecords)

\* What the tick has read of a pin is what the pin says, while no pin was saved.
PinnedProvider == rows[<<"pin_provider">>] # Blank => cfg.provider = rows[<<"pin_provider">>]
PinnedModel == rows[<<"pin_model">>] # Blank => cfg.model = rows[<<"pin_model">>]

ReadInv ==
  /\ cfg \in [provider : Providers, model : Values, key : Values, url : Values]
  /\ resolvePc = "pin_model" /\ steady => PinnedProvider
  /\ resolvePc \in {"key", "url", "built"} /\ steady => PinnedProvider /\ PinnedModel
  /\ resolvePc \in {"url", "built"} => cfg.key \in {cfg.provider, Blank}
  /\ resolvePc = "built" => cfg.url \in {cfg.provider, Blank}

LEMMA RowsApart ==
  /\ \A k \in Globals \cup Pins : <<k>> \in RowNames
  /\ \A p \in Providers : KeyRow(p) \in RowNames /\ UrlRow(p) \in RowNames
  /\ \A p \in Providers : \A k : KeyRow(p) # <<k>> /\ UrlRow(p) # <<k>>
  /\ \A p, o \in Providers : KeyRow(p) # UrlRow(o)
  /\ \A p, o \in Providers : KeyRow(p) = KeyRow(o) \/ UrlRow(p) = UrlRow(o) => p = o
<1>1. \A p : Len(KeyRow(p)) = 2 /\ Len(UrlRow(p)) = 2
  BY SMT DEF KeyRow, UrlRow
<1>2. \A k : Len(<<k>>) = 1
  BY SMT
<1>3. \A p : \A k : KeyRow(p) # <<k>> /\ UrlRow(p) # <<k>>
  BY <1>1, <1>2, SMT
<1>4. \A p, o \in Providers : KeyRow(p) # UrlRow(o)
  BY SMT DEF KeyRow, UrlRow
<1>5. \A p, o \in Providers : KeyRow(p) = KeyRow(o) \/ UrlRow(p) = UrlRow(o) => p = o
  BY SMT DEF KeyRow, UrlRow
<1>6. \A k \in Globals \cup Pins : <<k>> \in RowNames
  BY DEF RowNames
<1>7. \A p \in Providers : KeyRow(p) \in RowNames /\ UrlRow(p) \in RowNames
  BY DEF RowNames
<1> QED
  BY <1>3, <1>4, <1>5, <1>6, <1>7

\* A value saved in a row that is no provider's credentials row.
LEMMA PlainPut ==
  ASSUME NEW k \in Globals \cup Pins, NEW v \in Values
  PROVE  Put(<<k>>, v) \in PutRecords
BY RowsApart DEF Put, PutRecords

LEMMA CredentialPut ==
  ASSUME NEW p \in Providers, NEW v \in {p, Blank}
  PROVE  Put(KeyRow(p), v) \in PutRecords /\ Put(UrlRow(p), v) \in PutRecords
<1>1. v \in Values
  BY DEF Values
<1> QED
  BY <1>1, RowsApart DEF Put, PutRecords

LEMMA UnlessBlank ==
  ASSUME NEW k, NEW v, Put(k, v) \in PutRecords
  PROVE  PutUnlessBlank(k, v) \in Seq(PutRecords)
BY DEF PutUnlessBlank

LEMMA RowsStep == RowsInv /\ [SettingsNext]_settingsVars => RowsInv'
<1> SUFFICES ASSUME RowsInv, [SettingsNext]_settingsVars PROVE RowsInv'
  OBVIOUS
<1>1. CASE UNCHANGED <<rows, puts>>
  BY <1>1 DEF RowsInv
<1>2. ASSUME NEW request \in Seq(PutRecords), Save(request) PROVE RowsInv'
  BY <1>2 DEF Save, RowsInv
<1>3. ASSUME NEW p \in Providers, NEW m \in {p, Blank}, UpdateAiModel(p, m) PROVE RowsInv'
  <2>1. Put(<<"pin_provider">>, p) \in PutRecords /\ Put(<<"pin_model">>, m) \in PutRecords
    BY PlainPut DEF Pins, Values
  <2>2. <<Put(<<"pin_provider">>, p), Put(<<"pin_model">>, m)>> \in Seq(PutRecords)
    BY <2>1
  <2> QED
    BY <1>2, <1>3, <2>2 DEF UpdateAiModel
<1>4. ASSUME NEW p \in Providers, NEW m \in {p, Blank}, NEW url \in {p, Blank},
             NEW key \in {p, Blank}, UpdateAiSettings(p, m, url, key)
      PROVE  RowsInv'
  <2> DEFINE three ==
        <<Put(<<"ai_provider">>, p), Put(<<"ai_model">>, m), Put(<<"ai_base_url">>, url)>>
  <2>1. /\ Put(<<"ai_provider">>, p) \in PutRecords /\ Put(<<"ai_model">>, m) \in PutRecords
        /\ Put(<<"ai_base_url">>, url) \in PutRecords
        /\ Put(<<"ai_api_key">>, key) \in PutRecords
    BY PlainPut DEF Globals, Values
  <2>2. three \in Seq(PutRecords) /\ PutUnlessBlank(<<"ai_api_key">>, key) \in Seq(PutRecords)
    BY <2>1, UnlessBlank
  <2>3. Save(three \o PutUnlessBlank(<<"ai_api_key">>, key))
    BY <1>4 DEF UpdateAiSettings
  <2> HIDE DEF three
  <2>4. three \o PutUnlessBlank(<<"ai_api_key">>, key) \in Seq(PutRecords)
    BY <2>2, SMT
  <2> QED
    BY <1>2, <2>3, <2>4
<1>5. ASSUME NEW p \in Providers, NEW url \in {p, Blank}, NEW key \in {p, Blank},
             UpdateLlmCredentials(p, key, url)
      PROVE  RowsInv'
  <2>1. /\ PutUnlessBlank(KeyRow(p), key) \in Seq(PutRecords)
        /\ PutUnlessBlank(UrlRow(p), url) \in Seq(PutRecords)
    BY CredentialPut, UnlessBlank
  <2>2. PutUnlessBlank(KeyRow(p), key) \o PutUnlessBlank(UrlRow(p), url) \in Seq(PutRecords)
    BY <2>1, SMT
  <2> QED
    BY <1>2, <1>5, <2>2 DEF UpdateLlmCredentials
<1>6. CASE CommitRow
  <2>1. Head(puts) \in PutRecords /\ Tail(puts) \in Seq(PutRecords)
    BY <1>6, SMT DEF CommitRow, RowsInv
  <2>2. Head(puts).row \in RowNames /\ Head(puts).value \in Values
        /\ \A p \in Providers :
             Head(puts).row \in {KeyRow(p), UrlRow(p)} => Head(puts).value \in {p, Blank}
    BY <2>1 DEF PutRecords
  <2>3. rows' \in [RowNames -> Values]
    BY <1>6, <2>2 DEF CommitRow, RowsInv
  <2>4. \A p \in Providers :
          rows'[KeyRow(p)] \in {p, Blank} /\ rows'[UrlRow(p)] \in {p, Blank}
    BY <1>6, <2>2, RowsApart DEF CommitRow, RowsInv
  <2> QED
    BY <1>6, <2>1, <2>3, <2>4 DEF CommitRow, RowsInv
<1>7. CASE SaveCutShort
  BY <1>7 DEF SaveCutShort, RowsInv
<1>8. CASE ReadGlobalProvider \/ ReadGlobalModel \/ ReadPinProvider \/ ReadPinModel
           \/ ReadKey \/ ReadBaseUrl \/ UseProvider
  BY <1>1, <1>8
  DEF ReadGlobalProvider, ReadGlobalModel, ReadPinProvider, ReadPinModel, ReadKey, ReadBaseUrl,
      UseProvider, Read
<1>9. CASE UNCHANGED settingsVars
  BY <1>1, <1>9 DEF settingsVars
<1> QED
  BY <1>3, <1>4, <1>5, <1>6, <1>7, <1>8, <1>9 DEF SettingsNext

\* The pin rows stay while they are not saved.
LEMMA CommitElsewhere ==
  ASSUME RowsInv, CommitRow, steady'
  PROVE  steady /\ \A k \in Pins : rows'[<<k>>] = rows[<<k>>]
BY RowsApart DEF CommitRow, RowsInv

LEMMA ReadStep == RowsInv /\ ReadInv /\ [SettingsNext]_settingsVars => ReadInv'
<1> SUFFICES ASSUME RowsInv, ReadInv, [SettingsNext]_settingsVars PROVE ReadInv'
  OBVIOUS
<1> USE ProvidersAssumption
<1>0. \A k \in Globals \cup Pins : rows[<<k>>] \in Values
  BY RowsApart DEF RowsInv
<1>1. CASE UNCHANGED <<rows, cfg, resolvePc, steady>>
  BY <1>1 DEF ReadInv, PinnedProvider, PinnedModel
<1>2. ASSUME NEW request, Save(request) PROVE ReadInv'
  BY <1>1, <1>2 DEF Save
<1>3. ASSUME NEW p \in Providers, NEW m \in {p, Blank}, UpdateAiModel(p, m) PROVE ReadInv'
  BY <1>2, <1>3 DEF UpdateAiModel
<1>4. ASSUME NEW p \in Providers, NEW m \in {p, Blank}, NEW url \in {p, Blank},
             NEW key \in {p, Blank}, UpdateAiSettings(p, m, url, key)
      PROVE  ReadInv'
  BY <1>2, <1>4 DEF UpdateAiSettings
<1>5. ASSUME NEW p \in Providers, NEW url \in {p, Blank}, NEW key \in {p, Blank},
             UpdateLlmCredentials(p, key, url)
      PROVE  ReadInv'
  BY <1>2, <1>5 DEF UpdateLlmCredentials
<1>6. CASE CommitRow
  <2>1. UNCHANGED <<cfg, resolvePc>>
    BY <1>6 DEF CommitRow
  <2>2. CASE steady'
    BY <1>6, <2>1, <2>2, CommitElsewhere DEF ReadInv, PinnedProvider, PinnedModel, Pins
  <2>3. CASE ~steady'
    BY <2>1, <2>3 DEF ReadInv
  <2> QED
    BY <2>2, <2>3
<1>7. CASE SaveCutShort
  BY <1>1, <1>7 DEF SaveCutShort
<1>8. CASE ReadGlobalProvider
  <2>1. Or(rows[<<"ai_provider">>], DefaultProvider) \in Providers
    BY <1>0 DEF Globals, Or, Values
  <2> QED
    BY <1>8, <2>1 DEF ReadGlobalProvider, Read, ReadInv
<1>9. CASE ReadGlobalModel
  <2>1. rows[<<"ai_model">>] \in Values
    BY <1>0 DEF Globals
  <2> QED
    BY <1>9, <2>1 DEF ReadGlobalModel, Read, ReadInv
<1>10. CASE ReadPinProvider
  <2>1. Or(rows[<<"pin_provider">>], cfg.provider) \in Providers
    BY <1>0 DEF Pins, Or, Values, ReadInv
  <2>2. rows' = rows /\ cfg' = [cfg EXCEPT !.provider = Or(rows[<<"pin_provider">>], cfg.provider)]
        /\ resolvePc' = "pin_model"
    BY <1>10 DEF ReadPinProvider, Read
  <2>3. cfg' \in [provider : Providers, model : Values, key : Values, url : Values] /\ PinnedProvider'
    BY <2>1, <2>2 DEF ReadInv, PinnedProvider, Or
  <2> QED
    BY <2>2, <2>3 DEF ReadInv
<1>11. CASE ReadPinModel
  <2>1. Or(rows[<<"pin_model">>], cfg.model) \in Values
    BY <1>0 DEF Pins, Or, ReadInv
  <2>2. rows' = rows /\ cfg' = [cfg EXCEPT !.model = Or(rows[<<"pin_model">>], cfg.model)]
        /\ resolvePc = "pin_model" /\ resolvePc' = "key" /\ steady' = steady
    BY <1>11 DEF ReadPinModel, Read
  <2>3. cfg' \in [provider : Providers, model : Values, key : Values, url : Values] /\ PinnedModel'
        /\ cfg'.provider = cfg.provider
    BY <2>1, <2>2 DEF ReadInv, PinnedModel, Or
  <2> QED
    BY <2>2, <2>3 DEF ReadInv, PinnedProvider
<1>12. CASE ReadKey
  <2>1. rows' = rows /\ cfg' = [cfg EXCEPT !.key = rows[KeyRow(cfg.provider)]]
        /\ resolvePc = "key" /\ resolvePc' = "url" /\ steady' = steady
    BY <1>12 DEF ReadKey, Read
  <2>2. rows[KeyRow(cfg.provider)] \in {cfg.provider, Blank} /\ cfg.provider \in Providers
    BY DEF RowsInv, ReadInv
  <2>3. /\ cfg' \in [provider : Providers, model : Values, key : Values, url : Values]
        /\ cfg'.provider = cfg.provider /\ cfg'.model = cfg.model
        /\ cfg'.key \in {cfg.provider, Blank}
    BY <2>1, <2>2 DEF ReadInv, Values
  <2> QED
    BY <2>1, <2>3 DEF ReadInv, PinnedProvider, PinnedModel
<1>13. CASE ReadBaseUrl
  <2>1. rows' = rows /\ cfg' = [cfg EXCEPT !.url = rows[UrlRow(cfg.provider)]]
        /\ resolvePc = "url" /\ resolvePc' = "built" /\ steady' = steady
    BY <1>13 DEF ReadBaseUrl, Read
  <2>2. rows[UrlRow(cfg.provider)] \in {cfg.provider, Blank} /\ cfg.provider \in Providers
    BY DEF RowsInv, ReadInv
  <2>3. /\ cfg' \in [provider : Providers, model : Values, key : Values, url : Values]
        /\ cfg'.provider = cfg.provider /\ cfg'.model = cfg.model /\ cfg'.key = cfg.key
        /\ cfg'.url \in {cfg.provider, Blank}
    BY <2>1, <2>2 DEF ReadInv, Values
  <2> QED
    BY <2>1, <2>3 DEF ReadInv, PinnedProvider, PinnedModel
<1>14. CASE UseProvider
  BY <1>14 DEF UseProvider, NoCfg, ReadInv, Values
<1>15. CASE UNCHANGED settingsVars
  BY <1>1, <1>15 DEF settingsVars
<1> QED
  BY <1>3, <1>4, <1>5, <1>6, <1>7, <1>8, <1>9, <1>10, <1>11, <1>12, <1>13, <1>14, <1>15
  DEF SettingsNext

\* Whatever is saved while a tick reads, and whatever a crash left half saved, the
\* tick calls a provider with that provider's key and address or none; and with the pinned
\* pair, once both its rows are there and none of them is being saved.
THEOREM TickRunsAsPinned == SettingsSpec => []RunsAsPinned
<1>1. SettingsInit => RowsInv /\ ReadInv
  BY ProvidersAssumption, RowsApart
  DEF SettingsInit, RowsInv, ReadInv, NoCfg, Values
<1>2. ReadInv => RunsAsPinned
  BY DEF ReadInv, PinnedProvider, PinnedModel, RunsAsPinned, Pins
<1> QED
  BY <1>1, <1>2, RowsStep, ReadStep, PTL DEF SettingsSpec

\* What the settings' types say beside RowsInv and ReadInv.
SavesInv ==
  /\ saves \in 0..MaxSaves /\ steady \in BOOLEAN
  /\ resolvePc \in {"idle", "model", "pin_provider", "pin_model", "key", "url", "built"}

LEMMA SavesStep == SavesInv /\ [SettingsNext]_settingsVars => SavesInv'
<1> SUFFICES ASSUME SavesInv, [SettingsNext]_settingsVars PROVE SavesInv'
  OBVIOUS
<1> USE ProvidersAssumption DEF SavesInv
<1>1. ASSUME NEW request, Save(request) PROVE SavesInv'
  BY <1>1, SMT DEF Save
<1>2. CASE \E p \in Providers : \E m, url, key \in {p, Blank} :
             UpdateAiModel(p, m) \/ UpdateAiSettings(p, m, url, key)
  BY <1>1, <1>2 DEF UpdateAiModel, UpdateAiSettings
<1>3. CASE \E p \in Providers : \E url, key \in {p, Blank} : UpdateLlmCredentials(p, key, url)
  BY <1>1, <1>3 DEF UpdateLlmCredentials
<1>4. CASE CommitRow \/ SaveCutShort
  BY <1>4 DEF CommitRow, SaveCutShort
<1>5. CASE ReadGlobalProvider \/ ReadGlobalModel \/ ReadPinProvider
  BY <1>5 DEF ReadGlobalProvider, ReadGlobalModel, ReadPinProvider, Read
<1>6. CASE ReadPinModel \/ ReadKey \/ ReadBaseUrl \/ UseProvider
  BY <1>6 DEF ReadPinModel, ReadKey, ReadBaseUrl, UseProvider, Read
<1>7. CASE UNCHANGED settingsVars
  BY <1>7 DEF settingsVars
<1> QED
  BY <1>2, <1>3, <1>4, <1>5, <1>6, <1>7 DEF SettingsNext

\* The settings keep their types: the credentials rows of a provider never hold what
\* is another's, and the rows that wait to be saved are rows of the table.
THEOREM SettingsTypesHold == SettingsSpec => []SettingsTypeOK
<1>1. SettingsInit => RowsInv /\ ReadInv
  BY ProvidersAssumption, RowsApart
  DEF SettingsInit, RowsInv, ReadInv, NoCfg, Values
<1>2. SettingsInit => SavesInv
  BY ProvidersAssumption, SMT DEF SettingsInit, SavesInv
<1>3. RowsInv /\ ReadInv /\ SavesInv => SettingsTypeOK
  <2> SUFFICES ASSUME RowsInv, ReadInv, SavesInv PROVE SettingsTypeOK
    OBVIOUS
  <2>1. \A i \in DOMAIN puts : puts[i] \in PutRecords
    BY DEF RowsInv
  <2>2. \A i \in DOMAIN puts : puts[i].row \in RowNames /\ puts[i].value \in Values
    BY <2>1 DEF PutRecords
  <2> QED
    BY <2>2 DEF RowsInv, ReadInv, SavesInv, SettingsTypeOK
<1> QED
  BY <1>1, <1>2, <1>3, RowsStep, ReadStep, SavesStep, PTL DEF SettingsSpec

----------------------------------------------------------------------------
\* The accounts.

BookRows == [lots : Int, cost : Int, realized : Int, fees : Nat]

MoneyInv ==
  /\ mark \in Nat /\ book \in BookRows /\ toJournal \in Totals
  /\ journal \in Totals /\ missing \in Totals
  /\ book.realized = journal.realized + toJournal.realized + missing.realized
  /\ book.fees = journal.fees + toJournal.fees + missing.fees

\* apply_fill books whole numbers, and the fees of the order.
LEMMA BookedTypes ==
  ASSUME NEW p \in BookRows, NEW n \in Int, NEW price \in Int
  PROVE  Booked(p, n, price) \in BookRows /\ Booked(p, n, price).fees = p.fees + Fee * Size(n)
<1> DEFINE closed == Least(Size(n), Size(p.lots))
<1> DEFINE entry == Size(p.cost) \div Size(p.lots)
<1>1. p.lots \in Int /\ p.cost \in Int /\ p.realized \in Int /\ p.fees \in Nat
  BY DEF BookRows
<1>2. Size(n) \in Nat /\ Size(p.lots) \in Nat /\ Size(p.cost) \in Nat /\ closed \in Int
  BY <1>1, SMT DEF Size, Least
<1>3. Fee * Size(n) \in Nat
  BY <1>2, MoneyAssumption, SMT
<1>4. CASE p.lots = 0 \/ (p.lots > 0) = (n > 0)
  <2>1. Booked(p, n, price) =
          [p EXCEPT !.lots = p.lots + n, !.cost = p.cost + n * price,
                    !.fees = p.fees + Fee * Size(n)]
    BY <1>4 DEF Booked
  <2>2. p.lots + n \in Int /\ p.cost + n * price \in Int /\ p.fees + Fee * Size(n) \in Nat
    BY <1>1, <1>3, SMT
  <2> QED
    BY <2>1, <2>2 DEF BookRows
<1>5. CASE ~(p.lots = 0 \/ (p.lots > 0) = (n > 0))
  <2>1. p.lots # 0
    BY <1>5
  <2>2. Size(p.lots) > 0
    BY <1>1, <2>1, SMT DEF Size
  <2>3. entry \in Int
    BY <1>2, <2>2, SMT
  <2> HIDE DEF closed, entry
  <2> DEFINE rest == (IF Size(n) > Size(p.lots) THEN price ELSE entry) * (p.lots + n)
             won == (price - entry) * (IF p.lots > 0 THEN closed ELSE -closed)
  <2>4. rest \in Int /\ won \in Int
    BY <1>1, <1>2, <2>3, SMT
  <2>5. Booked(p, n, price) = [lots |-> p.lots + n, cost |-> rest,
                                realized |-> p.realized + won, fees |-> p.fees + Fee * Size(n)]
    BY <1>5 DEF Booked, closed, entry
  <2> HIDE DEF rest, won
  <2>6. p.lots + n \in Int /\ p.realized + won \in Int /\ p.fees + Fee * Size(n) \in Nat
    BY <1>1, <1>3, <2>4, SMT
  <2> QED
    BY <2>4, <2>5, <2>6 DEF BookRows
<1> QED
  BY <1>4, <1>5

\* A fill of any lots at any price leaves the Trade rows and the Position row telling
\* the same: what the one gained is what the other is going to.
LEMMA FoldKeeps ==
  ASSUME MoneyInv, NEW n \in Int, NEW price \in Int, Fold(n, price)
  PROVE  MoneyInv'
<1>2. book' \in BookRows /\ book'.fees = book.fees + Fee * Size(n)
  BY BookedTypes DEF Fold, MoneyInv
<1>3. Fee * Size(n) \in Nat
  BY MoneyAssumption, SMT DEF Size
<1>4. /\ toJournal' = [realized |-> book'.realized - book.realized, fees |-> Fee * Size(n)]
      /\ toJournal = NoTrade /\ journal' = journal /\ missing' = missing /\ mark' = mark
  BY DEF Fold
<1>5. toJournal' \in Totals /\ toJournal.realized = 0 /\ toJournal.fees = 0
  BY <1>2, <1>3, <1>4, SMT DEF Totals, BookRows, MoneyInv, NoTrade
<1>6. /\ book'.realized = journal'.realized + toJournal'.realized + missing'.realized
      /\ book'.fees = journal'.fees + toJournal'.fees + missing'.fees
  BY <1>2, <1>3, <1>4, <1>5, SMT DEF Totals, BookRows, MoneyInv
<1> QED
  BY <1>2, <1>4, <1>5, <1>6 DEF MoneyInv

LEMMA MoneyStep == MoneyInv /\ [AccountsNext]_moneyVars => MoneyInv'
<1> SUFFICES ASSUME MoneyInv, [AccountsNext]_moneyVars PROVE MoneyInv'
  OBVIOUS
<1>1. CASE UNCHANGED <<mark, book, toJournal, journal, missing>>
  BY <1>1 DEF MoneyInv
<1>2. ASSUME NEW n \in (-LotBound..LotBound) \ {0}, NEW price \in Prices, FoldFill(n, price)
      PROVE  MoneyInv'
  <2>1. n \in Int /\ price \in Int
    BY MoneyAssumption, MoneyBoundsAssumption, SMT
  <2> QED
    BY <1>2, <2>1, FoldKeeps DEF FoldFill
<1>3. CASE JournalFill
  BY <1>3, SMT DEF JournalFill, MoneyInv, Totals, BookRows, NoTrade, Sum2
<1>4. CASE Restarted
  BY <1>4, SMT DEF Restarted, MoneyInv, Totals, BookRows, NoTrade, Sum2
<1>5. ASSUME NEW price \in Prices, TakeMark(price) PROVE MoneyInv'
  <2>1. price \in Nat
    BY MoneyAssumption
  <2> QED
    BY <1>5, <2>1 DEF TakeMark, tradeVars, MoneyInv
<1>6. CASE NewDay \/ SetBudget
  BY <1>1, <1>6 DEF NewDay, SetBudget, tradeVars
<1>7. CASE UNCHANGED moneyVars
  BY <1>1, <1>7 DEF moneyVars
<1>8. CASE FlattenFill
  <2>1. PICK price \in Prices \cup {LastPrice} : Fold(-book.lots, price)
    BY <1>8 DEF FlattenFill
  <2>2. -book.lots \in Int
    BY SMT DEF MoneyInv, BookRows
  <2>3. price \in Int
    <3>1. CASE price \in Prices
      BY <3>1, MoneyAssumption, SMT
    <3>2. CASE price = mark
      BY <3>2, SMT DEF MoneyInv
    <3>3. CASE price = Size(book.cost) \div Size(book.lots)
      <4>1. Size(book.cost) \in Nat /\ Size(book.lots) \in Nat \ {0}
        BY <1>8, SMT DEF FlattenFill, MoneyInv, BookRows, Size
      <4> QED
        BY <3>3, <4>1, SMT
    <3> QED
      BY <2>1, <3>1, <3>2, <3>3 DEF LastPrice
  <2> QED
    BY <2>1, <2>2, <2>3, FoldKeeps
<1> QED
  BY <1>2, <1>3, <1>4, <1>5, <1>6, <1>7, <1>8 DEF AccountsNext

LEMMA MoneyInit == AccountsInit => MoneyInv
BY SMT DEF AccountsInit, MoneyInv, BookRows, Totals, NoTrade

\* The Trade rows and the Position rows tell the same PnL and the same fees, but for
\* a trade not yet committed or dropped by a crash, at every price and rounding.
THEOREM TradesTellPositions == AccountsSpec => []TradesExplainPositions
<1>1. MoneyInv => TradesExplainPositions
  BY SMT DEF MoneyInv, TradesExplainPositions, Sum2, BookRows, Totals
<1> QED
  BY <1>1, MoneyInit, MoneyStep, PTL DEF AccountsSpec

\* Multiples, for the averages that come out whole.
LEMMA WholeQuotient ==
  ASSUME NEW a \in Int, NEW s \in Int, s > 0
  PROVE  (a * s) \div s = a /\ (a * s) % s = 0
<1>1. (a * s) \div s = a
  BY SMT
<1>2. (a * s) % s = 0
  BY SMT
<1> QED
  BY <1>1, <1>2

LEMMA MultipleOf ==
  ASSUME NEW a \in Int, NEW s \in Int, s > 0, a % s = 0
  PROVE  \E q \in Int : a = q * s
<1>1. a \div s \in Int /\ a = (a \div s) * s
  BY SMT
<1> QED
  BY <1>1

\* The grain of prices and averages with the fills that are left.
Fine == Grain[FillBound - filled]

\* The Position row keeps the cost and the simulator the entry price of one position,
\* and the money moved is what both say of it.
EntryInv ==
  /\ book \in BookRows /\ mark \in Nat /\ filled \in 0..FillBound
  /\ sim \in [qty : Int, entry : Nat, realized : Int]
  /\ sim.qty = book.lots /\ sim.realized = book.realized
  /\ book.cost = sim.entry * book.lots
  /\ book.lots \in -LotBound..LotBound
  /\ IF book.lots = 0 THEN sim.entry = 0 ELSE sim.entry > 0 /\ sim.entry % Fine = 0
  /\ cash = book.realized - book.cost - book.fees

LEMMA FinerGrain ==
  ASSUME EntryInv, filled < FillBound, NEW d \in 1..LotBound
  PROVE  /\ Fine \in Nat \ {0} /\ Grain[FillBound - filled - 1] \in Nat \ {0}
         /\ \A price \in Prices : price % Fine = 0 /\ price % Grain[FillBound - filled - 1] = 0
         /\ \E c \in Int : Fine = c * (d * Grain[FillBound - filled - 1])
<1> DEFINE k == FillBound - filled
<1>1. k \in 1..FillBound /\ k \in 0..FillBound /\ k - 1 \in 0..FillBound
  BY MoneyBoundsAssumption, SMT DEF EntryInv
<1> HIDE DEF k
<1>2. Grain[k] \in Nat \ {0} /\ Grain[k - 1] \in Nat \ {0}
  BY <1>1, GrainAssumption
<1>3. d \in Int /\ d > 0
  BY SMT
<1>4. d * Grain[k - 1] \in Int /\ d * Grain[k - 1] > 0
  BY <1>2, <1>3, SMT
<1>5. Grain[k] % (d * Grain[k - 1]) = 0
  BY <1>1, GrainAssumption
<1>6. \E c \in Int : Grain[k] = c * (d * Grain[k - 1])
  <2> DEFINE a == Grain[k]  s == d * Grain[k - 1]
  <2>1. a \in Int /\ s \in Int /\ s > 0 /\ a % s = 0
    BY <1>2, <1>4, <1>5
  <2> HIDE DEF a, s
  <2>2. \E c \in Int : a = c * s
    BY <2>1, MultipleOf
  <2> QED
    BY <2>2 DEF a, s
<1>7. \A price \in Prices : price % Grain[k] = 0 /\ price % Grain[k - 1] = 0
  BY <1>1, GrainAssumption
<1> QED
  BY <1>2, <1>6, <1>7 DEF k, Fine

LEMMA CommonFactor ==
  ASSUME NEW a \in Int, NEW b \in Int, NEW c \in Int, NEW g \in Int, NEW h \in Int,
         NEW s \in Int, NEW x \in Int, NEW y \in Int, g = c * (s * h)
  PROVE  x * (a * g) + y * (b * g) = (((x * a + y * b) * c) * h) * s
BY SMT

\* Opening or adding: the average is whole, and of the next grain.
LEMMA Averaged ==
  ASSUME NEW l \in Int, NEW n \in Int, NEW e \in Nat, NEW price \in Nat \ {0},
         l = 0 \/ (l > 0) = (n > 0), n # 0, l # 0 => e > 0, l = 0 => e = 0,
         NEW g \in Nat \ {0}, NEW h \in Nat \ {0}, NEW c \in Int,
         g = c * ((Size(l) + Size(n)) * h), e % g = 0, price % g = 0,
         NEW new, new = (Size(l) * e + Size(n) * price) \div (Size(l) + Size(n))
  PROVE  new \in Nat \ {0} /\ new % h = 0 /\ new * (l + n) = e * l + n * price
<1> DEFINE s == Size(l) + Size(n)  sum == Size(l) * e + Size(n) * price
<1>1. s \in Int /\ s > 0 /\ Size(l) \in Nat /\ Size(n) \in Nat \ {0}
  BY SMT DEF Size
<1>2. PICK a \in Int : e = a * g
  <2>1. e \in Int /\ g \in Int /\ g > 0 /\ e % g = 0
    BY SMT
  <2> QED
    BY ONLY <2>1, MultipleOf
<1>3. PICK b \in Int : price = b * g
  <2>1. price \in Int /\ g \in Int /\ g > 0 /\ price % g = 0
    BY SMT
  <2> QED
    BY ONLY <2>1, MultipleOf
<1> DEFINE x == Size(l)
<1> DEFINE y == Size(n)
<1> DEFINE q == ((x * a + y * b) * c) * h
<1>4. x \in Int /\ y \in Int /\ g = c * (s * h)
  BY <1>1
<1> HIDE DEF x, y, s
<1>5. q \in Int
  <2>1. x * a + y * b \in Int
    BY ONLY <1>2, <1>3, <1>4, SMT
  <2>2. (x * a + y * b) * c \in Int
    BY <2>1, SMT
  <2>3. h \in Int
    BY SMT
  <2> QED
    BY ONLY <2>2, <2>3, SMT
<1>6. x * (a * g) + y * (b * g) = q * s
  <2>1. s \in Int /\ h \in Int /\ g \in Int
    BY <1>1, SMT
  <2> QED
    BY ONLY <2>1, <1>2, <1>3, <1>4, CommonFactor
<1>7. sum = q * s
  BY <1>2, <1>3, <1>6 DEF x, y
<1>8. sum > 0
  <2>1. Size(l) * e >= 0 /\ Size(n) * price > 0
    BY <1>1, SMT
  <2> QED
    BY <1>1, <2>1, SMT
<1>9. sum \div s = q
  BY <1>1, <1>5, <1>7, WholeQuotient
<1>10. q > 0
  <2> HIDE DEF sum, q
  <2> QED
    BY <1>1, <1>5, <1>7, <1>8, SMT
<1>11. q % h = 0
  <2>1. x * a + y * b \in Int
    BY ONLY <1>2, <1>3, <1>4, SMT
  <2>2. (x * a + y * b) * c \in Int /\ h \in Int /\ h > 0
    BY <2>1, SMT
  <2> QED
    BY ONLY <2>2, WholeQuotient
<1>12. q * (l + n) = e * l + n * price
  <2>1. CASE l >= 0 /\ n > 0
    <3>1. s = l + n /\ x = l /\ y = n
      BY <2>1, SMT DEF s, x, y, Size
    <3>2. sum = l * e + n * price
      BY <3>1 DEF x, y
    <3> HIDE DEF q, sum
    <3> QED
      BY <1>5, <1>7, <3>1, <3>2, SMT
  <2>2. CASE l <= 0 /\ n < 0
    <3>1. s = -(l + n) /\ Size(l) = -l /\ Size(n) = -n
      BY <2>2, SMT DEF s, Size
    <3>2. sum = (-l) * e + (-n) * price
      BY <3>1
    <3> HIDE DEF q, sum
    <3> QED
      BY <1>5, <1>7, <3>1, <3>2, SMT
  <2> QED
    BY <2>1, <2>2, SMT
<1> HIDE DEF q
<1> QED
  BY <1>5, <1>9, <1>10, <1>11, <1>12 DEF s, sum

\* Reducing or flipping: what is realized and what is left open come to the old
\* position and the money of the fill.
LEMMA Closed ==
  ASSUME NEW l \in Int, NEW n \in Int, NEW e \in Int, NEW price \in Int, NEW r \in Int,
         l # 0, n # 0, (l > 0) # (n > 0)
  PROVE  LET closed == Least(Size(n), Size(l))
             won == (price - e) * (IF l > 0 THEN closed ELSE -closed)
         IN  (r + won) - (IF Size(n) > Size(l) THEN price ELSE e) * (l + n)
               = r - e * l - n * price
<1> DEFINE closed == Least(Size(n), Size(l))  part == IF l > 0 THEN closed ELSE -closed
<1>1. CASE Size(n) > Size(l)
  <2>1. part = l
    BY <1>1, SMT DEF Least, Size
  <2>2. (r + (price - e) * l) - price * (l + n) = r - e * l - n * price
    BY SMT
  <2> QED
    BY <1>1, <2>1, <2>2
<1>2. CASE ~(Size(n) > Size(l))
  <2>1. part = -n
    BY <1>2, SMT DEF Least, Size
  <2>2. (r + (price - e) * (-n)) - e * (l + n) = r - e * l - n * price
    BY SMT
  <2> QED
    BY <1>2, <2>1, <2>2
<1> QED
  BY <1>1, <1>2

\* The entry price the Position row has by its cost is the simulator's.
LEMMA EntryOfCost ==
  ASSUME NEW l \in Int, NEW e \in Nat, l # 0
  PROVE  Size(e * l) \div Size(l) = e
<1>1. Size(l) \in Int /\ Size(l) > 0
  BY SMT DEF Size
<1>2. Size(e * l) = e * Size(l)
  <2>1. CASE l > 0
    <3>1. e * l >= 0
      BY <2>1, SMT
    <3> QED
      BY <2>1, <3>1, SMT DEF Size
  <2>2. CASE l < 0
    <3>1. e * (-l) >= 0
      BY <2>2, SMT
    <3>2. e * l <= 0 /\ -(e * l) = e * (-l) /\ e * l \in Int
      BY <3>1, SMT
    <3>3. Size(e * l) = e * (-l)
      BY <3>1, <3>2, SMT DEF Size
    <3> QED
      BY <2>2, <3>3, SMT DEF Size
  <2> QED
    BY <2>1, <2>2, SMT
<1> QED
  BY <1>1, <1>2, WholeQuotient

\* One fill, on either side of the books: within LotBound it opens or adds at one of the
\* prices, or it closes, and flips only at one of them.
LEMMA FoldKeepsEntry ==
  ASSUME EntryInv, NEW n \in Int \ {0}, NEW price \in Int, Fold(n, price),
         book.lots + n \in -LotBound..LotBound, price \in Prices \/ book.lots + n = 0
  PROVE  EntryInv'
<1> DEFINE l == book.lots  e == sim.entry  r == book.realized  fee == Fee * Size(n)
<1> DEFINE h == Grain[FillBound - filled - 1]
<1>1. /\ l \in Int /\ e \in Nat /\ r \in Int /\ book.fees \in Nat /\ book.cost = e * l
      /\ sim.qty = l /\ sim.realized = r /\ fee \in Nat /\ LotBound \in Nat \ {0}
  <2>1. fee \in Nat
    BY MoneyAssumption, SMT DEF Size
  <2> QED
    BY <2>1, MoneyBoundsAssumption DEF EntryInv, BookRows
<1>2. filled' = filled + 1 /\ filled' \in 0..FillBound /\ Fine' = h
  <2>1. filled < FillBound /\ filled' = filled + 1 /\ filled \in Nat
    BY SMT DEF Fold, EntryInv
  <2>2. filled' \in 0..FillBound /\ FillBound - filled' = FillBound - filled - 1
    BY <2>1, MoneyBoundsAssumption, SMT
  <2> QED
    BY <2>1, <2>2 DEF Fine
<1>3. book' = Booked(book, n, price) /\ sim' = SimApplied(sim, n, price)
      /\ cash' = cash - n * price - fee /\ mark' = mark /\ cash = r - e * l - book.fees
  BY <1>1 DEF Fold, EntryInv
<1>4. book' \in BookRows /\ book'.fees = book.fees + fee
  BY <1>3, BookedTypes DEF EntryInv
<1>5. filled < FillBound
  BY DEF Fold
<1> HIDE DEF l, e, r, fee, h
<1>6. CASE l = 0 \/ (l > 0) = (n > 0)
  <2> DEFINE new == (Size(l) * e + Size(n) * price) \div (Size(l) + Size(n))
  <2>1. /\ book' = [book EXCEPT !.lots = l + n, !.cost = e * l + n * price, !.fees = book.fees + fee]
        /\ sim' = [sim EXCEPT !.qty = l + n, !.entry = new]
    BY <1>1, <1>3, <1>6 DEF Booked, SimApplied, l, e, fee
  <2>2. l + n # 0 /\ Size(l) + Size(n) \in 1..LotBound /\ l + n \in -LotBound..LotBound
    <3>1. l + n \in -LotBound..LotBound
      BY DEF l
    <3> QED
      BY <1>1, <1>6, <3>1, SMT DEF Size
  <2>3. price \in Prices /\ price \in Nat \ {0}
    BY <2>2, MoneyAssumption DEF l
  <2>4. PICK c \in Int : Fine = c * ((Size(l) + Size(n)) * h)
    BY <1>5, <2>2, FinerGrain DEF h
  <2>5. /\ Fine \in Nat \ {0} /\ h \in Nat \ {0} /\ price % Fine = 0
    <3>1. 1 \in 1..LotBound
      BY <1>1, SMT
    <3> QED
      BY <1>5, <2>3, <3>1, FinerGrain DEF h
  <2>6. (l # 0 => e > 0) /\ (l = 0 => e = 0) /\ e % Fine = 0
    <3>1. CASE l = 0
      <4>1. e = 0
        BY <3>1 DEF EntryInv, l, e
      <4>2. 0 % Fine = 0
        BY <2>5, SMT
      <4> QED
        BY <3>1, <4>1, <4>2
    <3>2. CASE l # 0
      BY <3>2 DEF EntryInv, l, e
    <3> QED
      BY <3>1, <3>2
  <2>7. new \in Nat \ {0} /\ new % h = 0 /\ new * (l + n) = e * l + n * price
    <3> DEFINE g == Fine
    <3>1. g \in Nat \ {0} /\ g = c * ((Size(l) + Size(n)) * h) /\ e % g = 0 /\ price % g = 0
      BY <2>4, <2>5, <2>6
    <3>2. n \in Int /\ n # 0
      OBVIOUS
    <3>3. new = (Size(l) * e + Size(n) * price) \div (Size(l) + Size(n))
      OBVIOUS
    <3> HIDE DEF g, new
    <3> QED
      BY ONLY <1>1, <1>6, <2>3, <2>4, <2>5, <2>6, <3>1, <3>2, <3>3, Averaged
  <2> HIDE DEF new
  <2>8. /\ book'.lots = l + n /\ book'.cost = e * l + n * price /\ book'.realized = r
        /\ sim'.qty = l + n /\ sim'.entry = new /\ sim'.realized = r
    BY <2>1, <1>1 DEF EntryInv, BookRows, r
  <2>9. sim' \in [qty : Int, entry : Nat, realized : Int]
    <3>1. l + n \in Int
      BY <1>1, SMT
    <3> QED
      BY <2>1, <2>7, <3>1 DEF EntryInv
  <2>10. cash' = book'.realized - book'.cost - book'.fees
    <3>1. n * price \in Int /\ e * l \in Int
      BY <1>1, SMT
    <3> QED
      BY <1>1, <1>3, <1>4, <2>8, <3>1, SMT
  <2>11. book'.cost = sim'.entry * book'.lots /\ sim'.entry > 0 /\ sim'.entry % Fine' = 0
    BY <1>2, <2>7, <2>8, SMT
  <2> QED
    BY <1>2, <1>3, <1>4, <2>2, <2>8, <2>9, <2>10, <2>11 DEF EntryInv
<1>7. CASE ~(l = 0 \/ (l > 0) = (n > 0))
  <2> DEFINE closed == Least(Size(n), Size(l))
             won == (price - e) * (IF l > 0 THEN closed ELSE -closed)
             kept == IF Size(n) > Size(l) THEN price ELSE e
             entry == IF Size(n) > Size(l) THEN price ELSE IF l + n = 0 THEN 0 ELSE e
  <2>1. l # 0 /\ (l > 0) # (n > 0)
    BY <1>7
  <2>2. Size(book.cost) \div Size(l) = e
    BY <1>1, <2>1, EntryOfCost
  <2>3. /\ book' = [lots |-> l + n, cost |-> kept * (l + n), realized |-> r + won,
                    fees |-> book.fees + fee]
        /\ sim' = [qty |-> l + n, entry |-> entry, realized |-> r + won]
    BY <1>1, <1>3, <1>7, <2>2 DEF Booked, SimApplied, l, e, r, fee
  <2>4. (r + won) - kept * (l + n) = r - e * l - n * price
    BY <1>1, <2>1, Closed
  <2>5. won \in Int /\ kept \in Int /\ l + n \in Int
    <3>1. (IF l > 0 THEN closed ELSE -closed) \in Int
      BY <1>1, SMT DEF Least, Size
    <3> HIDE DEF closed
    <3>2. won \in Int
      BY <1>1, <3>1, SMT
    <3> QED
      BY <1>1, <3>2, SMT
  <2>6. l + n = 0 => kept = e /\ entry = 0
    BY <1>1, SMT DEF Size
  <2>7. l + n # 0 => entry = kept
    OBVIOUS
  <2>8. l + n # 0 => kept \in Nat /\ kept > 0 /\ kept % h = 0
    <3> SUFFICES ASSUME l + n # 0 PROVE kept \in Nat /\ kept > 0 /\ kept % h = 0
      OBVIOUS
    <3>1. price \in Prices /\ price \in Nat \ {0}
      BY MoneyAssumption DEF l
    <3>2. 1 \in 1..LotBound
      BY <1>1, SMT
    <3>3. price % h = 0 /\ h \in Nat \ {0} /\ Fine \in Nat \ {0}
      BY <1>5, <3>1, <3>2, FinerGrain DEF h
    <3>4. PICK c \in Int : Fine = c * (1 * h)
      BY <1>5, <3>2, FinerGrain DEF h
    <3>5. e > 0 /\ e % Fine = 0
      BY <2>1 DEF EntryInv, l, e
    <3>6. e % h = 0
      <4>1. \E a \in Int : e = a * Fine
        <5> DEFINE g == Fine
        <5>1. e \in Int /\ g \in Int /\ g > 0 /\ e % g = 0
          BY <1>1, <3>3, <3>5, SMT
        <5> HIDE DEF g
        <5>2. \E a \in Int : e = a * g
          BY ONLY <5>1, MultipleOf
        <5> QED
          BY <5>2 DEF g
      <4>2. PICK a \in Int : e = a * Fine
        BY <4>1
      <4>3. e = (a * c) * h /\ a * c \in Int
        BY ONLY <3>3, <3>4, <4>2, SMT
      <4> QED
        BY ONLY <3>3, <4>3, WholeQuotient, SMT
    <3> QED
      BY <1>1, <3>1, <3>3, <3>5, <3>6, SMT
  <2> HIDE DEF won, kept, entry
  <2>9. /\ book'.lots = l + n /\ book'.cost = kept * (l + n) /\ book'.realized = r + won
        /\ sim'.qty = l + n /\ sim'.entry = entry /\ sim'.realized = r + won
    BY <2>3
  <2>10. entry \in Nat
    BY <1>1, <2>6, <2>7, <2>8, SMT
  <2>11. sim' \in [qty : Int, entry : Nat, realized : Int]
    <3>1. r + won \in Int
      BY <1>1, <2>5, SMT
    <3> QED
      BY <2>3, <2>5, <2>10, <3>1
  <2>12. book'.cost = sim'.entry * book'.lots
    <3>1. CASE l + n = 0
      <4>1. kept * 0 = 0 * 0
        BY <2>5, SMT
      <4> QED
        BY <2>6, <2>9, <3>1, <4>1
    <3>2. CASE l + n # 0
      BY <2>7, <2>9, <3>2
    <3> QED
      BY <3>1, <3>2
  <2>13. cash' = book'.realized - book'.cost - book'.fees
    <3>1. n * price \in Int /\ e * l \in Int /\ kept * (l + n) \in Int
      BY <1>1, <2>5, SMT
    <3> QED
      BY <1>1, <1>3, <1>4, <2>4, <2>5, <2>9, <3>1, SMT
  <2>14. IF book'.lots = 0 THEN sim'.entry = 0 ELSE sim'.entry > 0 /\ sim'.entry % Fine' = 0
    BY <1>2, <2>6, <2>7, <2>8, <2>9
  <2>15. book'.lots \in -LotBound..LotBound
    BY <2>9 DEF l
  <2> QED
    BY <1>2, <1>3, <1>4, <2>9, <2>11, <2>12, <2>13, <2>14, <2>15 DEF EntryInv
<1> QED
  BY <1>6, <1>7

LEMMA EntryStep == EntryInv /\ [AccountsNext]_moneyVars => EntryInv'
<1> SUFFICES ASSUME EntryInv, [AccountsNext]_moneyVars PROVE EntryInv'
  OBVIOUS
<1>1. CASE UNCHANGED <<sim, book, mark, cash, filled>>
  BY <1>1 DEF EntryInv, Fine
<1>2. ASSUME NEW n \in (-LotBound..LotBound) \ {0}, NEW price \in Prices, FoldFill(n, price)
      PROVE  EntryInv'
  <2>1. n \in Int \ {0} /\ price \in Int
    BY MoneyAssumption, MoneyBoundsAssumption, SMT
  <2>2. book.lots + n \in -LotBound..LotBound
    <3>1. book.lots + n \in Int /\ Size(book.lots + n) <= LotBound
      BY <1>2, <2>1, SMT DEF FoldFill, EntryInv, BookRows
    <3> QED
      BY <3>1, MoneyBoundsAssumption, SMT DEF Size
  <2> QED
    BY <1>2, <2>1, <2>2, FoldKeepsEntry DEF FoldFill
<1>3. CASE FlattenFill
  <2>1. PICK price \in Prices \cup {LastPrice} : Fold(-book.lots, price)
    BY <1>3 DEF FlattenFill
  <2>2. book.lots # 0 /\ book.lots \in Int /\ book.cost \in Int
    BY <1>3 DEF FlattenFill, EntryInv, BookRows
  <2>3. -book.lots \in Int \ {0} /\ book.lots + (-book.lots) = 0
        /\ 0 \in -LotBound..LotBound
    BY <2>2, MoneyBoundsAssumption, SMT
  <2>4. LastPrice \in Int
    <3>1. Size(book.cost) \in Nat /\ Size(book.lots) \in Nat \ {0}
      BY <2>2, SMT DEF Size
    <3>2. Size(book.cost) \div Size(book.lots) \in Int
      BY <3>1, SMT
    <3>3. mark \in Int
      BY SMT DEF EntryInv
    <3> QED
      BY <3>2, <3>3 DEF LastPrice
  <2>5. price \in Int
    BY <2>1, <2>4, MoneyAssumption
  <2> QED
    BY <2>1, <2>3, <2>5, FoldKeepsEntry
<1>4. ASSUME NEW price \in Prices, TakeMark(price) PROVE EntryInv'
  <2>1. price \in Nat
    BY MoneyAssumption
  <2> QED
    BY <1>4, <2>1 DEF TakeMark, EntryInv, Fine
<1>5. CASE Restarted
  BY <1>5, SMT DEF Restarted, EntryInv, Fine
<1>6. CASE JournalFill \/ NewDay \/ SetBudget
  BY <1>1, <1>6 DEF JournalFill, NewDay, SetBudget
<1>7. CASE UNCHANGED moneyVars
  BY <1>1, <1>7 DEF moneyVars
<1> QED
  BY <1>2, <1>3, <1>4, <1>5, <1>6, <1>7 DEF AccountsNext

LEMMA EntryInit == AccountsInit => EntryInv
<1> SUFFICES ASSUME AccountsInit PROVE EntryInv
  OBVIOUS
<1>1. 0 \in 0..FillBound /\ 0 \in -LotBound..LotBound
  BY MoneyBoundsAssumption, SMT
<1>2. book \in BookRows /\ sim \in [qty : Int, entry : Nat, realized : Int]
  BY DEF AccountsInit, BookRows
<1>3. book.lots = 0 /\ book.cost = 0 /\ book.realized = 0 /\ book.fees = 0
      /\ sim.qty = 0 /\ sim.entry = 0 /\ sim.realized = 0
  BY DEF AccountsInit
<1>4. book.cost = sim.entry * book.lots /\ cash = book.realized - book.cost - book.fees
  BY <1>3, SMT DEF AccountsInit
<1> QED
  BY <1>1, <1>2, <1>3, <1>4 DEF AccountsInit, EntryInv

\* Whatever is bought, sold, averaged, reduced and flipped at whatever prices, equity is
\* the allocation plus the money the fills moved plus what the open lots are worth, and
\* a backtest of the same fills comes to the same at every price.
THEOREM EquityIsCash == AccountsSpec => []EquityIsCashPlusPosition
<1>1. EntryInv /\ budget \in Budgets => EquityIsCashPlusPosition
  <2> SUFFICES ASSUME EntryInv, budget \in Budgets PROVE EquityIsCashPlusPosition
    OBVIOUS
  <2> DEFINE l == book.lots  c == book.cost  r == book.realized  f == book.fees
  <2>1. l \in Int /\ c \in Int /\ r \in Int /\ f \in Int /\ mark \in Int /\ budget \in Int
    BY MoneyAssumption, SMT DEF EntryInv, BookRows
  <2>2. cash = r - c - f /\ (l = 0 => c = 0)
    BY <2>1, SMT DEF EntryInv
  <2>3. mark * l \in Int
    BY <2>1, SMT
  <2> HIDE DEF l, c, r, f
  <2>4. Equity = budget + cash + (IF mark = 0 \/ l = 0 THEN c ELSE mark * l)
    <3>1. Equity = budget + (r + (IF l = 0 \/ mark = 0 THEN 0 ELSE mark * l - c) - f)
      BY DEF Equity, NetPnl, Unrealized, l, c, r, f
    <3> QED
      BY <2>1, <2>2, <2>3, <3>1, SMT
  <2>5. ASSUME NEW price \in Prices PROVE BacktestEquity(price) = budget + cash + price * l
    <3>1. BacktestEquity(price) = budget + r + (price - sim.entry) * l - f
          /\ c = sim.entry * l /\ sim.entry \in Int
      BY SMT DEF BacktestEquity, EntryInv, l, c, r, f
    <3>2. price \in Int
      BY MoneyAssumption
    <3>3. (price - sim.entry) * l = price * l - sim.entry * l
      BY ONLY <2>1, <3>1, <3>2, SMT
    <3>4. price * l \in Int
      BY <2>1, <3>2, SMT
    <3> QED
      BY <2>1, <2>2, <3>1, <3>3, <3>4, SMT
  <2> QED
    BY <2>4, <2>5 DEF EquityIsCashPlusPosition, l, c
<1>2. AccountsInit => budget \in Budgets
  BY DEF AccountsInit
<1>3. budget \in Budgets /\ [AccountsNext]_moneyVars => (budget \in Budgets)'
  BY DEF AccountsNext, moneyVars, TakeMark, FoldFill, FlattenFill, Fold, JournalFill,
         Restarted, NewDay, SetBudget
<1> QED
  BY <1>1, <1>2, <1>3, EntryInit, EntryStep, PTL DEF AccountsSpec

\* What the accounts' types say beside MoneyInv and EntryInv.
MoneyRanges ==
  /\ mark \in Prices \cup {0} /\ budget \in Budgets
  /\ today \in Int /\ day \in 0..DayBound

LEMMA MoneyRangesStep ==
  ASSUME MoneyInv, EntryInv, MoneyRanges, [AccountsNext]_moneyVars
  PROVE  MoneyRanges'
<1>1. toJournal.realized \in Int /\ toJournal.fees \in Int
  BY SMT DEF MoneyInv, Totals
<1>2. ASSUME NEW price \in Prices, TakeMark(price) PROVE MoneyRanges'
  BY <1>2 DEF TakeMark, tradeVars, MoneyRanges
<1>3. ASSUME NEW n, NEW price, Fold(n, price) PROVE MoneyRanges'
  BY <1>3 DEF Fold, MoneyRanges
<1>4. CASE JournalFill
  <2>1. today' \in Int
    BY <1>1, <1>4, SMT DEF JournalFill, MoneyRanges
  <2> QED
    BY <1>4, <2>1 DEF JournalFill, MoneyRanges
<1>5. CASE Restarted
  BY <1>5 DEF Restarted, MoneyRanges
<1>6. CASE NewDay
  <2>1. day' \in 0..DayBound
    BY <1>6, MoneyBoundsAssumption, SMT DEF NewDay, MoneyRanges
  <2> QED
    BY <1>6, <2>1 DEF NewDay, MoneyRanges
<1>7. CASE SetBudget
  BY <1>7 DEF SetBudget, tradeVars, MoneyRanges
<1>8. CASE UNCHANGED moneyVars
  BY <1>8 DEF moneyVars, MoneyRanges
<1> QED
  BY <1>2, <1>3, <1>4, <1>5, <1>6, <1>7, <1>8 DEF AccountsNext, FoldFill, FlattenFill

\* The accounts keep their types: among them, the cost of what is open divides evenly
\* among its lots, so that no average was ever cut.
THEOREM AccountsTypesHold == AccountsSpec => []AccountsTypeOK
<1>1. AccountsInit => MoneyInv /\ EntryInv /\ MoneyRanges
  <2>1. AccountsInit => MoneyRanges
    BY MoneyBoundsAssumption, SMT DEF AccountsInit, MoneyRanges
  <2> QED
    BY <2>1, EntryInit, MoneyInit
<1>2. MoneyInv /\ EntryInv /\ MoneyRanges /\ [AccountsNext]_moneyVars
        => (MoneyInv /\ EntryInv /\ MoneyRanges)'
  BY MoneyStep, EntryStep, MoneyRangesStep
<1>3. MoneyInv /\ EntryInv /\ MoneyRanges => AccountsTypeOK
  <2> SUFFICES ASSUME MoneyInv, EntryInv, MoneyRanges PROVE AccountsTypeOK
    OBVIOUS
  <2> DEFINE l == book.lots  e == sim.entry
  <2>1. l \in Int /\ e \in Nat /\ book.cost = e * l /\ book.cost \in Int
    BY DEF EntryInv, BookRows
  <2>2. ASSUME l # 0
        PROVE  book.cost % Size(l) = 0 /\ (book.cost > 0 <=> l > 0)
    <3>1. e > 0
      BY <2>2 DEF EntryInv
    <3> HIDE DEF l, e
    <3>2. e * l > 0 <=> l > 0
      BY <2>1, <2>2, <3>1, SMT
    <3>3. Size(l) \in Int /\ Size(l) > 0 /\ (l = Size(l) \/ l = -Size(l))
      BY <2>1, <2>2, SMT DEF Size
    <3>4. (e * Size(l)) % Size(l) = 0 /\ ((-e) * Size(l)) % Size(l) = 0
      <4> DEFINE s == Size(l)
      <4>1. s \in Int /\ s > 0 /\ e \in Int /\ -e \in Int
        BY <2>1, <3>3, SMT
      <4> HIDE DEF s
      <4>2. (e * s) % s = 0 /\ ((-e) * s) % s = 0
        BY ONLY <4>1, WholeQuotient
      <4> QED
        BY <4>2 DEF s
    <3>5. e * l = e * Size(l) \/ e * l = (-e) * Size(l)
      <4> DEFINE s == Size(l)
      <4>1. s \in Int /\ (l = s \/ l = -s)
        BY <3>3
      <4> HIDE DEF s
      <4>2. e * l = e * s \/ e * l = (-e) * s
        BY ONLY <2>1, <4>1, SMT
      <4> QED
        BY <4>2 DEF s
    <3> QED
      BY <2>1, <3>2, <3>4, <3>5
  <2>3. {toJournal, journal, missing} \subseteq Totals
    BY DEF MoneyInv
  <2>4. cash \in Int
    BY SMT DEF EntryInv, BookRows
  <2>5. sim.entry \in Nat /\ sim.realized \in Int /\ book.realized \in Int /\ book.fees \in Nat
    BY DEF EntryInv, BookRows
  <2> QED
    BY <2>1, <2>2, <2>3, <2>4, <2>5 DEF AccountsTypeOK, MoneyRanges, EntryInv
<1> QED
  BY <1>1, <1>2, <1>3, PTL DEF AccountsSpec

----------------------------------------------------------------------------
\* The drawdown half of the kill switch.

Rows == [date : Int, equity : Int, net : NetRange]

\* Every run of rows up to the newest has a greatest equity.
Peaked(t) ==
  \A k \in 1..Len(t) : \E m \in k..Len(t) : \A j \in k..Len(t) : t[j].equity <= t[m].equity

HaltInv ==
  /\ netPnl \in NetRange /\ allocated \in Allocations /\ date \in Int
  /\ snaps \in Seq(Rows) /\ Peaked(snaps)

LEMMA PeakIsGreatest ==
  ASSUME NEW t \in Seq(Rows), t # <<>>, Peaked(t)
  PROVE  /\ PeakOf(t) \in Int /\ \E m \in 1..Len(t) : t[m].equity = PeakOf(t)
         /\ \A i \in 1..Len(t) : t[i].equity <= PeakOf(t)
<1>1. Len(t) \in Nat \ {0} /\ \A i \in 1..Len(t) : t[i] \in Rows
  BY EmptySeq, LenProperties, ElementOfSeq
<1>2. 1 \in 1..Len(t)
  BY <1>1, SMT
<1>3. PICK m \in 1..Len(t) : \A j \in 1..Len(t) : t[j].equity <= t[m].equity
  BY <1>2 DEF Peaked
<1>4. \E e \in Equities(t) : \A f \in Equities(t) : f <= e
  BY <1>3 DEF Equities
<1>5. PeakOf(t) \in Equities(t) /\ \A f \in Equities(t) : f <= PeakOf(t)
  BY <1>4 DEF PeakOf, Greatest
<1>6. \A i \in 1..Len(t) : t[i].equity \in Int
  BY <1>1 DEF Rows
<1> QED
  BY <1>5, <1>6 DEF Equities

\* What a new row does to the peak, and what deleting the oldest rows does.
LEMMA AppendPeaked ==
  ASSUME NEW t \in Seq(Rows), NEW e \in Rows, Peaked(t)
  PROVE  Peaked(Append(t, e))
<1> DEFINE u == Append(t, e)  n == Len(t)
<1>1. /\ n \in Nat /\ Len(u) = n + 1 /\ u[n + 1] = e
      /\ \A i \in 1..n : u[i] = t[i] /\ t[i] \in Rows
  BY LenProperties, AppendProperties, ElementOfSeq
<1>2. \A i \in 1..n + 1 : u[i].equity \in Int
  <2>1. ASSUME NEW i \in 1..n + 1 PROVE u[i].equity \in Int
    <3>1. i \in 1..n \/ i = n + 1
      BY <1>1, SMT
    <3> QED
      BY <1>1, <3>1 DEF Rows
  <2> QED
    BY <2>1
<1> HIDE DEF u, n
<1>3. ASSUME NEW k \in 1..n + 1
      PROVE  \E m \in k..n + 1 : \A j \in k..n + 1 : u[j].equity <= u[m].equity
  <2>1. CASE k = n + 1
    <3>1. k..n + 1 = {n + 1} /\ u[n + 1].equity <= u[n + 1].equity
      <4>1. n + 1 \in 1..n + 1 /\ k..n + 1 = {n + 1}
        BY <1>1, <2>1, SMT
      <4> QED
        BY <1>2, <4>1, SMT
    <3> QED
      BY <3>1
  <2>2. CASE k \in 1..n
    <3>1. PICK m \in k..n : \A j \in k..n : t[j].equity <= t[m].equity
      BY <2>2 DEF Peaked, n
    <3>2. \A j \in k..n : j \in 1..n /\ j \in 1..n + 1 /\ j \in k..n + 1
      BY <1>1, <2>2, SMT
    <3>3. \A j \in k..n + 1 : j \in k..n \/ j = n + 1
      BY <1>1, <2>2, SMT
    <3>4. n + 1 \in k..n + 1 /\ n + 1 \in 1..n + 1
      BY <1>1, <2>2, SMT
    <3>5. \A j \in k..n : u[j].equity <= u[m].equity
      BY <1>1, <3>1, <3>2
    <3>6. CASE u[n + 1].equity <= u[m].equity
      <4>1. m \in k..n + 1
        BY <3>1, <3>2
      <4>2. ASSUME NEW j \in k..n + 1 PROVE u[j].equity <= u[m].equity
        BY <3>3, <3>5, <3>6
      <4> QED
        BY <4>1, <4>2
    <3>7. CASE u[m].equity < u[n + 1].equity
      <4>1. ASSUME NEW j \in k..n PROVE u[j].equity <= u[n + 1].equity
        <5>1. u[j].equity \in Int /\ u[m].equity \in Int /\ u[n + 1].equity \in Int
          BY <1>2, <3>1, <3>2, <3>4
        <5> QED
          BY <3>5, <3>7, <5>1, SMT
      <4>2. u[n + 1].equity <= u[n + 1].equity
        BY <1>2, <3>4, SMT
      <4>3. \A j \in k..n + 1 : u[j].equity <= u[n + 1].equity
        BY <3>3, <4>1, <4>2
      <4> QED
        BY <3>4, <4>3
    <3>8. u[n + 1].equity \in Int /\ u[m].equity \in Int
      BY <1>2, <3>1, <3>2, <3>4
    <3>9. u[n + 1].equity <= u[m].equity \/ u[m].equity < u[n + 1].equity
      BY <3>8, SMT
    <3> QED
      BY <3>6, <3>7, <3>9
  <2>3. k = n + 1 \/ k \in 1..n
    BY <1>1, SMT
  <2> QED
    BY <2>1, <2>2, <2>3
<1> QED
  BY <1>1, <1>3 DEF Peaked, u

LEMMA SuffixPeaked ==
  ASSUME NEW t \in Seq(Rows), NEW k \in 2..Len(t) + 1, Peaked(t)
  PROVE  /\ SubSeq(t, k, Len(t)) \in Seq(Rows) /\ Peaked(SubSeq(t, k, Len(t)))
         /\ Len(SubSeq(t, k, Len(t))) = Len(t) - k + 1
         /\ \A i \in 1..Len(t) - k + 1 : SubSeq(t, k, Len(t))[i] = t[i + k - 1]
<1> DEFINE n == Len(t)  u == SubSeq(t, k, n)
<1>1. n \in Nat /\ k \in 2..n + 1
  BY LenProperties
<1>2. u \in Seq(Rows) /\ Len(u) = n - k + 1 /\ \A i \in 1..n - k + 1 : u[i] = t[i + k - 1]
  <2>1. \A i \in k..n : t[i] \in Rows
    <3>1. \A i \in k..n : i \in 1..n
      BY <1>1, SMT
    <3> QED
      BY <3>1, ElementOfSeq
  <2>2. k \in Int /\ n \in Int /\ (k <= n + 1) /\ k >= 1
    BY <1>1, SMT
  <2>3. u \in Seq(Rows) /\ Len(u) = (IF k <= n THEN n - k + 1 ELSE 0)
        /\ \A i \in 1..n - k + 1 : u[i] = t[k + i - 1]
    BY <2>1, <2>2, SubSeqProperties
  <2> HIDE DEF u, n
  <2>4. (IF k <= n THEN n - k + 1 ELSE 0) = n - k + 1
    BY <1>1, SMT
  <2>5. \A i \in 1..n - k + 1 : k + i - 1 = i + k - 1
    BY <1>1, SMT
  <2> QED
    BY <2>3, <2>4, <2>5
<1> HIDE DEF u
<1>3. ASSUME NEW a \in 1..n - k + 1
      PROVE  \E m \in a..n - k + 1 : \A j \in a..n - k + 1 : u[j].equity <= u[m].equity
  <2>1. a + k - 1 \in 1..n
    BY <1>1, SMT
  <2>2. PICK p \in (a + k - 1)..n : \A j \in (a + k - 1)..n : t[j].equity <= t[p].equity
    BY <2>1 DEF Peaked
  <2>3. p - k + 1 \in a..n - k + 1 /\ p - k + 1 \in 1..n - k + 1 /\ (p - k + 1) + k - 1 = p
    BY <1>1, <2>2, SMT
  <2>4. \A j \in a..n - k + 1 : j \in 1..n - k + 1 /\ j + k - 1 \in (a + k - 1)..n
    BY <1>1, SMT
  <2>5. \A j \in a..n - k + 1 : u[j].equity <= u[p - k + 1].equity
    BY <1>2, <2>2, <2>3, <2>4
  <2> QED
    BY <2>3, <2>5
<1> QED
  BY <1>2, <1>3 DEF Peaked, u

LEMMA HaltStep == HaltInv /\ [HaltNext]_haltVars => HaltInv'
<1> SUFFICES ASSUME HaltInv, [HaltNext]_haltVars PROVE HaltInv'
  OBVIOUS
<1> USE DrawdownAssumption DEF HaltInv
<1>1. CASE UNCHANGED haltVars
  BY <1>1 DEF haltVars
<1>2. CASE NetMoves
  BY <1>2 DEF NetMoves
<1>3. CASE Reallocate
  BY <1>3 DEF Reallocate
<1>4. CASE RecordSnapshot
  <2> DEFINE e == [date |-> date, equity |-> allocated + netPnl, net |-> netPnl]
  <2>1. allocated \in Nat /\ netPnl \in Int
    OBVIOUS
  <2>2. allocated + netPnl \in Int
    BY <2>1, SMT
  <2>3. e \in Rows
    BY <2>2 DEF Rows
  <2>4. snaps' = Append(snaps, e)
    BY <1>4 DEF RecordSnapshot
  <2> HIDE DEF e
  <2>5. snaps' \in Seq(Rows) /\ Peaked(snaps')
    BY <2>3, <2>4, AppendPeaked, AppendProperties
  <2> QED
    BY <1>4, <2>5 DEF RecordSnapshot
<1>5. CASE PruneSnapshots
  <2>1. PICK k \in 2..Len(snaps) + 1 : snaps' = SubSeq(snaps, k, Len(snaps))
    BY <1>5 DEF PruneSnapshots
  <2>2. snaps' \in Seq(Rows) /\ Peaked(snaps')
    BY <2>1, SuffixPeaked
  <2> QED
    BY <1>5, <2>2 DEF PruneSnapshots
<1>6. CASE NewDate
  <2>1. date' \in Int
    BY <1>6, SMT DEF NewDate
  <2> QED
    BY <1>6, <2>1 DEF NewDate
<1>7. CASE Expose
  BY <1>7 DEF Expose
<1>8. CASE WindDown
  BY <1>8 DEF WindDown
<1> QED
  BY <1>1, <1>2, <1>3, <1>4, <1>5, <1>6, <1>7, <1>8 DEF HaltNext

\* What the drawdown rule says of a table of rows with this peak and this newest row.
Trips(peak, newest) == peak > 0 /\ (peak - newest) * 100 >= MaxDrawdown * peak

LEMMA TrippedByPeak ==
  DrawdownTripped <=> snaps # <<>> /\ Trips(PeakOf(snaps), Newest.equity)
BY DEF DrawdownTripped, Trips

\* A halt outlives a step that leaves the table alone, one that appends a row no better
\* than the newest, and one that deletes rows and leaves a peak row.
LEMMA HaltStepOutlives ==
  ASSUME HaltInv, HaltInv', [HaltNext]_haltVars, DrawdownTripped, ~DrawdownTripped'
  PROVE  \/ Len(snaps') > Len(snaps) /\ Newest'.equity > Newest.equity
         \/ \A i \in 1..Len(snaps) :
              snaps[i].equity = PeakOf(snaps) => snaps[i].date < date - KeepDays
<1> DEFINE n == Len(snaps)  peak == PeakOf(snaps)  last == snaps[n].equity
<1>1. /\ snaps # <<>> /\ Trips(peak, last) /\ n \in Nat \ {0} /\ n \in 1..n
      /\ \A i \in 1..n : snaps[i] \in Rows /\ snaps[i].equity \in Int
  <2>1. n \in Nat \ {0} /\ \A i \in 1..n : snaps[i] \in Rows
    BY TrippedByPeak, EmptySeq, LenProperties, ElementOfSeq DEF HaltInv
  <2>2. n \in 1..n
    BY <2>1, SMT
  <2> QED
    BY <2>1, <2>2, TrippedByPeak DEF Rows, Newest
<1>2. /\ peak \in Int /\ \E m \in 1..n : snaps[m].equity = peak
      /\ \A i \in 1..n : snaps[i].equity <= peak
  BY <1>1, PeakIsGreatest DEF HaltInv
<1> HIDE DEF n, peak, last
<1>3. CASE snaps' = snaps
  <2>1. DrawdownTripped' <=> DrawdownTripped
    BY <1>3 DEF DrawdownTripped, PeakOf, Equities, Greatest, Newest
  <2> QED
    BY <2>1
<1>4. CASE RecordSnapshot
  <2> DEFINE e == [date |-> date, equity |-> allocated + netPnl, net |-> netPnl]
  <2>1. snaps' = Append(snaps, e) /\ e \in Rows
    <3>1. allocated \in Nat /\ netPnl \in Int
      BY DrawdownAssumption DEF HaltInv
    <3>2. allocated + netPnl \in Int
      BY <3>1, SMT
    <3> QED
      BY <1>4, <3>2 DEF RecordSnapshot, Rows, HaltInv
  <2> HIDE DEF e
  <2>2. /\ Len(snaps') = n + 1 /\ snaps'[n + 1] = e
        /\ \A i \in 1..n : snaps'[i] = snaps[i]
    BY <2>1, LenProperties, AppendProperties DEF n, HaltInv
  <2>3. Len(snaps') > n /\ Newest'.equity = e.equity /\ e.equity \in Int
    <3>1. n + 1 > n
      BY <1>1, SMT
    <3> QED
      BY <2>1, <2>2, <3>1 DEF Newest, Rows
  <2>4. CASE e.equity > last
    BY <2>3, <2>4 DEF n, last, Newest
  <2>5. CASE e.equity <= last
    <3>1. /\ snaps' # <<>>
          /\ PeakOf(snaps)' \in Int /\ \E m \in 1..n + 1 : snaps'[m].equity = PeakOf(snaps)'
          /\ \A i \in 1..n + 1 : snaps'[i].equity <= PeakOf(snaps)'
      <4>1. snaps' # <<>>
        BY <2>2, <1>1, SMT
      <4>2. PeakOf(snaps)' = PeakOf(snaps')
        BY DEF PeakOf, Equities, Greatest
      <4> QED
        BY <2>2, <4>1, <4>2, PeakIsGreatest DEF HaltInv
    <3>2. \A i \in 1..n : i \in 1..n + 1
      BY <1>1, SMT
    <3>3. \A i \in 1..n + 1 : i \in 1..n \/ i = n + 1
      BY <1>1, SMT
    <3>4. peak <= PeakOf(snaps)'
      BY <1>2, <2>2, <3>1, <3>2
    <3>5. last <= peak
      BY <1>1, <1>2 DEF last
    <3>6. PeakOf(snaps)' <= peak
      <4>1. PICK m \in 1..n + 1 : snaps'[m].equity = PeakOf(snaps)'
        BY <3>1
      <4>2. CASE m \in 1..n
        BY <1>2, <2>2, <4>1, <4>2
      <4>3. CASE m = n + 1
        <5>1. last \in Int
          BY <1>1 DEF last
        <5>2. e.equity <= peak
          BY <1>2, <2>3, <2>5, <3>5, <5>1, SMT
        <5> QED
          BY <2>2, <4>1, <4>3, <5>2
      <4> QED
        BY <3>3, <4>2, <4>3
    <3>7. PeakOf(snaps)' = peak
      BY <1>2, <3>1, <3>4, <3>6, SMT
    <3>8. Trips(peak, e.equity)
      <4>1. last \in Int /\ MaxDrawdown \in Int
        BY <1>1, DrawdownAssumption, SMT DEF last
      <4> QED
        BY <1>1, <1>2, <2>3, <2>5, <4>1, SMT DEF Trips
    <3>9. DrawdownTripped'
      BY <2>3, <3>1, <3>7, <3>8 DEF DrawdownTripped, Trips
    <3> QED
      BY <3>9
  <2>6. last \in Int
    BY <1>1 DEF last
  <2> QED
    BY <2>3, <2>4, <2>5, <2>6, SMT
<1>5. CASE PruneSnapshots
  <2>1. PICK k \in 2..n + 1 :
          /\ \A i \in 1..n : snaps[i].date < date - KeepDays <=> i < k
          /\ snaps' = SubSeq(snaps, k, n)
    BY <1>5 DEF PruneSnapshots, n
  <2> SUFFICES ASSUME NEW i \in 1..n, snaps[i].equity = peak,
                      ~(snaps[i].date < date - KeepDays)
               PROVE  FALSE
    BY DEF n, peak
  <2>2. k <= i /\ i \in Int /\ k \in Int
    BY <1>1, <2>1, SMT
  <2>3. /\ Len(snaps') = n - k + 1
        /\ \A j \in 1..n - k + 1 : snaps'[j] = snaps[j + k - 1]
    BY <2>1, SuffixPeaked DEF HaltInv, n
  <2>4. /\ i - k + 1 \in 1..n - k + 1 /\ (i - k + 1) + k - 1 = i
        /\ n - k + 1 \in 1..n - k + 1 /\ (n - k + 1) + k - 1 = n
        /\ \A j \in 1..n - k + 1 : j + k - 1 \in 1..n
    BY <1>1, <2>2, SMT
  <2>5. snaps'[i - k + 1].equity = peak /\ snaps'[n - k + 1].equity = last
    BY <2>3, <2>4 DEF last
  <2>6. snaps' # <<>>
    <3>1. Len(snaps') # 0
      BY <1>1, <2>2, <2>3, SMT
    <3> QED
      BY <3>1, EmptySeq
  <2>7. /\ PeakOf(snaps)' \in Int /\ \E m \in 1..n - k + 1 : snaps'[m].equity = PeakOf(snaps)'
        /\ \A j \in 1..n - k + 1 : snaps'[j].equity <= PeakOf(snaps)'
    <3>1. PeakOf(snaps)' = PeakOf(snaps')
      BY DEF PeakOf, Equities, Greatest
    <3> QED
      BY <2>3, <2>6, <3>1, PeakIsGreatest DEF HaltInv
  <2>8. peak <= PeakOf(snaps)'
    BY <2>4, <2>5, <2>7
  <2>9. PeakOf(snaps)' <= peak
    BY <1>2, <2>3, <2>4, <2>7
  <2>10. PeakOf(snaps)' = peak
    BY <1>2, <2>7, <2>8, <2>9, SMT
  <2>11. Newest'.equity = last
    BY <2>3, <2>5 DEF Newest
  <2>12. DrawdownTripped'
    BY <1>1, <2>6, <2>10, <2>11 DEF DrawdownTripped, Trips
  <2> QED
    BY <2>12
<1> QED
  BY <1>3, <1>4, <1>5 DEF HaltNext, haltVars, NetMoves, Reallocate, NewDate, Expose, WindDown

\* Once a drawdown has halted trading, no losing day, no fill, no allocation and no
\* midnight lifts the halt: only a snapshot better than the newest does, or the
\* retention job, when every row that holds the peak is older than it keeps.
THEOREM HaltSurvives == HaltSpec => HaltOutlivesLosses
<1>1. HaltInit => HaltInv
  <2> SUFFICES ASSUME HaltInit PROVE HaltInv
    OBVIOUS
  <2>1. snaps \in Seq(Rows) /\ Len(snaps) = 0 /\ 1..Len(snaps) = {}
    BY EmptySeq, SMT DEF HaltInit
  <2> QED
    BY <2>1 DEF HaltInit, HaltInv, Peaked
<1>2. HaltInv /\ [HaltNext]_haltVars => HaltInv'
  BY HaltStep
<1>3. HaltInv /\ HaltInv' /\ [HaltNext]_haltVars =>
        [DrawdownTripped /\ ~DrawdownTripped' =>
           \/ Len(snaps') > Len(snaps) /\ Newest'.equity > Newest.equity
           \/ \A i \in 1..Len(snaps) :
                snaps[i].equity = PeakOf(snaps) => snaps[i].date < date - KeepDays]_haltVars
  BY HaltStepOutlives
<1> QED
  BY <1>1, <1>2, <1>3, PTL DEF HaltSpec, HaltOutlivesLosses
----------------------------------------------------------------------------
\* The types of the snapshots.

\* The table is in the order of its dates, and a row's equity is the budgets it was
\* recorded under and its net PnL.
Dated(t) ==
  \A i \in 1..Len(t) :
    /\ t[i].date \in 0..date /\ t[i].net \in NetRange
    /\ t[i].equity - t[i].net \in Allocations
    /\ i > 1 => t[i - 1].date <= t[i].date

HaltRanges ==
  date \in 0..DateBound /\ exposed \in 0..1 /\ Len(snaps) <= SnapBound /\ Dated(snaps)

LEMMA AppendDated ==
  ASSUME HaltInv, HaltRanges, RecordSnapshot
  PROVE  Dated(snaps)'
<1> USE DrawdownAssumption
<1> DEFINE e == [date |-> date, equity |-> allocated + netPnl, net |-> netPnl]
<1> DEFINE n == Len(snaps)
<1>1. /\ allocated \in Nat /\ netPnl \in Int /\ allocated \in Allocations /\ netPnl \in NetRange
      /\ date \in Nat /\ date' = date /\ snaps \in Seq(Rows) /\ n \in Nat
  BY SMT DEF HaltInv, HaltRanges, RecordSnapshot
<1>2. e \in Rows /\ e.date = date /\ e.net = netPnl /\ e.equity = allocated + netPnl
  BY <1>1, SMT DEF Rows
<1>3. snaps' = Append(snaps, e)
  BY DEF RecordSnapshot
<1> HIDE DEF e
<1>4. Len(snaps') = n + 1 /\ snaps'[n + 1] = e /\ \A i \in 1..n : snaps'[i] = snaps[i]
  BY <1>1, <1>2, <1>3, AppendProperties
<1> HIDE DEF n
<1>5. (allocated + netPnl) - netPnl = allocated
  BY <1>1, SMT
<1>6. e.date \in 0..date /\ e.net \in NetRange /\ e.equity - e.net \in Allocations
  BY <1>1, <1>2, <1>5, SMT
<1>7. \A i \in 1..n :
        /\ snaps[i].date \in 0..date /\ snaps[i].net \in NetRange
        /\ snaps[i].equity - snaps[i].net \in Allocations
        /\ i > 1 => snaps[i - 1].date <= snaps[i].date
  BY DEF HaltRanges, Dated, n
<1>8. ASSUME NEW i \in 1..n
      PROVE  /\ snaps'[i].date \in 0..date' /\ snaps'[i].net \in NetRange
             /\ snaps'[i].equity - snaps'[i].net \in Allocations
             /\ i > 1 => snaps'[i - 1].date <= snaps'[i].date
  <2>1. i > 1 => i - 1 \in 1..n
    BY <1>1, SMT
  <2> QED
    BY <1>1, <1>4, <1>7, <2>1
<1>9. n + 1 > 1 => snaps'[n + 1 - 1].date <= snaps'[n + 1].date
  <2>1. n + 1 > 1 => n \in 1..n /\ n + 1 - 1 = n
    BY <1>1, SMT
  <2>2. n + 1 > 1 => snaps[n].date \in 0..date
    BY <1>7, <2>1
  <2> QED
    BY <1>1, <1>2, <1>4, <2>1, <2>2, SMT
<1>10. \A i \in 1..n + 1 : i \in 1..n \/ i = n + 1
  BY <1>1, SMT
<1> QED
  BY <1>1, <1>4, <1>6, <1>8, <1>9, <1>10 DEF Dated

LEMMA SuffixDated ==
  ASSUME HaltInv, Dated(snaps), NEW k \in 2..Len(snaps) + 1
  PROVE  /\ Dated(SubSeq(snaps, k, Len(snaps)))
         /\ Len(SubSeq(snaps, k, Len(snaps))) <= Len(snaps)
<1> DEFINE n == Len(snaps)
<1> DEFINE t == SubSeq(snaps, k, n)
<1>1. snaps \in Seq(Rows) /\ n \in Nat /\ k \in 2..n + 1
  BY DEF HaltInv
<1>2. Len(t) = n - k + 1 /\ \A i \in 1..n - k + 1 : t[i] = snaps[k + i - 1]
  BY <1>1, SMT
<1>3. \A i \in 1..n :
        /\ snaps[i].date \in 0..date /\ snaps[i].net \in NetRange
        /\ snaps[i].equity - snaps[i].net \in Allocations
        /\ i > 1 => snaps[i - 1].date <= snaps[i].date
  BY DEF Dated
<1> HIDE DEF n, t
<1>4. ASSUME NEW i \in 1..Len(t)
      PROVE  /\ t[i].date \in 0..date /\ t[i].net \in NetRange
             /\ t[i].equity - t[i].net \in Allocations
             /\ i > 1 => t[i - 1].date <= t[i].date
  <2>1. k + i - 1 \in 1..n /\ t[i] = snaps[k + i - 1]
    BY <1>1, <1>2, SMT
  <2>2. i > 1 => i - 1 \in 1..n - k + 1 /\ k + (i - 1) - 1 = (k + i - 1) - 1 /\ k + i - 1 > 1
    BY <1>1, <1>2, SMT
  <2>3. i > 1 => t[i - 1] = snaps[(k + i - 1) - 1]
    BY <1>2, <2>2
  <2> QED
    BY <1>3, <2>1, <2>2, <2>3
<1>5. Len(t) <= n
  BY <1>1, <1>2, SMT
<1> QED
  BY <1>4, <1>5 DEF Dated, n, t

LEMMA HaltRangesStep == HaltInv /\ HaltRanges /\ [HaltNext]_haltVars => HaltRanges'
<1> SUFFICES ASSUME HaltInv, HaltRanges, [HaltNext]_haltVars PROVE HaltRanges'
  OBVIOUS
<1> USE DrawdownAssumption
<1>1. CASE UNCHANGED <<snaps, date>> /\ exposed' \in 0..1
  BY <1>1 DEF HaltRanges, Dated
<1>2. CASE NetMoves \/ Reallocate
  BY <1>1, <1>2 DEF NetMoves, Reallocate, HaltRanges
<1>3. CASE RecordSnapshot
  <2>1. snaps \in Seq(Rows) /\ Len(snaps) \in Nat /\ Len(snaps) < SnapBound
    BY <1>3 DEF RecordSnapshot, HaltInv
  <2>2. Len(snaps') = Len(snaps) + 1
    BY <1>3, <2>1 DEF RecordSnapshot
  <2>3. Len(snaps') <= SnapBound
    BY <2>1, <2>2, SMT
  <2> QED
    BY <1>3, <2>3, AppendDated DEF RecordSnapshot, HaltRanges
<1>4. CASE PruneSnapshots
  <2>1. PICK k \in 2..Len(snaps) + 1 : snaps' = SubSeq(snaps, k, Len(snaps))
    BY <1>4 DEF PruneSnapshots
  <2>2. Dated(snaps)' /\ Len(snaps') <= Len(snaps)
    BY <1>4, <2>1, SuffixDated DEF HaltRanges, Dated, PruneSnapshots
  <2>3. Len(snaps) \in Nat /\ Len(snaps') \in Nat
    <3>1. snaps \in Seq(Rows) /\ snaps' \in Seq(Rows)
      BY <2>1, SuffixPeaked DEF HaltInv
    <3> QED
      BY <3>1
  <2>4. Len(snaps') <= SnapBound
    BY <2>2, <2>3, SMT DEF HaltRanges
  <2> QED
    BY <1>4, <2>2, <2>4 DEF PruneSnapshots, HaltRanges
<1>5. CASE NewDate
  <2>1. date \in Nat /\ date' = date + 1 /\ date' \in 0..DateBound /\ 0..date \subseteq 0..date'
    BY <1>5, SMT DEF NewDate, HaltRanges
  <2>2. snaps' = snaps /\ exposed' = exposed
    BY <1>5 DEF NewDate
  <2> QED
    BY <2>1, <2>2 DEF HaltRanges, Dated
<1>6. CASE Expose \/ WindDown
  BY <1>1, <1>6, SMT DEF Expose, WindDown
<1>7. CASE UNCHANGED haltVars
  BY <1>1, <1>7 DEF haltVars, HaltRanges
<1> QED
  BY <1>2, <1>3, <1>4, <1>5, <1>6, <1>7 DEF HaltNext

\* The snapshots keep their types: the table stays in the order of its dates through
\* every prune, which is what lets retention delete the oldest rows alone.
THEOREM HaltTypesHold == HaltSpec => []HaltTypeOK
<1>1. HaltInit => HaltInv /\ HaltRanges
  <2> SUFFICES ASSUME HaltInit PROVE HaltInv /\ HaltRanges
    OBVIOUS
  <2>1. snaps \in Seq(Rows) /\ Len(snaps) = 0 /\ 1..Len(snaps) = {}
    BY EmptySeq, SMT DEF HaltInit
  <2>2. date \in 0..DateBound /\ exposed \in 0..1 /\ Len(snaps) <= SnapBound
    BY <2>1, DrawdownAssumption, SMT DEF HaltInit
  <2> QED
    BY <2>1, <2>2 DEF HaltInit, HaltInv, HaltRanges, Peaked, Dated
<1>2. HaltInv /\ HaltRanges => HaltTypeOK
  BY DEF HaltInv, HaltRanges, Dated, HaltTypeOK
<1> QED
  BY <1>1, <1>2, HaltStep, HaltRangesStep, PTL DEF HaltSpec

----------------------------------------------------------------------------
\* The composition.

LEMMA OperationsStep ==
  ASSUME [OperationsNext]_operationsVars
  PROVE  /\ [LifeNext]_lifeVars /\ [AccountsNext]_moneyVars /\ [HaltNext]_haltVars
         /\ [AccessNext]_accessVars /\ [LoginNext]_loginVars
         /\ [GraphNext]_graphVars /\ [SettingsNext]_settingsVars
<1>1. CASE UNCHANGED operationsVars
  BY <1>1 DEF operationsVars
<1>2. CASE OperationsNext
  BY <1>2 DEF OperationsNext
<1> QED
  BY <1>1, <1>2

\* A behaviour of the instance is one of every component: what is proved of a component
\* holds of it beside the others.
THEOREM OperationsIsItsParts ==
  OperationsSpec =>
    /\ LifeSpec /\ AccountsSpec /\ HaltSpec
    /\ AccessSpec /\ LoginSpec /\ GraphSpec /\ SettingsSpec
<1>1. OperationsInit => /\ LifeInit /\ AccountsInit /\ HaltInit
                        /\ AccessInit /\ LoginInit /\ GraphInit /\ SettingsInit
  BY DEF OperationsInit
<1>2. [OperationsNext]_operationsVars =>
        /\ [LifeNext]_lifeVars /\ [AccountsNext]_moneyVars /\ [HaltNext]_haltVars
        /\ [AccessNext]_accessVars /\ [LoginNext]_loginVars
        /\ [GraphNext]_graphVars /\ [SettingsNext]_settingsVars
  BY OperationsStep
<1>3. OperationsSpec => OperationsInit /\ [][OperationsNext]_operationsVars
  BY PTL DEF OperationsSpec
<1> QED
  BY <1>1, <1>2, <1>3, PTL
  DEF LifeSpec, AccountsSpec, HaltSpec, AccessSpec, LoginSpec, GraphSpec, SettingsSpec

\* Every type invariant of the seven, of the instance.
THEOREM OperationsTypesHold == OperationsSpec => []OperationsTypeOK
<1>1. LifeTypeOK /\ AccountsTypeOK /\ HaltTypeOK /\ AccessTypeOK /\ LoginTypeOK
      /\ GraphTypeOK /\ SettingsTypeOK
        => OperationsTypeOK
  BY DEF OperationsTypeOK
<1> QED
  BY <1>1, OperationsIsItsParts, LifeTypeCorrect, AccountsTypesHold, HaltTypesHold,
     AccessTypesHold, LoginTypesHold, GraphTypesHold, SettingsTypesHold, PTL
=============================================================================
