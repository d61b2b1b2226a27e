------------------------------- MODULE Access --------------------------------
(***************************************************************************)
(* Who is let in: operators who log in, the tokens they are given, the API *)
(* tokens, and the requests that change the user table and the tokens.     *)
(*                                                                         *)
(* A request reads the row of its account once, at its start, and acts     *)
(* later: on what it read, and on the row of the user it changes, which it *)
(* loads before it commits.  The requests interleave between these steps.  *)
(* Whether a password fits, and when a token expires, is a free choice;    *)
(* the attempt counter of the login is in LoginLimiter.                    *)
(***************************************************************************)
EXTENDS Integers, FiniteSets

CONSTANTS
  Operators,    \* the names of the user table
  Admin,        \* the operator seed_admin created
  ApiTokens,    \* API tokens that may be created
  Requests,     \* request threads
  Patches,      \* what a request on a user may ask for: sets of Changes
  MaxTokens     \* bound: JWTs alive at a time

Roles == {"admin", "user"}

\* What can be asked of a user's row: a role, is_active on or off, a password.
Changes == Roles \cup {"on", "off", "password"}

ASSUME SeededAssumption == Admin \in Operators /\ Operators \cap ApiTokens = {}
ASSUME PatchesAssumption ==
  /\ Patches \subseteq SUBSET Changes
  /\ \A p \in Patches : ~(Roles \subseteq p) /\ ~({"on", "off"} \subseteq p)
ASSUME TokensAssumption == MaxTokens \in Nat

VARIABLES
  users,      \* users[u]: [active, role], for the names in the table
  tokens,     \* JWTs that have not expired: [type, sub, role]
  apiToken,   \* apiToken[k]: [state, role] of row k
  requestAt,  \* requestAt[r]: [pc, by, role, target, asks, writes] of thread r
  vouched     \* vouched[r]: the role the table gave r's account at its start: history

accessVars == <<users, tokens, apiToken, requestAt, vouched>>

Idle == [pc |-> "idle", by |-> Admin, role |-> "user",
         target |-> Admin, asks |-> {}, writes |-> {}]
Present == DOMAIN users
IsActive(u) == u \in Present /\ users[u].active

AccessInit ==
  /\ users = [u \in {Admin} |-> [active |-> TRUE, role |-> "admin"]]
  /\ tokens = {}
  /\ apiToken = [k \in ApiTokens |-> [state |-> "none", role |-> "user"]]
  /\ requestAt = [r \in Requests |-> Idle]
  /\ vouched = [r \in Requests |-> "none"]

----------------------------------------------------------------------------
\* Requests and their accounts.

\* Thread r goes to pc for the account it has read, whose role is role.
Starts(r, pc, account, role, tableRole) ==
  /\ requestAt[r].pc = "idle"
  /\ requestAt' = [requestAt EXCEPT ![r] = [Idle EXCEPT !.pc = pc, !.by = account, !.role = role]]
  /\ vouched' = [vouched EXCEPT ![r] = tableRole]

Ends(r) ==
  /\ requestAt' = [requestAt EXCEPT ![r] = Idle]
  /\ vouched' = [vouched EXCEPT ![r] = "none"]

\* POST /auth/login: the row is read, and the password hashed for longer than a row
\* changes; what fails here is counted in LoginLimiter.
LoginReads(r, u) ==
  /\ IsActive(u)
  /\ Starts(r, "issue", u, users[u].role, users[u].role)
  /\ UNCHANGED <<users, tokens, apiToken>>

\* POST /auth/refresh: a refresh token of an active operator buys a new pair, and
\* stays good for another.
RefreshReads(r, t) ==
  /\ t.type = "refresh" /\ IsActive(t.sub)
  /\ Starts(r, "issue", t.sub, users[t.sub].role, users[t.sub].role)
  /\ UNCHANGED <<users, tokens, apiToken>>

\* create_access_token claims the role that was read, create_refresh_token the name.
TokenPair(u, role) == {[type |-> "access", sub |-> u, role |-> role],
                       [type |-> "refresh", sub |-> u, role |-> "user"]}

IssuePair(r) ==
  LET pair == TokenPair(requestAt[r].by, requestAt[r].role) IN
  /\ requestAt[r].pc = "issue"
  /\ Cardinality(tokens \cup pair) <= MaxTokens
  /\ tokens' = tokens \cup pair
  /\ Ends(r)
  /\ UNCHANGED <<users, apiToken>>

Expire(t) ==
  /\ tokens' = tokens \ {t}
  /\ UNCHANGED <<users, apiToken, requestAt, vouched>>

----------------------------------------------------------------------------
\* get_current_user and require_admin.

RoleClaimed(t) == t.role

\* The role is the one in the table, whatever the token was issued with.
RoleOf(t) == users[t.sub].role

\* An access token of an active operator who is an admin.
PassWithJwt(r, t) ==
  /\ t.type = "access" /\ IsActive(t.sub) /\ RoleOf(t) = "admin"
  /\ Starts(r, "passed", t.sub, RoleOf(t), users[t.sub].role)
  /\ UNCHANGED <<users, tokens, apiToken>>

\* verify_api_token reads the token's row ...
ApiTokenReads(r, k) ==
  /\ apiToken[k].state = "live"
  /\ Starts(r, "stamp", k, apiToken[k].role, apiToken[k].role)
  /\ UNCHANGED <<users, tokens, apiToken>>

\* ... commits last_used_at alone, and reads the row again: the role counts, whether it
\* was revoked meanwhile does not.
PassWithApiToken(r) ==
  LET role == apiToken[requestAt[r].by].role IN
  /\ requestAt[r].pc = "stamp"
  /\ IF role = "admin"
       THEN /\ requestAt' = [requestAt EXCEPT ![r] =
                               [requestAt[r] EXCEPT !.pc = "passed", !.role = role]]
            /\ UNCHANGED vouched
       ELSE Ends(r)
  /\ UNCHANGED <<users, tokens, apiToken>>

\* /ws/market goes by the access token alone: the table is not read, and the stream
\* goes on until its client leaves.
OpenStream(r, t) ==
  /\ t.type = "access"
  /\ Starts(r, "stream", t.sub, RoleClaimed(t), "none")
  /\ UNCHANGED <<users, tokens, apiToken>>

\* The client of a stream leaves; a request is refused, or was for another endpoint.
RequestEnds(r) ==
  /\ requestAt[r].pc \in {"stream", "passed"}
  /\ Ends(r)
  /\ UNCHANGED <<users, tokens, apiToken>>

----------------------------------------------------------------------------
\* /api/users and /api/tokens, each for a request that has passed the gate: the account
\* may have lost its role since, which no endpoint looks at again.  Each ends with its
\* audit row, which nothing reads.

Administered(r) == requestAt[r].pc = "passed" /\ requestAt[r].role = "admin"

\* The row after the changes of c.
Applied(row, c) ==
  [active |-> "on" \in c \/ (row.active /\ "off" \notin c),
   role   |-> IF "admin" \in c THEN "admin" ELSE IF "user" \in c THEN "user" ELSE row.role]

\* Every column, with the value that was loaded where no other was asked for.
AllColumns(row, asks) ==
  LET wanted == Applied(row, asks) IN
  asks \cup {IF wanted.active THEN "on" ELSE "off", wanted.role}

\* The columns an UPDATE names: those whose value is not the one that was loaded.
ChangedColumns(row, asks) == {c \in asks : c = "password" \/ Applied(row, {c}) # row}

\* The session gives the row the gate has read back to the request of its own user.
LoadedRow(r, u) ==
  IF u = requestAt[r].by THEN [active |-> TRUE, role |-> requestAt[r].role] ELSE users[u]

\* update_user and reset_password load the row and assign ...
LoadUser(r, u, patch) ==
  /\ Administered(r) /\ u \in Present
  /\ requestAt' = [requestAt EXCEPT ![r] =
                     [Idle EXCEPT !.pc = "commit", !.role = "admin", !.target = u, !.asks = patch,
                                  !.writes = ChangedColumns(LoadedRow(r, u), patch)]]
  /\ UNCHANGED <<users, tokens, apiToken, vouched>>

\* ... hash the password, and commit.  The tokens given out before stay good.
CommitUser(r) ==
  /\ requestAt[r].pc = "commit"
  /\ users' = [users EXCEPT ![requestAt[r].target] =
                 Applied(users[requestAt[r].target], requestAt[r].writes)]
  /\ Ends(r)
  /\ UNCHANGED <<tokens, apiToken>>

CreateUser(r, u, role) ==
  /\ Administered(r) /\ u \notin Present
  /\ users' = [v \in Present \cup {u} |->
                 IF v = u THEN [active |-> TRUE, role |-> role] ELSE users[v]]
  /\ Ends(r)
  /\ UNCHANGED <<tokens, apiToken>>

CreateApiToken(r, k, role) ==
  /\ Administered(r) /\ apiToken[k].state = "none"
  /\ apiToken' = [apiToken EXCEPT ![k] = [state |-> "live", role |-> role]]
  /\ Ends(r)
  /\ UNCHANGED <<users, tokens>>

RevokeApiToken(r, k) ==
  /\ Administered(r) /\ apiToken[k].state # "none"
  /\ apiToken' = [apiToken EXCEPT ![k] = [state |-> "revoked", role |-> apiToken[k].role]]
  /\ Ends(r)
  /\ UNCHANGED <<users, tokens>>

AccessNext ==
  \/ \E t \in tokens : Expire(t)
  \/ \E r \in Requests :
       \/ IssuePair(r) \/ PassWithApiToken(r) \/ RequestEnds(r) \/ CommitUser(r)
       \/ \E t \in tokens : RefreshReads(r, t) \/ PassWithJwt(r, t) \/ OpenStream(r, t)
       \/ \E k \in ApiTokens : \/ ApiTokenReads(r, k) \/ RevokeApiToken(r, k)
                               \/ \E role \in Roles : CreateApiToken(r, k, role)
       \/ \E u \in Operators : \/ LoginReads(r, u)
                               \/ \E patch \in Patches : LoadUser(r, u, patch)
                               \/ \E role \in Roles : CreateUser(r, u, role)

AccessSpec == AccessInit /\ [][AccessNext]_accessVars

----------------------------------------------------------------------------
UserRows == [active : BOOLEAN, role : Roles]
Jwts == [type : {"access", "refresh"}, sub : Operators, role : Roles]
ApiTokenRows == [state : {"none", "live", "revoked"}, role : Roles]
RequestStates ==
  [pc : {"idle", "issue", "stamp", "passed", "commit", "stream"},
   by : Operators \cup ApiTokens, role : Roles,
   target : Operators, asks : SUBSET Changes, writes : SUBSET Changes]

\* Every variable stays in its domain, and tokens are only issued for known names.
AccessTypeOK ==
  /\ Admin \in Present /\ Present \subseteq Operators
  /\ users \in [Present -> UserRows]
  /\ tokens \subseteq Jwts /\ \A t \in tokens : t.sub \in Present
  /\ apiToken \in [ApiTokens -> ApiTokenRows]
  /\ requestAt \in [Requests -> RequestStates]
  /\ vouched \in [Requests -> Roles \cup {"none"}]

\* A request that ends in this step, whose account had the role when it began.
EndsVouched(r, role) ==
  requestAt[r].pc # "idle" /\ requestAt'[r].pc = "idle" /\ vouched[r] = role

\* What becomes of u's row is what the request on it asked for, column by column.
AsAsked(u, asks) ==
  /\ users'[u].active # users[u].active => (IF users'[u].active THEN "on" ELSE "off") \in asks
  /\ users'[u].role # users[u].role => users'[u].role \in asks

\* "The API enforces it here so the gate cannot be bypassed" (deps.py), "revocable
\* credentials" (api_tokens.py): whatever a credential said when it was issued and
\* refreshed from, and however the requests interleave, an access token is issued
\* with a role the table gave its owner when the request began; the tables change
\* only by the request of an account that was an admin then; a user's row changes
\* only in the columns that request asked for, so that no request with an older row
\* undoes a deactivation or a role; and a revoked API token stays revoked.
RequestsFollowTheTable ==
  [][/\ \A t \in tokens' \ tokens : t.type = "access" =>
          \E r \in Requests : requestAt[r].by = t.sub /\ EndsVouched(r, t.role)
     /\ <<users, apiToken>>' # <<users, apiToken>> =>
          \E r \in Requests : EndsVouched(r, "admin") /\
            \A u \in Present : u \in Present' /\
              (users'[u] # users[u] =>
                 requestAt[r].target = u /\ AsAsked(u, requestAt[r].asks))
     /\ \A k \in ApiTokens : apiToken[k].state = "revoked" => apiToken'[k] = apiToken[k]]_accessVars
=============================================================================
