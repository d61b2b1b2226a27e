---------------------------- MODULE LoginLimiter -----------------------------
(***************************************************************************)
(* The attempt counter of POST /auth/login (auth/ratelimit.py), in memory  *)
(* and shared by the request threads: the lockout is looked up, the row    *)
(* read and the password hashed, and the counter reset or read and written *)
(* again, while other logins go on.  Whether the login succeeds, and when  *)
(* a lockout runs out, is a free choice; what a login reads of the table,  *)
(* and what it is given, is in Access.                                     *)
(***************************************************************************)
EXTENDS Integers

CONSTANTS
  LoginNames,   \* the names logins are tried with
  Logins,       \* login request threads
  MaxAttempts,  \* login_max_attempts
  MaxCount      \* bound: failures counted for one name

ASSUME AttemptsAssumption == MaxAttempts \in Nat \ {0} /\ MaxCount \in Nat
ASSUME NamesAssumption == LoginNames # {}

VARIABLES
  attempts,  \* attempts[u]: [count, until], the entry of name u; count 0: none
  loginAt    \* loginAt[l]: [pc, name, count] of login thread l

loginVars == <<attempts, loginAt>>

\* locked_until: 0.0, a time to come, or one that has passed.
Untils == {"unset", "ahead", "past"}
NoEntry == [count |-> 0, until |-> "unset"]
NoLogin == [pc |-> "idle", name |-> CHOOSE u \in LoginNames : TRUE, count |-> 0]

LoginInit ==
  /\ attempts = [u \in LoginNames |-> NoEntry]
  /\ loginAt = [l \in Logins |-> NoLogin]

\* is_locked: a locked name is turned away.
NotLocked(l, u) ==
  /\ loginAt[l].pc = "idle" /\ attempts[u].until # "ahead"
  /\ loginAt' = [loginAt EXCEPT ![l] = [pc |-> "check", name |-> u, count |-> 0]]
  /\ UNCHANGED attempts

\* reset.
LoginSucceeds(l) ==
  /\ loginAt[l].pc = "check"
  /\ attempts' = [attempts EXCEPT ![loginAt[l].name] = NoEntry]
  /\ loginAt' = [loginAt EXCEPT ![l] = NoLogin]

\* record_failure reads the count ...
CountFailure(l) ==
  /\ loginAt[l].pc = "check"
  /\ loginAt' = [loginAt EXCEPT ![l] =
                   [pc |-> "write", name |-> loginAt[l].name,
                    count |-> attempts[loginAt[l].name].count]]
  /\ UNCHANGED attempts

\* ... and writes the next one; the attempt that reaches the limit locks the name,
\* and so does every failure after the lockout has run out.
RecordFailure(l) ==
  LET n == loginAt[l].count + 1 IN
  /\ loginAt[l].pc = "write" /\ n <= MaxCount
  /\ attempts' = [attempts EXCEPT ![loginAt[l].name] =
                    [count |-> n, until |-> IF n >= MaxAttempts THEN "ahead" ELSE "unset"]]
  /\ loginAt' = [loginAt EXCEPT ![l] = NoLogin]

LockoutEnds(u) ==
  /\ attempts[u].until = "ahead"
  /\ attempts' = [attempts EXCEPT ![u] = [count |-> attempts[u].count, until |-> "past"]]
  /\ UNCHANGED loginAt

LoginNext ==
  \/ \E l \in Logins : LoginSucceeds(l) \/ CountFailure(l) \/ RecordFailure(l)
  \/ \E u \in LoginNames : LockoutEnds(u) \/ \E l \in Logins : NotLocked(l, u)

LoginSpec == LoginInit /\ [][LoginNext]_loginVars

----------------------------------------------------------------------------
Entries == [count : 0..MaxCount, until : Untils]
LoginStates == [pc : {"idle", "check", "write"}, name : LoginNames, count : 0..MaxCount]

\* Every variable stays in its domain; and a name is locked out, or was since its last
\* failure, exactly when its count has reached the limit, so that the failure after a
\* lockout locks it again.
LoginTypeOK ==
  /\ attempts \in [LoginNames -> Entries]
  /\ \A u \in LoginNames : attempts[u].until # "unset" <=> attempts[u].count >= MaxAttempts
  /\ loginAt \in [Logins -> LoginStates]
=============================================================================
