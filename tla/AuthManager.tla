----------------------------- MODULE AuthManager -----------------------------
(***************************************************************************)
(* Users and sessions over the repositories: each repository call is one    *)
(* SQL statement, atomic in the database, which may be away; an operation   *)
(* of AuthManager reads a row with one call and writes it back with         *)
(* another, so operations interleave in between. Times are whole hours; the *)
(* repository writes those of a session in UTC and reads them as local      *)
(* time, hoursWest away. Rows of users hold the hash of the password, and   *)
(* deleting one deletes its sessions (scripts/init.sql).                   *)
(***************************************************************************)
EXTENDS Integers, FiniteSets, SequencesExt

CONSTANTS
    User, Role,
    AuthThread,   \* threads that call AuthManager
    SessionId,    \* bound: sessions that are ever created
    SessionHours, \* 24
    hoursWest,    \* local time is that far west of UTC
    MaxHours,     \* bound: the last hour of the clock
    MaxAuthOps    \* bound: calls of all threads

ASSUME AuthAssumption ==
    SessionHours \in Nat \ {0} /\ hoursWest \in Int /\ MaxHours \in Nat /\ MaxAuthOps \in Nat

VARIABLES
    users,     \* rows of users, by name: active, roles, hash
    sessions,  \* rows of sessions, by id: user, expires, valid
    jwts,      \* tokens that were generated: user, expires
    op,        \* each thread: its call and the row it has read
    hour,      \* the clock
    created,   \* history: the hour a session was created, -1 before
    revoked,   \* history: sessions whose revocation was written
    authOps    \* calls so far

auvars == <<users, sessions, jwts, op, hour, created, revoked, authOps>>

NoRow == [none |-> TRUE]
NoOp == [call |-> "idle"]

AuInit ==
    /\ users = [u \in User |-> NoRow] /\ sessions = [s \in SessionId |-> NoRow]
    /\ jwts = {} /\ op = [t \in AuthThread |-> NoOp]
    /\ hour = 0 /\ created = [s \in SessionId |-> -1] /\ revoked = {} /\ authOps = 0

-----------------------------------------------------------------------------
(* A hash has the three dollar signs of its prefix and hexadecimal digits;  *)
(* the check looks for a fourth to find what to compare.                   *)

hashPassword(password, salt) == [dollars |-> 3, of |-> <<password, salt>>]

verifyPassword(password, hash) ==
    hash.dollars > 3 /\ hash.of = hashPassword(password, "fixed_salt").of

authenticateUser(u, password) ==
    /\ users[u] # NoRow /\ users[u].active
    /\ verifyPassword(password, users[u].hash)

hasPermission(u, resource, action) ==
    /\ users[u] # NoRow /\ users[u].active
    /\ \/ "admin" \in ToSet(users[u].roles)
       \/ "user" \in ToSet(users[u].roles) /\ resource = "jobs" /\ action \in {"read", "create"}

Call(t, c) ==
    /\ op[t] = NoOp /\ authOps < MaxAuthOps
    /\ authOps' = authOps + 1
    /\ op' = [op EXCEPT ![t] = c]

Return(t) == op' = [op EXCEPT ![t] = NoOp] /\ UNCHANGED authOps

-----------------------------------------------------------------------------
(* Users. userExists answers false while the database is away; the unique   *)
(* name then refuses the insert.                                           *)

createUser(t, u) ==
    /\ \E away \in BOOLEAN : users[u] = NoRow \/ away
    /\ Call(t, [call |-> "insert", user |-> u])
    /\ UNCHANGED <<users, sessions, jwts, hour, created, revoked>>

InsertUser(t) ==
    /\ op[t].call = "insert"
    /\ LET u == op[t].user IN
       users' = IF users[u] # NoRow THEN users
                ELSE [users EXCEPT ![u] = [active |-> TRUE, roles |-> <<"user">>,
                                           hash |-> hashPassword(u, "salt")]]
    /\ Return(t)
    /\ UNCHANGED <<sessions, jwts, hour, created, revoked>>

(* updateUser writes every column from the row its caller holds.            *)
deactivate(u) ==
    /\ users[u] # NoRow /\ users' = [users EXCEPT ![u].active = FALSE]
    /\ UNCHANGED <<sessions, jwts, op, hour, created, revoked, authOps>>

deleteUser(u) ==
    /\ users[u] # NoRow /\ users' = [users EXCEPT ![u] = NoRow]
    /\ sessions' = [s \in SessionId |->
                      IF sessions[s] # NoRow /\ sessions[s].user = u THEN NoRow ELSE sessions[s]]
    /\ UNCHANGED <<jwts, op, hour, created, revoked, authOps>>

assignRole(t, u, role) ==
    /\ users[u] # NoRow /\ role \notin ToSet(users[u].roles)
    /\ Call(t, [call |-> "write user", user |-> u,
                row |-> [users[u] EXCEPT !.roles = Append(@, role)]])
    /\ UNCHANGED <<users, sessions, jwts, hour, created, revoked>>

revokeRole(t, u, role) ==
    /\ users[u] # NoRow /\ role \in ToSet(users[u].roles)
    /\ Call(t, [call |-> "write user", user |-> u,
                row |-> [users[u] EXCEPT !.roles = Remove(@, role)]])
    /\ UNCHANGED <<users, sessions, jwts, hour, created, revoked>>

(* An update of a row that is gone changes nothing.                        *)
updateUser(t) ==
    /\ op[t].call = "write user"
    /\ \E away \in BOOLEAN :
          users' = IF away \/ users[op[t].user] = NoRow THEN users
                   ELSE [users EXCEPT ![op[t].user] = op[t].row]
    /\ Return(t)
    /\ UNCHANGED <<sessions, jwts, hour, created, revoked>>

-----------------------------------------------------------------------------
(* Sessions.                                                               *)

createSession(t, u) ==
    /\ users[u] # NoRow /\ users[u].active
    /\ Call(t, [call |-> "insert session", user |-> u])
    /\ UNCHANGED <<users, sessions, jwts, hour, created, revoked>>

InsertSession(t) ==
    /\ op[t].call = "insert session"
    /\ \/ /\ users[op[t].user] # NoRow
          /\ \E s \in SessionId :
                /\ created[s] = -1
                /\ created' = [created EXCEPT ![s] = hour]
                /\ sessions' = [sessions EXCEPT ![s] =
                      [user |-> op[t].user, expires |-> hour + SessionHours, valid |-> TRUE]]
       \/ UNCHANGED <<created, sessions>>
    /\ Return(t)
    /\ UNCHANGED <<users, jwts, hour, revoked>>

(* getSessionById: the row, with its times read as local time.              *)
sessionFromRow(row) == [row EXCEPT !.expires = @ + hoursWest]

(* The answer is that of the row that was read; a session that has expired  *)
(* is then marked invalid.                                                 *)
validateSession(t, s) ==
    /\ sessions[s] # NoRow
    /\ LET row == sessionFromRow(sessions[s]) IN
       Call(t, IF ~row.valid THEN [call |-> "refused"]
               ELSE IF hour < row.expires THEN [call |-> "accepted", session |-> s]
               ELSE [call |-> "write session", session |-> s, revoke |-> FALSE,
                     row |-> [row EXCEPT !.valid = FALSE]])
    /\ UNCHANGED <<users, sessions, jwts, hour, created, revoked>>

Answered(t) ==
    /\ op[t].call \in {"accepted", "refused"} /\ Return(t)
    /\ UNCHANGED <<users, sessions, jwts, hour, created, revoked>>

(* Mutant: the copy is written back as it was read.                        *)
RevokeCopy(t, s) ==
    /\ sessions[s] # NoRow
    /\ Call(t, [call |-> "write session", session |-> s, revoke |-> TRUE,
                row |-> sessionFromRow(sessions[s])])
    /\ UNCHANGED <<users, sessions, jwts, hour, created, revoked>>

revokeSession(t, s) ==
    /\ sessions[s] # NoRow
    /\ Call(t, [call |-> "write session", session |-> s, revoke |-> TRUE,
                row |-> [sessionFromRow(sessions[s]) EXCEPT !.valid = FALSE]])
    /\ UNCHANGED <<users, sessions, jwts, hour, created, revoked>>

(* When the database is away the row stays as it is, and revokeSession      *)
(* returns like any other time.                                            *)
updateSession(t) ==
    /\ op[t].call = "write session"
    /\ LET s == op[t].session IN
       \/ /\ sessions' = IF sessions[s] = NoRow THEN sessions
                         ELSE [sessions EXCEPT ![s] =
                             [user |-> @.user, expires |-> op[t].row.expires,
                              valid |-> op[t].row.valid]]
          /\ revoked' = IF op[t].revoke THEN revoked \union {s} ELSE revoked
       \/ UNCHANGED <<sessions, revoked>>
    /\ Return(t)
    /\ UNCHANGED <<users, jwts, hour, created>>

deleteExpiredSessions ==
    /\ sessions' = [s \in SessionId |->
                      IF sessions[s] # NoRow /\ sessions[s].expires < hour THEN NoRow ELSE sessions[s]]
    /\ UNCHANGED <<users, jwts, op, hour, created, revoked, authOps>>

-----------------------------------------------------------------------------
(* Tokens: the database is asked when one is generated, not when one is     *)
(* validated; the verifier refuses an expired one before the tolerance of   *)
(* 30 seconds is looked at.                                                *)

generateJWTToken(u) ==
    /\ users[u] # NoRow /\ users[u].active
    /\ authOps < MaxAuthOps /\ authOps' = authOps + 1
    /\ jwts' = jwts \union {[user |-> u, expires |-> hour + SessionHours]}
    /\ UNCHANGED <<users, sessions, op, hour, created, revoked>>

validateJWTToken(token) == token \in jwts /\ hour < token.expires

refreshJWTToken(token) == validateJWTToken(token) /\ generateJWTToken(token.user)

HourPasses ==
    /\ hour < MaxHours /\ hour' = hour + 1
    /\ UNCHANGED <<users, sessions, jwts, op, created, revoked, authOps>>

AuNext ==
    \/ \E t \in AuthThread, u \in User :
          createUser(t, u) \/ createSession(t, u)
          \/ \E role \in Role : assignRole(t, u, role) \/ revokeRole(t, u, role)
    \/ \E t \in AuthThread, s \in SessionId : validateSession(t, s) \/ revokeSession(t, s)
    \/ \E t \in AuthThread :
          InsertUser(t) \/ updateUser(t) \/ InsertSession(t) \/ updateSession(t) \/ Answered(t)
    \/ \E u \in User : deactivate(u) \/ deleteUser(u) \/ generateJWTToken(u)
    \/ \E token \in jwts : refreshJWTToken(token)
    \/ deleteExpiredSessions \/ HourPasses

AuSpec == AuInit /\ [][AuNext]_auvars

(* A validation accepts no session whose revocation was written before the  *)
(* validation read it, or that is past its hours, which the distance of     *)
(* local time from UTC moves once: no copy of a row that another call still *)
(* holds brings a session back, or moves its end again.                     *)
AcceptsLiveSessions ==
    [][\A t \in AuthThread, s \in SessionId :
          op'[t] = [call |-> "accepted", session |-> s] /\ op[t] # op'[t]
          => s \notin revoked /\ hour - created[s] < SessionHours + hoursWest]_auvars

(* A user that was created can log in with its password.                   *)
CreatedUsersLogIn ==
    \A u \in User : users[u] # NoRow /\ users[u].active => authenticateUser(u, u)
=============================================================================
