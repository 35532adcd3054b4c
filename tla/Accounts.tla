------------------------------ MODULE Accounts ------------------------------
(***************************************************************************)
(* Users, their roles and their sessions: the login and logout of          *)
(* internal/auth, its middleware, and the administration of users in       *)
(* internal/api/admin_handlers.go.                                         *)
(*                                                                         *)
(* Each statement is a step.  A session keeps the roles that its login     *)
(* read; the middleware looks at the session only, so that whoever changes *)
(* a user deletes the user's sessions afterwards.  Every request edits the *)
(* row it read at its beginning.                                           *)
(***************************************************************************)
EXTENDS FiniteSets, Naturals

CONSTANTS
  User,      \* user names
  Session,   \* rows for sessions
  Request,   \* slots for requests, used again and again
  Role, Admin,
  MaxFaults  \* bound on requests that end early

ASSUME RolesAssumption == Admin \in Role
ASSUME BoundsAssumption == MaxFaults \in Nat

VARIABLES
  users,     \* tables users and user_roles
  sessions,  \* table sessions, with the history of each session
  req,       \* the request in each slot: operation, stage and what it holds
  unrevoked, \* history: users whose sessions a request failed to delete
  blind,     \* history: users written by a request that had been overtaken
  faults

vars == <<users, sessions, req, unrevoked, blind, faults>>

\* outdated: the password was changed since.  raced: the user's sessions were
\* deleted between the reads and the INSERT of the login.
NoUser    == [stored |-> FALSE, active |-> FALSE, roles |-> {}]
NoSession == [state |-> "free", of |-> {}, roles |-> {}, outdated |-> FALSE, raced |-> FALSE]

\* on: the user concerned; asks: the is_active asked for, if any; active: the
\* is_active that will be written; roles: to be stored, or what a login read.  merges: another
\* UpdateRoles was committed since this one deleted the rows it saw.
\* overtaken: something was written since the request read.
Idle == [op |-> "none", stage |-> "idle", on |-> {}, asks |-> {}, active |-> FALSE,
         roles |-> {}, password |-> FALSE, merges |-> FALSE, overtaken |-> FALSE,
         outdated |-> FALSE, raced |-> FALSE]

\* createsuperuser has made an administrator; others may be there.
Init ==
  /\ users \in [User -> {NoUser} \cup
                 {[stored |-> TRUE, active |-> TRUE, roles |-> R] : R \in SUBSET Role}]
  /\ \E u \in User : Admin \in users[u].roles
  /\ sessions = [x \in Session |-> NoSession]
  /\ req = [q \in Request |-> Idle]
  /\ unrevoked = {} /\ blind = {} /\ faults = 0

history == <<unrevoked, blind, faults>>

Go(q, stage) == [req EXCEPT ![q].stage = stage]
End(q) == [req EXCEPT ![q] = Idle]

\* A write by q, after which its request goes on as r: requests that have read
\* by then are overtaken.
Overtake(q, r) ==
  [p \in Request |->
     IF p # q /\ r[p].op # "login" /\ r[p].stage \notin {"idle", "load"}
     THEN [r[p] EXCEPT !.overtaken = TRUE] ELSE r[p]]

Blinded(q) == blind' = IF req[q].overtaken THEN blind \cup req[q].on ELSE blind

-----------------------------------------------------------------------------
(* Login, logout, expiry *)

\* Authenticate reads the user; one that is disabled or names another password
\* is turned away.
Login(q, u) ==
  /\ req[q].stage = "idle"
  /\ users[u].stored /\ users[u].active
  /\ req' = [req EXCEPT ![q] = [Idle EXCEPT !.op = "login", !.stage = "roles", !.on = {u}]]
  /\ UNCHANGED <<users, sessions, history>>

\* GetUserRoles, for a login.
ReadRoles(q) ==
  /\ req[q].stage = "roles"
  /\ \E u \in req[q].on :
       req' = [req EXCEPT ![q].stage = "session", ![q].roles = users[u].roles]
  /\ UNCHANGED <<users, sessions, history>>

\* sessionStore.Create: what the login has read goes into the row.
NewSession(q) ==
  [state |-> "live", of |-> req[q].on, roles |-> req[q].roles,
   outdated |-> req[q].outdated, raced |-> req[q].raced]

CreateSession(q) ==
  /\ req[q].stage = "session"
  /\ \E x \in Session :
       /\ sessions[x].state = "free"
       /\ sessions' = [sessions EXCEPT ![x] = NewSession(q)]
  /\ req' = End(q)
  /\ UNCHANGED <<users, history>>

\* sessionStore.Get: the middleware finds a session of the table that has not expired.
Found(x) == sessions[x].state = "live"

\* Logout deletes the session of the cookie, which the middleware has found.
Logout(x) ==
  /\ Found(x)
  /\ sessions' = [sessions EXCEPT ![x] = NoSession]
  /\ UNCHANGED <<users, req, history>>

Expire(x) ==
  /\ sessions[x].state = "live"
  /\ sessions' = [sessions EXCEPT ![x].state = "expired"]
  /\ UNCHANGED <<users, req, history>>

\* The tick of StartSessionCleanup.
CleanExpired ==
  /\ \E x \in Session : sessions[x].state = "expired"
  /\ sessions' = [x \in Session |->
       IF sessions[x].state = "expired" THEN NoSession ELSE sessions[x]]
  /\ UNCHANGED <<users, req, history>>

-----------------------------------------------------------------------------
(* Administration *)

AdminOps == {"create", "update", "deactivate", "roles"}

\* AuthMiddleware and RequireRole: the session is in the table and its roles,
\* as they were at its login, contain the administrator's.  Nobody deactivates
\* the account of their own session.
Admit(q, x, op, u) ==
  /\ req[q].stage = "idle"
  /\ Found(x) /\ Admin \in sessions[x].roles
  /\ \E asks \in CASE op = "update" -> {{}, {TRUE}, {FALSE}} [] op = "deactivate" -> {{FALSE}}
                   [] OTHER -> {{}} :
     \E roles \in IF op \in {"roles", "create"} THEN SUBSET Role ELSE {{}} :
     \E password \in {FALSE, op = "update"} :
       /\ ~(asks = {FALSE} /\ u \in sessions[x].of)
       /\ req' = [req EXCEPT ![q] = [Idle EXCEPT !.op = op, !.stage = "load", !.on = {u},
            !.asks = asks, !.roles = roles, !.password = password]]
  /\ UNCHANGED <<users, sessions, history>>

ActiveAdmins == {u \in User : users[u].active /\ Admin \in users[u].roles}

\* Whether the request takes an active administrator away, if the user is one.
Removes(q, u) ==
  users[u].active /\ (req[q].asks = {FALSE} \/ (req[q].op = "roles" /\ Admin \notin req[q].roles))

\* The statement after the guard.
Granted(q) ==
  IF req[q].op = "roles" THEN "replace" ELSE IF req[q].password THEN "password" ELSE "write"

\* Mutant of Asked: an is_active that was left out counts as true.
Asked_Default(q, u) == IF req[q].asks = {} THEN TRUE ELSE TRUE \in req[q].asks

\* The is_active that Update will write: without one in the request the one read.
Asked(q, u) == IF req[q].asks = {} THEN users[u].active ELSE TRUE \in req[q].asks

Loaded(q, u) ==
  [req EXCEPT ![q].active = req[q].op = "update" /\ Asked(q, u), ![q].stage =
     IF req[q].op = "create" THEN "insert" ELSE IF Removes(q, u) THEN "roles of" ELSE Granted(q)]

\* Mutant of Load: a user that is not there is not noticed.
Load_Any(q) ==
  /\ req[q].stage = "load"
  /\ \E u \in req[q].on : req' = Loaded(q, u)
  /\ UNCHANGED <<users, sessions, history>>

\* GetByID; for a new user GetByUsername.
Load(q) ==
  /\ req[q].stage = "load"
  /\ \E u \in req[q].on :
       req' = IF users[u].stored = (req[q].op = "create") THEN End(q) ELSE Loaded(q, u)
  /\ UNCHANGED <<users, sessions, history>>

\* ensureNotLastAdmin: GetUserRoles, which matters for a user read as active.
GuardRoles(q) ==
  /\ req[q].stage = "roles of"
  /\ \E u \in req[q].on :
       req' = Go(q, IF Admin \in users[u].roles THEN "count" ELSE Granted(q))
  /\ UNCHANGED <<users, sessions, history>>

\* Mutant of GuardCount: the user is counted too.
GuardCount_All(q) ==
  /\ req[q].stage = "count"
  /\ req' = IF ActiveAdmins = {} THEN End(q) ELSE Go(q, Granted(q))
  /\ UNCHANGED <<users, sessions, history>>

\* ensureNotLastAdmin: CountActiveAdminsWithRole, without the user.
GuardCount(q) ==
  /\ req[q].stage = "count"
  /\ req' = IF ActiveAdmins \ req[q].on = {} THEN End(q) ELSE Go(q, Granted(q))
  /\ UNCHANGED <<users, sessions, history>>

\* userRepository.Create, in a transaction; the name is unique.
Insert(q) ==
  /\ req[q].stage = "insert"
  /\ \E u \in req[q].on :
       IF users[u].stored THEN req' = End(q) /\ UNCHANGED users
       ELSE /\ users' = [users EXCEPT ![u] =
                 [stored |-> TRUE, active |-> TRUE, roles |-> req[q].roles]]
            /\ req' = End(q)
  /\ UNCHANGED <<sessions, history>>

\* UpdatePassword.  A login that has compared the old one goes on.
UpdatePassword(q) ==
  /\ req[q].stage = "password"
  /\ sessions' = [x \in Session |->
       IF sessions[x].of = req[q].on THEN [sessions[x] EXCEPT !.outdated = TRUE] ELSE sessions[x]]
  /\ req' = [p \in Request |->
       IF p = q THEN [req[p] EXCEPT !.stage = "write"]
       ELSE IF req[p].op = "login" /\ req[p].on = req[q].on
            THEN [req[p] EXCEPT !.outdated = TRUE] ELSE req[p]]
  /\ UNCHANGED <<users, history>>

\* Mutant of Revokes: only a new password ends the sessions.
Revokes_Password(q) == req[q].op # "update" \/ req[q].password

\* invalidateSessions of UpdateUser; the other operations always do.
Revokes(q) == req[q].op # "update" \/ req[q].asks # {} \/ req[q].password

\* userRepository.Update.
Update(q) ==
  /\ req[q].stage = "write"
  /\ \E u \in req[q].on : users' = [users EXCEPT ![u].active = req[q].active]
  /\ req' = Overtake(q, IF Revokes(q) THEN Go(q, "revoke") ELSE End(q))
  /\ Blinded(q)
  /\ UNCHANGED <<sessions, unrevoked, faults>>

\* UpdateRoles: the DELETE of the transaction.
ReplaceRoles(q) ==
  /\ req[q].stage = "replace"
  /\ req' = [req EXCEPT ![q].stage = "commit", ![q].merges = FALSE]
  /\ UNCHANGED <<users, sessions, history>>

\* UpdateRoles: the INSERTs and the COMMIT.  The DELETE of a transaction that
\* overlapped another one saw none of the rows that one inserts: the roles
\* merge, or the UNIQUE constraint refuses a role that both insert.
CommitRoles(q) ==
  /\ req[q].stage = "commit"
  /\ \E u \in req[q].on :
       IF req[q].merges /\ users[u].roles \cap req[q].roles # {}
       THEN req' = End(q) /\ UNCHANGED <<users, blind>>
       ELSE /\ users' = [users EXCEPT ![u].roles =
                 req[q].roles \cup IF req[q].merges THEN @ ELSE {}]
            /\ req' = Overtake(q, [p \in Request |->
                 IF p = q THEN [req[p] EXCEPT !.stage = "revoke"]
                 ELSE IF req[p].stage = "commit" /\ u \in req[p].on
                      THEN [req[p] EXCEPT !.merges = TRUE] ELSE req[p]])
            /\ Blinded(q)
  /\ UNCHANGED <<sessions, unrevoked, faults>>

\* DeleteByUserID.
Revoke(q) ==
  /\ req[q].stage = "revoke"
  /\ sessions' = [x \in Session |->
       IF sessions[x].of = req[q].on THEN NoSession ELSE sessions[x]]
  /\ req' = [p \in Request |->
       IF p = q THEN Idle
       ELSE IF req[p].op = "login" /\ req[p].on = req[q].on
            THEN [req[p] EXCEPT !.raced = TRUE] ELSE req[p]]
  /\ unrevoked' = unrevoked \ req[q].on
  /\ UNCHANGED <<users, blind, faults>>

\* Something was changed that the sessions of the user must not outlive.
Owes(q) == req[q].stage = "revoke" \/ (req[q].stage = "write" /\ req[q].password)

\* A statement fails, or the client goes away; a transaction is rolled back.
Fail(q) ==
  /\ req[q].stage # "idle"
  /\ faults < MaxFaults /\ faults' = faults + 1
  /\ unrevoked' = IF Owes(q) THEN unrevoked \cup req[q].on ELSE unrevoked
  /\ req' = End(q)
  /\ UNCHANGED <<users, sessions, blind>>

-----------------------------------------------------------------------------
(* The handlers, as sequences of their statements *)

LogIn(q) == req[q].op = "login" /\ (ReadRoles(q) \/ CreateSession(q))

CreateUser(q) == req[q].op = "create" /\ (Load(q) \/ Insert(q))

EnsureNotLastAdmin(q) == GuardRoles(q) \/ GuardCount(q)

UpdateUser(q) ==
  /\ req[q].op = "update"
  /\ \/ Load(q) \/ EnsureNotLastAdmin(q)
     \/ UpdatePassword(q) \/ Update(q) \/ Revoke(q)

DeactivateUser(q) ==
  /\ req[q].op = "deactivate"
  /\ Load(q) \/ EnsureNotLastAdmin(q) \/ Update(q) \/ Revoke(q)

UpdateUserRoles(q) ==
  /\ req[q].op = "roles"
  /\ \/ Load(q) \/ EnsureNotLastAdmin(q)
     \/ ReplaceRoles(q) \/ CommitRoles(q) \/ Revoke(q)

Handler(q) ==
  LogIn(q) \/ CreateUser(q) \/ UpdateUser(q) \/ DeactivateUser(q) \/ UpdateUserRoles(q)

Next ==
  \/ \E q \in Request :
       \/ \E u \in User : Login(q, u)
       \/ \E x \in Session, op \in AdminOps, u \in User : Admit(q, x, op, u)
       \/ Handler(q) \/ Fail(q)
  \/ \E x \in Session : Logout(x) \/ Expire(x)
  \/ CleanExpired

Spec == Init /\ [][Next]_vars

=============================================================================
