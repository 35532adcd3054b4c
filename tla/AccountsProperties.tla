------------------------- MODULE AccountsProperties -------------------------
(* What logins, sessions and the administration of users keep. *)
EXTENDS Accounts

UserType == [stored : BOOLEAN, active : BOOLEAN, roles : SUBSET Role]

SessionType ==
  [state : {"free", "live", "expired"}, of : SUBSET User, roles : SUBSET Role,
   outdated : BOOLEAN, raced : BOOLEAN]

RequestType ==
  [op : AdminOps \cup {"none", "login"},
   stage : {"idle", "roles", "session", "load", "roles of", "count", "insert",
            "password", "write", "replace", "commit", "revoke"},
   on : SUBSET User, asks : SUBSET BOOLEAN, active : BOOLEAN, roles : SUBSET Role,
   password : BOOLEAN, merges : BOOLEAN, overtaken : BOOLEAN,
   outdated : BOOLEAN, raced : BOOLEAN]

\* Sessions and requests under way are those of users that exist.
TypeOK ==
  /\ users \in [User -> UserType]
  /\ sessions \in [Session -> SessionType]
  /\ req \in [Request -> RequestType]
  /\ unrevoked \subseteq User /\ blind \subseteq User /\ faults \in 0..MaxFaults
  /\ \A u \in User : ~users[u].stored => users[u] = NoUser
  /\ \A x \in Session : \A u \in sessions[x].of : users[u].stored
  /\ \A q \in Request :
       req[q].stage \notin {"idle", "load", "insert"} => \A u \in req[q].on : users[u].stored

-----------------------------------------------------------------------------
(* Safety *)

Current(x) ==
  \A u \in sessions[x].of :
    users[u].active /\ users[u].roles = sessions[x].roles /\ ~sessions[x].outdated

Owed(u) == \E q \in Request : u \in req[q].on /\ Owes(q)

\* A session in the table grants the roles that its active user has, and was
\* opened with the user's password, whatever logins, role changes,
\* deactivations and password changes interleave.  It is otherwise only while
\* the request that made the change has still to delete the sessions, after
\* it failed before, for a session whose login overlapped the deletion, and
\* for a user whom an update or a change of roles has written that had been
\* overtaken: anything was written, of whichever user, since it had read.
SessionsAreCurrent ==
  \A x \in Session :
    sessions[x].state # "free" =>
      \/ Current(x) \/ sessions[x].raced
      \/ \A u \in sessions[x].of : u \in unrevoked \cup blind \/ Owed(u)

\* admin_handlers.go:353, as far as the code goes: there is an active
\* administrator, unless a request wrote after something had been written since
\* it read.  The guard is right for requests one after the other, whoever
\* makes them, failed ones included.
AdminRemains == ActiveAdmins # {} \/ blind # {}

\* A user that was deactivated becomes active by a request that asks for it,
\* or by one that was overtaken: an update of the e-mail address alone brings
\* nobody back whom it has read as inactive.
StaysDeactivated ==
  [][\A u \in User :
       users[u].stored /\ ~users[u].active /\ users'[u].active
         => \E q \in Request :
              /\ u \in req[q].on /\ req[q].stage = "write"
              /\ (req[q].asks = {TRUE} \/ req[q].overtaken)]_vars

-----------------------------------------------------------------------------
(* What the code says of itself *)

\* admin_handlers.go:353: "Prevent removing admin from the last active admin."
LastAdminStays == ActiveAdmins # {}

=============================================================================
