--------------------------- MODULE AccountsProofs ---------------------------
(***************************************************************************)
(* Proofs about Accounts, for any users, roles, sessions and number of     *)
(* requests: the state is well typed, an active administrator remains      *)
(* unless a request wrote on a view that had been overtaken, nobody comes  *)
(* back by an update that did not ask for it, and a session grants what    *)
(* its user has unless its deletion is owed, failed or overlapped a login. *)
(***************************************************************************)
EXTENDS AccountsProperties, TLAPS

Stages == {"idle", "roles", "session", "load", "roles of", "count", "insert",
           "password", "write", "replace", "commit", "revoke"}

-----------------------------------------------------------------------------
(* Types *)

\* The edits that the actions make to a request.
LEMMA RequestEdits ==
  ASSUME NEW r \in RequestType
  PROVE  /\ \A st \in Stages : [r EXCEPT !.stage = st] \in RequestType
         /\ \A R \in SUBSET Role : [r EXCEPT !.stage = "session", !.roles = R] \in RequestType
         /\ \A b \in BOOLEAN : \A st \in Stages :
              [r EXCEPT !.active = b, !.stage = st] \in RequestType
         /\ [r EXCEPT !.stage = "commit", !.merges = FALSE] \in RequestType
         /\ [r EXCEPT !.merges = TRUE] \in RequestType
         /\ [r EXCEPT !.overtaken = TRUE] \in RequestType
         /\ [r EXCEPT !.outdated = TRUE] \in RequestType
         /\ [r EXCEPT !.raced = TRUE] \in RequestType
<1>1. \A st \in Stages : [r EXCEPT !.stage = st] \in RequestType
  BY DEF RequestType, Stages
<1>2. \A R \in SUBSET Role : [r EXCEPT !.stage = "session", !.roles = R] \in RequestType
  BY DEF RequestType
<1>3. \A b \in BOOLEAN : \A st \in Stages : [r EXCEPT !.active = b, !.stage = st] \in RequestType
  BY DEF RequestType, Stages
<1>4. /\ [r EXCEPT !.stage = "commit", !.merges = FALSE] \in RequestType
      /\ [r EXCEPT !.merges = TRUE] \in RequestType
      /\ [r EXCEPT !.overtaken = TRUE] \in RequestType
  BY DEF RequestType
<1>5. /\ [r EXCEPT !.outdated = TRUE] \in RequestType
      /\ [r EXCEPT !.raced = TRUE] \in RequestType
  BY DEF RequestType
<1> HIDE DEF RequestType
<1> QED BY <1>1, <1>2, <1>3, <1>4, <1>5

\* The is_active that a request may ask for; the one of DeactivateUser.
AskForms == {{}, {TRUE}, {FALSE}}
Disables(asks) == asks = {FALSE}

LEMMA IdleType ==
  Idle \in RequestType /\ Idle.stage = "idle" /\ Idle.on = {} /\ Idle.op = "none"
  /\ Idle.asks \in AskForms
BY DEF Idle, RequestType, AskForms

\* What the middleware lets through.
LEMMA Admitted ==
  ASSUME NEW q \in Request, NEW x \in Session, NEW op \in AdminOps, NEW u \in User,
         Admit(q, x, op, u)
  PROVE  /\ \E r \in RequestType :
               /\ req' = [req EXCEPT ![q] = r]
               /\ r.op = op /\ r.stage = "load" /\ (\A v, w \in r.on : v = w) /\ r.asks \in AskForms
               /\ op = "deactivate" => Disables(r.asks)
         /\ UNCHANGED <<users, sessions, history>>
<1>1. PICK asks \in CASE op = "update" -> {{}, {TRUE}, {FALSE}} [] op = "deactivate" -> {{FALSE}}
                     [] OTHER -> {{}},
           roles \in IF op \in {"roles", "create"} THEN SUBSET Role ELSE {{}},
           password \in {FALSE, op = "update"} :
        req' = [req EXCEPT ![q] = [Idle EXCEPT !.op = op, !.stage = "load", !.on = {u},
                  !.asks = asks, !.roles = roles, !.password = password]]
  BY ZenonT(40) DEF Admit
<1>2. roles \in SUBSET Role /\ password \in BOOLEAN
  OBVIOUS
<1>3. asks \in {{}, {TRUE}, {FALSE}} /\ (op = "deactivate" => asks = {FALSE})
  OBVIOUS
<1> DEFINE r == [Idle EXCEPT !.op = op, !.stage = "load", !.on = {u},
                   !.asks = asks, !.roles = roles, !.password = password]
<1>4. r \in RequestType /\ r.op = op /\ r.stage = "load" /\ (\A v, w \in r.on : v = w) /\ r.asks = asks
  BY <1>2, <1>3 DEF Idle, RequestType
<1>5. req' = [req EXCEPT ![q] = r]
  BY <1>1
<1> HIDE DEF r
<1>6. r.asks \in AskForms /\ (op = "deactivate" => Disables(r.asks))
  BY <1>3, <1>4 DEF AskForms, Disables
<1> QED BY <1>4, <1>5, <1>6 DEF Admit

\* What an edit of the stage leaves alone.
LEMMA GoType ==
  ASSUME req \in [Request -> RequestType], NEW q \in Request, NEW st \in Stages
  PROVE  /\ Go(q, st) \in [Request -> RequestType]
         /\ \A p \in Request : p # q => Go(q, st)[p] = req[p]
         /\ Go(q, st)[q].stage = st /\ Go(q, st)[q].active = req[q].active
         /\ Go(q, st)[q].op = req[q].op /\ Go(q, st)[q].on = req[q].on
         /\ Go(q, st)[q].asks = req[q].asks /\ Go(q, st)[q].roles = req[q].roles
         /\ Go(q, st)[q].overtaken = req[q].overtaken
         /\ Go(q, st)[q].password = req[q].password
<1>1. Go(q, st) = [req EXCEPT ![q] = [req[q] EXCEPT !.stage = st]]
  BY DEF Go
<1>2. req[q] \in RequestType /\ [req[q] EXCEPT !.stage = st] \in RequestType
  BY RequestEdits
<1>3. LET s == [req[q] EXCEPT !.stage = st]
      IN /\ s.stage = st /\ s.active = req[q].active
         /\ s.op = req[q].op /\ s.on = req[q].on /\ s.asks = req[q].asks
         /\ s.roles = req[q].roles /\ s.overtaken = req[q].overtaken
         /\ s.password = req[q].password
  BY <1>2 DEF RequestType
<1> HIDE DEF RequestType
<1> QED BY <1>1, <1>2, <1>3

LEMMA Goes ==
  ASSUME req \in [Request -> RequestType], NEW q \in Request, NEW st \in Stages,
         req' = Go(q, st)
  PROVE  /\ req' \in [Request -> RequestType]
         /\ \A p \in Request : p # q => req'[p] = req[p]
         /\ req'[q].stage = st /\ req'[q].active = req[q].active
         /\ req'[q].op = req[q].op /\ req'[q].on = req[q].on
         /\ req'[q].asks = req[q].asks /\ req'[q].roles = req[q].roles
         /\ req'[q].overtaken = req[q].overtaken /\ req'[q].password = req[q].password
BY GoType

\* What Load makes of a request that it lets go on.
LoadedAs(q, b, st) == [req EXCEPT ![q].active = b, ![q].stage = st]

LEMMA LoadEdit ==
  ASSUME req \in [Request -> RequestType], NEW q \in Request, NEW b \in BOOLEAN,
         NEW st \in Stages, req' = LoadedAs(q, b, st)
  PROVE  /\ req' \in [Request -> RequestType]
         /\ \A p \in Request : p # q => req'[p] = req[p]
         /\ req'[q].stage = st /\ req'[q].active = b
         /\ req'[q].op = req[q].op /\ req'[q].on = req[q].on
         /\ req'[q].asks = req[q].asks /\ req'[q].roles = req[q].roles
         /\ req'[q].overtaken = req[q].overtaken /\ req'[q].password = req[q].password
<1> DEFINE r == [req[q] EXCEPT !.active = b, !.stage = st]
<1>0. req[q] \in RequestType
  OBVIOUS
<1>1. req' = [req EXCEPT ![q] = r]
  BY DEF LoadedAs
<1>2. r \in RequestType
  BY RequestEdits
<1>3. /\ r.stage = st /\ r.active = b /\ r.op = req[q].op /\ r.on = req[q].on
      /\ r.asks = req[q].asks /\ r.roles = req[q].roles /\ r.overtaken = req[q].overtaken
      /\ r.password = req[q].password
  <2>1. req[q] \in RequestType
    OBVIOUS
  <2> QED BY <2>1 DEF RequestType
<1> HIDE DEF r
<1>4. req' \in [Request -> RequestType]
  BY <1>1, <1>2
<1>5. req'[q] = r /\ \A p \in Request : p # q => req'[p] = req[p]
  BY <1>1
<1> QED BY <1>3, <1>4, <1>5

LEMMA Ended ==
  ASSUME req \in [Request -> RequestType], NEW q \in Request, req' = End(q)
  PROVE  /\ req' \in [Request -> RequestType]
         /\ \A p \in Request : p # q => req'[p] = req[p]
         /\ req'[q] = Idle
BY IdleType DEF End

LEMMA OvertakeType ==
  ASSUME NEW q \in Request, NEW r \in [Request -> RequestType], req' = Overtake(q, r)
  PROVE  /\ req' \in [Request -> RequestType]
         /\ \A p \in Request :
              /\ req'[p].op = r[p].op /\ req'[p].stage = r[p].stage /\ req'[p].on = r[p].on
              /\ req'[p].asks = r[p].asks /\ req'[p].active = r[p].active
              /\ req'[p].roles = r[p].roles /\ req'[p].password = r[p].password
              /\ req'[p].outdated = r[p].outdated /\ req'[p].raced = r[p].raced
              /\ p # q /\ r[p].op # "login" /\ r[p].stage \notin {"idle", "load"}
                   => req'[p].overtaken
<1>1. ASSUME NEW p \in Request
      PROVE  /\ r[p] \in RequestType /\ [r[p] EXCEPT !.overtaken = TRUE] \in RequestType
             /\ req'[p] = IF p # q /\ r[p].op # "login" /\ r[p].stage \notin {"idle", "load"}
                          THEN [r[p] EXCEPT !.overtaken = TRUE] ELSE r[p]
  <2>1. r[p] \in RequestType
    OBVIOUS
  <2>2. [r[p] EXCEPT !.overtaken = TRUE] \in RequestType
    BY <2>1, RequestEdits
  <2> QED BY <2>1, <2>2 DEF Overtake
<1>2. req' \in [Request -> RequestType]
  <2>1. \A p \in Request : req'[p] \in RequestType
    BY <1>1
  <2> QED BY <2>1 DEF Overtake
<1>3. ASSUME NEW p \in Request
      PROVE  /\ req'[p].op = r[p].op /\ req'[p].stage = r[p].stage /\ req'[p].on = r[p].on
             /\ req'[p].asks = r[p].asks /\ req'[p].active = r[p].active
             /\ req'[p].roles = r[p].roles /\ req'[p].password = r[p].password
             /\ req'[p].outdated = r[p].outdated /\ req'[p].raced = r[p].raced
             /\ p # q /\ r[p].op # "login" /\ r[p].stage \notin {"idle", "load"}
                  => req'[p].overtaken
  <2>1. r[p] \in RequestType
    OBVIOUS
  <2>2. CASE p # q /\ r[p].op # "login" /\ r[p].stage \notin {"idle", "load"}
    <3>1. req'[p] = [r[p] EXCEPT !.overtaken = TRUE]
      BY <1>1, <2>2
    <3> QED BY <2>1, <3>1 DEF RequestType
  <2>3. CASE ~(p # q /\ r[p].op # "login" /\ r[p].stage \notin {"idle", "load"})
    <3>1. req'[p] = r[p]
      BY <1>1, <2>3
    <3> QED BY <2>3, <3>1
  <2> QED BY <2>2, <2>3
<1> QED BY <1>2, <1>3

-----------------------------------------------------------------------------
(* The invariant of the types *)

\* A request is about one user.
TypeInv ==
  /\ TypeOK
  /\ \A q \in Request : \A u, v \in req[q].on : u = v

\* Users, once stored, stay; what holds of requests and sessions about them does.
LEMMA TypeParts ==
  ASSUME TypeInv, users' \in [User -> UserType], sessions' \in [Session -> SessionType],
         req' \in [Request -> RequestType],
         unrevoked' \subseteq User, blind' \subseteq User, faults' \in 0..MaxFaults,
         \A u \in User : ~users'[u].stored => users'[u] = NoUser,
         \A u \in User : users[u].stored => users'[u].stored,
         \A x \in Session : \A u \in sessions'[x].of : users[u].stored,
         \A p \in Request :
           \/ req'[p].stage \in {"idle", "load", "insert"}
           \/ \A u \in req'[p].on : users[u].stored,
         \A p \in Request : \A u, v \in req'[p].on : u = v
  PROVE  TypeInv'
BY DEF TypeInv, TypeOK, RequestType, SessionType

LEMMA TypeInit == Init => TypeInv
<1> SUFFICES ASSUME Init PROVE TypeInv
  OBVIOUS
<1>1. users \in [User -> UserType]
  <2>1. {NoUser} \cup {[stored |-> TRUE, active |-> TRUE, roles |-> R] : R \in SUBSET Role}
          \subseteq UserType
    <3>1. NoUser \in UserType
      BY DEF UserType, NoUser
    <3>2. ASSUME NEW R \in SUBSET Role
          PROVE  [stored |-> TRUE, active |-> TRUE, roles |-> R] \in UserType
      BY DEF UserType
    <3> QED BY <3>1, <3>2, Zenon
  <2> QED BY <2>1 DEF Init
<1>2. sessions \in [Session -> SessionType]
  BY DEF Init, SessionType, NoSession
<1>3. req \in [Request -> RequestType]
  BY IdleType DEF Init
<1> QED BY <1>1, <1>2, <1>3, BoundsAssumption DEF Init, TypeInv, TypeOK, NoUser, NoSession, Idle

\* A step of a request that leaves the tables alone.
Keeps == UNCHANGED <<users, sessions, unrevoked, blind>> /\ faults' \in 0..MaxFaults

LEMMA TypeKept ==
  ASSUME TypeInv, Keeps, NEW q \in Request, req' \in [Request -> RequestType],
         \A p \in Request : p # q => req'[p] = req[p],
         \/ req'[q].stage \in {"idle", "load", "insert"}
         \/ \A u \in req'[q].on : users[u].stored,
         \A u, v \in req'[q].on : u = v
  PROVE  TypeInv'
BY TypeParts DEF TypeInv, TypeOK, Keeps

\* A stored user's row may be edited.
LEMMA RowEdited ==
  ASSUME TypeInv, NEW u \in User, users[u].stored, NEW r \in UserType, r.stored,
         users' = [users EXCEPT ![u] = r]
  PROVE  /\ users' \in [User -> UserType]
         /\ \A v \in User : ~users'[v].stored => users'[v] = NoUser
         /\ \A v \in User : users[v].stored => users'[v].stored
BY DEF TypeInv, TypeOK

\* What CommitRoles makes of the other requests before they are overtaken.
Merged(q, u) ==
  [p \in Request |->
     IF p = q THEN [req[p] EXCEPT !.stage = "revoke"]
     ELSE IF req[p].stage = "commit" /\ u \in req[p].on
          THEN [req[p] EXCEPT !.merges = TRUE] ELSE req[p]]

LEMMA MergedType ==
  ASSUME req \in [Request -> RequestType], NEW q \in Request, NEW u
  PROVE  /\ Merged(q, u) \in [Request -> RequestType]
         /\ \A p \in Request :
              /\ Merged(q, u)[p].op = req[p].op /\ Merged(q, u)[p].on = req[p].on
              /\ Merged(q, u)[p].asks = req[p].asks
              /\ Merged(q, u)[p].roles = req[p].roles /\ Merged(q, u)[p].password = req[p].password
              /\ Merged(q, u)[p].outdated = req[p].outdated /\ Merged(q, u)[p].raced = req[p].raced
              /\ Merged(q, u)[p].stage = IF p = q THEN "revoke" ELSE req[p].stage
<1>1. ASSUME NEW p \in Request
      PROVE  /\ Merged(q, u)[p] \in RequestType
             /\ Merged(q, u)[p].op = req[p].op /\ Merged(q, u)[p].on = req[p].on
             /\ Merged(q, u)[p].asks = req[p].asks
             /\ Merged(q, u)[p].roles = req[p].roles /\ Merged(q, u)[p].password = req[p].password
             /\ Merged(q, u)[p].outdated = req[p].outdated /\ Merged(q, u)[p].raced = req[p].raced
             /\ Merged(q, u)[p].stage = IF p = q THEN "revoke" ELSE req[p].stage
  <2>1. req[p] \in RequestType /\ "revoke" \in Stages
    BY DEF Stages
  <2>2. /\ [req[p] EXCEPT !.stage = "revoke"] \in RequestType
        /\ [req[p] EXCEPT !.merges = TRUE] \in RequestType
    BY <2>1, RequestEdits
  <2>3. /\ LET s == [req[p] EXCEPT !.stage = "revoke"]
           IN /\ s.op = req[p].op /\ s.on = req[p].on /\ s.asks = req[p].asks /\ s.stage = "revoke"
              /\ s.roles = req[p].roles /\ s.password = req[p].password
              /\ s.outdated = req[p].outdated /\ s.raced = req[p].raced
        /\ LET s == [req[p] EXCEPT !.merges = TRUE]
           IN /\ s.op = req[p].op /\ s.on = req[p].on /\ s.asks = req[p].asks /\ s.stage = req[p].stage
              /\ s.roles = req[p].roles /\ s.password = req[p].password
              /\ s.outdated = req[p].outdated /\ s.raced = req[p].raced
    BY <2>1 DEF RequestType
  <2> HIDE DEF RequestType
  <2> QED BY <2>1, <2>2, <2>3 DEF Merged
<1> QED BY <1>1 DEF Merged

LEMMA TypeStep == TypeInv /\ [Next]_vars => TypeInv'
<1> SUFFICES ASSUME TypeInv, [Next]_vars PROVE TypeInv'
  OBVIOUS
<1>0. /\ users \in [User -> UserType] /\ sessions \in [Session -> SessionType]
      /\ req \in [Request -> RequestType] /\ faults \in 0..MaxFaults
      /\ \A q \in Request : req[q] \in RequestType /\ req[q].on \subseteq User
      /\ \A q \in Request : \A u \in req[q].on :
           req[q].stage \notin {"idle", "load", "insert"} => users[u].stored
      /\ \A q \in Request : \A u, v \in req[q].on : u = v
  BY DEF TypeInv, TypeOK, RequestType
<1>1. ASSUME NEW q \in Request, NEW u \in User, Login(q, u) PROVE TypeInv'
  <2> DEFINE r == [Idle EXCEPT !.op = "login", !.stage = "roles", !.on = {u}]
  <2>1. r \in RequestType /\ r.on = {u} /\ users[u].stored
    BY <1>1 DEF Login, Idle, RequestType
  <2>2. req' = [req EXCEPT ![q] = r] /\ Keeps
    BY <1>0, <1>1 DEF Login, Keeps, history
  <2> HIDE DEF r
  <2> QED BY <1>0, <2>1, <2>2, TypeKept
<1>2. ASSUME NEW q \in Request, ReadRoles(q) PROVE TypeInv'
  <2>1. PICK u \in req[q].on :
          req' = [req EXCEPT ![q].stage = "session", ![q].roles = users[u].roles]
    BY <1>2 DEF ReadRoles
  <2> DEFINE r == [req[q] EXCEPT !.stage = "session", !.roles = users[u].roles]
  <2>2. users[u].roles \in SUBSET Role
    BY <1>0, <2>1 DEF UserType
  <2>3. r \in RequestType
    BY <1>0, <2>2, RequestEdits
  <2>6. r.on = req[q].on
    BY <1>0 DEF RequestType
  <2>4. req' = [req EXCEPT ![q] = r] /\ Keeps
    BY <1>0, <1>2, <2>1 DEF ReadRoles, Keeps, history
  <2>5. \A v \in r.on : users[v].stored
    BY <1>0, <1>2, <2>6 DEF ReadRoles
  <2> HIDE DEF r
  <2> QED BY <1>0, <2>3, <2>4, <2>5, <2>6, TypeKept
<1>3. ASSUME NEW q \in Request, CreateSession(q) PROVE TypeInv'
  <2>1. PICK x \in Session : sessions' = [sessions EXCEPT ![x] = NewSession(q)]
    BY <1>3 DEF CreateSession
  <2>2. NewSession(q) \in SessionType /\ NewSession(q).of = req[q].on
    BY <1>0 DEF NewSession, SessionType, RequestType
  <2>3. req' = End(q) /\ req[q].stage = "session" /\ UNCHANGED <<users, unrevoked, blind, faults>>
    BY <1>3 DEF CreateSession, history
  <2>4. /\ sessions' \in [Session -> SessionType]
        /\ \A y \in Session : \A u \in sessions'[y].of : users[u].stored
    BY <1>0, <2>1, <2>2, <2>3 DEF TypeInv, TypeOK
  <2> QED BY <1>0, <2>3, <2>4, Ended, TypeParts DEF TypeInv, TypeOK, Idle
<1>4. ASSUME NEW x \in Session, Logout(x) \/ Expire(x) PROVE TypeInv'
  <2>1. UNCHANGED <<users, req, unrevoked, blind, faults>>
    BY <1>4 DEF Logout, Expire, history
  <2>2. [sessions[x] EXCEPT !.state = "expired"] \in SessionType /\ NoSession \in SessionType
    BY <1>0 DEF SessionType, NoSession
  <2>3. /\ \/ sessions' = [sessions EXCEPT ![x] = NoSession]
           \/ sessions' = [sessions EXCEPT ![x] = [sessions[x] EXCEPT !.state = "expired"]]
        /\ NoSession.of = {} /\ [sessions[x] EXCEPT !.state = "expired"].of = sessions[x].of
    BY <1>0, <1>4 DEF Logout, Expire, NoSession, SessionType
  <2>4. /\ sessions' \in [Session -> SessionType]
        /\ \A y \in Session : \A u \in sessions'[y].of : users[u].stored
    BY <1>0, <2>2, <2>3 DEF TypeInv, TypeOK
  <2> QED BY <2>1, <2>4, TypeParts DEF TypeInv, TypeOK
<1>5. CASE CleanExpired
  <2>1. UNCHANGED <<users, req, unrevoked, blind, faults>>
    BY <1>5 DEF CleanExpired, history
  <2>2. NoSession \in SessionType /\ NoSession.of = {}
    BY DEF SessionType, NoSession
  <2>3. /\ sessions' \in [Session -> SessionType]
        /\ \A y \in Session : \A u \in sessions'[y].of : users[u].stored
    BY <1>0, <1>5, <2>2 DEF TypeInv, TypeOK, CleanExpired
  <2> QED BY <2>1, <2>3, TypeParts DEF TypeInv, TypeOK
<1>6. ASSUME NEW q \in Request, NEW x \in Session, NEW op \in AdminOps, NEW u \in User,
             Admit(q, x, op, u)
      PROVE  TypeInv'
  <2>1. PICK r \in RequestType : req' = [req EXCEPT ![q] = r] /\ r.stage = "load" /\ (\A v, w \in r.on : v = w)
    BY <1>6, Admitted
  <2>2. Keeps
    BY <1>0, <1>6, Admitted DEF Keeps, history
  <2> QED BY <1>0, <2>1, <2>2, TypeKept
<1>7. ASSUME NEW q \in Request, Load(q) PROVE TypeInv'
  <2>1. Keeps /\ req[q].stage = "load"
    BY <1>0, <1>7 DEF Load, Keeps, history
  <2>2. PICK u \in req[q].on :
          req' = IF users[u].stored = (req[q].op = "create") THEN End(q) ELSE Loaded(q, u)
    BY <1>7 DEF Load
  <2>3. CASE req' = End(q)
    BY <1>0, <2>1, <2>3, Ended, TypeKept DEF Idle
  <2>4. CASE users[u].stored # (req[q].op = "create") /\ req' = Loaded(q, u)
    <3> DEFINE F == req[q].op = "update" /\ Asked(q, u)
               st == IF req[q].op = "create" THEN "insert"
                     ELSE IF Removes(q, u) THEN "roles of" ELSE Granted(q)
    <3>1. PICK b \in BOOLEAN : req' = LoadedAs(q, b, st)
      <4>1. req' = [req EXCEPT ![q].active = F, ![q].stage = st]
        BY <2>4 DEF Loaded
      <4>2. CASE F
        BY <4>1, <4>2 DEF LoadedAs
      <4>3. CASE ~F
        BY <4>1, <4>3 DEF LoadedAs
      <4> QED BY <4>2, <4>3
    <3>2. st \in Stages
      <4>1. Granted(q) \in Stages
        BY DEF Granted, Stages
      <4> QED BY <4>1 DEF Stages
    <3>3. st = "insert" \/ req[q].op # "create"
      OBVIOUS
    <3>5. /\ req' \in [Request -> RequestType] /\ \A p \in Request : p # q => req'[p] = req[p]
          /\ req'[q].stage = st /\ req'[q].on = req[q].on
      <4>1. req \in [Request -> RequestType]
        BY <1>0
      <4> HIDE DEF F, st
      <4> QED BY <3>1, <3>2, <4>1, LoadEdit
    <3>4. st = "insert" \/ \A v \in req[q].on : users[v].stored
      <4>1. users[u].stored \in BOOLEAN
        BY <1>0, <2>2 DEF UserType
      <4>2. req[q].op # "create" => users[u].stored
        BY <2>4, <4>1
      <4>3. \A v \in req[q].on : v = u
        BY <1>0, <2>2
      <4> HIDE DEF st
      <4> QED BY <3>3, <4>2, <4>3
    <3> HIDE DEF F, st
    <3> QED BY <1>0, <2>1, <3>4, <3>5, TypeKept
  <2> QED BY <2>2, <2>3, <2>4
<1>8. ASSUME NEW q \in Request, GuardRoles(q) \/ GuardCount(q) PROVE TypeInv'
  <2>1. Keeps /\ req[q].stage \in {"roles of", "count"}
    BY <1>0, <1>8 DEF GuardRoles, GuardCount, Keeps, history
  <2>2. Granted(q) \in Stages /\ "count" \in Stages
    BY DEF Granted, Stages
  <2>3. req' = End(q) \/ \E st \in Stages : req' = Go(q, st)
    BY <1>8, <2>2 DEF GuardRoles, GuardCount
  <2>4. /\ req' \in [Request -> RequestType] /\ \A p \in Request : p # q => req'[p] = req[p]
        /\ req'[q].on = {} \/ req'[q].on = req[q].on
    <3>1. CASE req' = End(q)
      BY <1>0, <3>1, Ended, IdleType
    <3>2. ASSUME NEW st \in Stages, req' = Go(q, st)
          PROVE  /\ req' \in [Request -> RequestType] /\ req'[q].on = req[q].on
                 /\ \A p \in Request : p # q => req'[p] = req[p]
      <4>1. req \in [Request -> RequestType]
        BY <1>0
      <4> QED BY <3>2, <4>1, Goes
    <3> QED BY <2>3, <3>1, <3>2
  <2>5. (\A u \in req'[q].on : users[u].stored) /\ \A u, v \in req'[q].on : u = v
    BY <1>0, <2>1, <2>4
  <2> QED BY <2>1, <2>4, <2>5, TypeKept
<1>9. ASSUME NEW q \in Request, Insert(q) PROVE TypeInv'
  <2>1. PICK u \in req[q].on :
          IF users[u].stored THEN req' = End(q) /\ UNCHANGED users
          ELSE /\ users' = [users EXCEPT ![u] =
                    [stored |-> TRUE, active |-> TRUE, roles |-> req[q].roles]]
               /\ req' = End(q)
    BY <1>9 DEF Insert
  <2>2. [stored |-> TRUE, active |-> TRUE, roles |-> req[q].roles] \in UserType
    BY <1>0 DEF RequestType, UserType
  <2>3. req' = End(q) /\ UNCHANGED <<sessions, unrevoked, blind, faults>>
    BY <1>9, <2>1 DEF Insert, history
  <2>4. /\ users' \in [User -> UserType]
        /\ \A v \in User : ~users'[v].stored => users'[v] = NoUser
        /\ \A v \in User : users[v].stored => users'[v].stored
    <3>1. CASE UNCHANGED users
      BY <1>0, <3>1 DEF TypeInv, TypeOK
    <3>2. CASE users' = [users EXCEPT ![u] =
                 [stored |-> TRUE, active |-> TRUE, roles |-> req[q].roles]]
      BY <1>0, <2>2, <3>2 DEF TypeInv, TypeOK
    <3> QED BY <2>1, <3>1, <3>2
  <2> QED BY <1>0, <2>3, <2>4, Ended, TypeParts DEF TypeInv, TypeOK, Idle
<1>10. ASSUME NEW q \in Request, UpdatePassword(q) PROVE TypeInv'
  <2>1. /\ UNCHANGED <<users, unrevoked, blind, faults>>
        /\ req[q].stage = "password"
        /\ sessions' = [x \in Session |-> IF sessions[x].of = req[q].on
                          THEN [sessions[x] EXCEPT !.outdated = TRUE] ELSE sessions[x]]
    BY <1>10 DEF UpdatePassword, history
  <2>2. sessions' \in [Session -> SessionType] /\ \A x \in Session : sessions'[x].of = sessions[x].of
    <3>1. ASSUME NEW x \in Session
          PROVE  /\ sessions'[x] \in SessionType /\ sessions'[x].of = sessions[x].of
      <4>1. sessions[x] \in SessionType
        BY <1>0
      <4>2. /\ [sessions[x] EXCEPT !.outdated = TRUE] \in SessionType
            /\ [sessions[x] EXCEPT !.outdated = TRUE].of = sessions[x].of
        BY <4>1 DEF SessionType
      <4> QED BY <2>1, <4>1, <4>2
    <3> QED BY <2>1, <3>1
  <2>3. ASSUME NEW p \in Request
        PROVE  /\ req'[p] \in RequestType /\ req'[p].on = req[p].on
               /\ req'[p].stage = IF p = q THEN "write" ELSE req[p].stage
    <3>1. req[p] \in RequestType /\ "write" \in Stages
      BY <1>0 DEF Stages
    <3>2. /\ [req[p] EXCEPT !.stage = "write"] \in RequestType
          /\ [req[p] EXCEPT !.outdated = TRUE] \in RequestType
      BY <3>1, RequestEdits
    <3>3. /\ [req[p] EXCEPT !.stage = "write"].on = req[p].on
          /\ [req[p] EXCEPT !.stage = "write"].stage = "write"
          /\ [req[p] EXCEPT !.outdated = TRUE].on = req[p].on
          /\ [req[p] EXCEPT !.outdated = TRUE].stage = req[p].stage
      BY <3>1 DEF RequestType
    <3> QED BY <1>10, <3>1, <3>2, <3>3 DEF UpdatePassword
  <2>4. req' \in [Request -> RequestType]
    BY <1>10, <2>3 DEF UpdatePassword
  <2> QED BY <1>0, <2>1, <2>2, <2>3, <2>4, TypeParts DEF TypeInv, TypeOK
<1>11. ASSUME NEW q \in Request, ReplaceRoles(q) PROVE TypeInv'
  <2> DEFINE r == [req[q] EXCEPT !.stage = "commit", !.merges = FALSE]
  <2>1. req' = [req EXCEPT ![q] = r] /\ Keeps /\ req[q].stage = "replace"
    BY <1>0, <1>11 DEF ReplaceRoles, Keeps, history
  <2>2. r \in RequestType /\ r.on = req[q].on
    <3>1. req[q] \in RequestType
      BY <1>0
    <3>2. r.on = req[q].on
      BY <3>1 DEF RequestType
    <3> QED BY <3>1, <3>2, RequestEdits
  <2> HIDE DEF r
  <2> QED BY <1>0, <2>1, <2>2, TypeKept
<1>12. ASSUME NEW q \in Request, Fail(q) PROVE TypeInv'
  <2>1. /\ UNCHANGED <<users, sessions, blind>> /\ faults' \in 0..MaxFaults
        /\ unrevoked' \subseteq User /\ req' = End(q)
    BY <1>0, <1>12, BoundsAssumption DEF Fail, TypeInv, TypeOK
  <2> QED BY <1>0, <2>1, IdleType, Ended, TypeParts DEF TypeInv, TypeOK
<1>13. ASSUME NEW q \in Request, Update(q) PROVE TypeInv'
  <2>1. /\ UNCHANGED <<sessions, unrevoked, faults>> /\ req[q].stage = "write"
        /\ req' = Overtake(q, IF Revokes(q) THEN Go(q, "revoke") ELSE End(q))
        /\ blind' \subseteq User
    BY <1>0, <1>13 DEF Update, Blinded, TypeInv, TypeOK
  <2>2. PICK u \in req[q].on : users' = [users EXCEPT ![u].active = req[q].active]
    BY <1>13 DEF Update
  <2>3. /\ users' \in [User -> UserType]
        /\ \A v \in User : ~users'[v].stored => users'[v] = NoUser
        /\ \A v \in User : users[v].stored => users'[v].stored
    <3>1. users[u] \in UserType /\ users[u].stored /\ req[q].active \in BOOLEAN /\ u \in User
      BY <1>0, <2>1, <2>2 DEF RequestType
    <3>2. /\ [users[u] EXCEPT !.active = req[q].active] \in UserType
          /\ [users[u] EXCEPT !.active = req[q].active].stored
      BY <3>1 DEF UserType
    <3>3. users' = [users EXCEPT ![u] = [users[u] EXCEPT !.active = req[q].active]]
      BY <2>2
    <3> QED BY <3>1, <3>2, <3>3, RowEdited
  <2> DEFINE r == IF Revokes(q) THEN Go(q, "revoke") ELSE End(q)
  <2>4. /\ r \in [Request -> RequestType]
        /\ \A p \in Request : p # q => r[p] = req[p]
        /\ r[q].on = {} \/ r[q].on = req[q].on
    <3>1. "revoke" \in Stages
      BY DEF Stages
    <3>2. /\ Go(q, "revoke") \in [Request -> RequestType]
          /\ \A p \in Request : p # q => Go(q, "revoke")[p] = req[p]
          /\ Go(q, "revoke")[q].on = req[q].on
      BY <1>0, <3>1, GoType
    <3>3. /\ End(q) \in [Request -> RequestType]
          /\ \A p \in Request : p # q => End(q)[p] = req[p]
          /\ End(q)[q].on = {}
      BY <1>0, IdleType DEF End
    <3> QED BY <3>2, <3>3
  <2> HIDE DEF r
  <2>5. /\ req' \in [Request -> RequestType]
        /\ \A p \in Request : req'[p].stage = r[p].stage /\ req'[p].on = r[p].on
    BY <2>1, <2>4, OvertakeType DEF r
  <2>6. \A p \in Request :
          /\ req'[p].stage \in {"idle", "load", "insert"} \/ \A v \in req'[p].on : users[v].stored
          /\ \A v, w \in req'[p].on : v = w
    BY <1>0, <2>1, <2>4, <2>5
  <2> QED BY <1>0, <2>1, <2>3, <2>5, <2>6, TypeParts DEF TypeInv, TypeOK
<1>14. ASSUME NEW q \in Request, CommitRoles(q) PROVE TypeInv'
  <2>1. PICK u \in req[q].on :
          IF req[q].merges /\ users[u].roles \cap req[q].roles # {}
          THEN req' = End(q) /\ UNCHANGED <<users, blind>>
          ELSE /\ users' = [users EXCEPT ![u].roles =
                    req[q].roles \cup IF req[q].merges THEN @ ELSE {}]
               /\ req' = Overtake(q, Merged(q, u))
               /\ Blinded(q)
    BY <1>14 DEF CommitRoles, Merged
  <2>2. UNCHANGED <<sessions, unrevoked, faults>> /\ req[q].stage = "commit"
    BY <1>14 DEF CommitRoles
  <2>3. CASE req' = End(q) /\ UNCHANGED <<users, blind>>
    BY <1>0, <2>2, <2>3, Ended, IdleType, TypeKept DEF Keeps
  <2>4. CASE /\ users' = [users EXCEPT ![u].roles =
                    req[q].roles \cup IF req[q].merges THEN @ ELSE {}]
             /\ req' = Overtake(q, Merged(q, u))
             /\ Blinded(q)
    <3> DEFINE R == req[q].roles \cup IF req[q].merges THEN users[u].roles ELSE {}
    <3>1. users[u] \in UserType /\ users[u].stored /\ R \in SUBSET Role /\ u \in User
      <4>1. users[u] \in UserType /\ u \in User /\ req[q].roles \subseteq Role
        BY <1>0 DEF RequestType
      <4> QED BY <1>0, <2>2, <4>1 DEF UserType
    <3>2. users' = [users EXCEPT ![u] = [users[u] EXCEPT !.roles = R]]
      BY <2>4
    <3>3. [users[u] EXCEPT !.roles = R] \in UserType /\ [users[u] EXCEPT !.roles = R].stored
      <4> HIDE DEF R
      <4> QED BY <3>1 DEF UserType
    <3>4. /\ users' \in [User -> UserType]
          /\ \A v \in User : ~users'[v].stored => users'[v] = NoUser
          /\ \A v \in User : users[v].stored => users'[v].stored
      <4> HIDE DEF R
      <4> QED BY <3>1, <3>2, <3>3, RowEdited
    <3>5. /\ req' \in [Request -> RequestType]
          /\ \A p \in Request :
               /\ req'[p].on = req[p].on
               /\ req'[p].stage = IF p = q THEN "revoke" ELSE req[p].stage
      BY <1>0, <2>4, MergedType, OvertakeType
    <3>6. \A p \in Request :
            \/ req'[p].stage \in {"idle", "load", "insert"}
            \/ \A v \in req'[p].on : users[v].stored
      BY <1>0, <2>2, <3>5
    <3>7. blind' \subseteq User
      BY <1>0, <2>4 DEF Blinded, TypeInv, TypeOK
    <3> QED BY <1>0, <2>2, <3>4, <3>5, <3>6, <3>7, TypeParts DEF TypeInv, TypeOK
  <2> QED BY <2>1, <2>3, <2>4
<1>15. ASSUME NEW q \in Request, Revoke(q) PROVE TypeInv'
  <2>1. /\ UNCHANGED <<users, blind, faults>> /\ unrevoked' \subseteq unrevoked
        /\ sessions' = [x \in Session |->
             IF sessions[x].of = req[q].on THEN NoSession ELSE sessions[x]]
    BY <1>15 DEF Revoke
  <2>2. /\ sessions' \in [Session -> SessionType]
        /\ \A x \in Session : \A u \in sessions'[x].of : users[u].stored
    <3>1. NoSession \in SessionType /\ NoSession.of = {}
      BY DEF SessionType, NoSession
    <3> QED BY <1>0, <2>1, <3>1 DEF TypeInv, TypeOK
  <2>3. ASSUME NEW p \in Request
        PROVE  /\ req'[p] \in RequestType
               /\ \/ req'[p] = Idle
                  \/ req'[p].on = req[p].on /\ req'[p].stage = req[p].stage
    <3>1. req[p] \in RequestType
      BY <1>0
    <3>2. [req[p] EXCEPT !.raced = TRUE] \in RequestType
      BY <3>1, RequestEdits
    <3>3. /\ [req[p] EXCEPT !.raced = TRUE].on = req[p].on
          /\ [req[p] EXCEPT !.raced = TRUE].stage = req[p].stage
      BY <3>1 DEF RequestType
    <3> QED BY <1>15, <3>1, <3>2, <3>3, IdleType DEF Revoke
  <2>4. req' \in [Request -> RequestType]
    BY <1>15, <2>3 DEF Revoke
  <2>5. \A p \in Request :
          /\ req'[p].stage \in {"idle", "load", "insert"} \/ \A v \in req'[p].on : users[v].stored
          /\ \A v, w \in req'[p].on : v = w
    BY <1>0, <2>3, IdleType
  <2> QED BY <1>0, <2>1, <2>2, <2>4, <2>5, TypeParts DEF TypeInv, TypeOK
<1>16. CASE UNCHANGED vars
  BY <1>16 DEF vars, TypeInv, TypeOK, Keeps
<1> QED
  BY <1>1, <1>2, <1>3, <1>4, <1>5, <1>6, <1>7, <1>8, <1>9, <1>10, <1>11, <1>12, <1>13, <1>14,
     <1>15, <1>16
  DEF Next, Handler, LogIn, CreateUser, UpdateUser, DeactivateUser, UpdateUserRoles,
      EnsureNotLastAdmin

\* TypeOK: requests and sessions are about users that exist, in every state.
THEOREM AccountsTypes == Spec => []TypeOK
<1>1. Init => TypeInv
  BY TypeInit
<1>2. TypeInv /\ [Next]_vars => TypeInv'
  BY TypeStep
<1>3. TypeInv => TypeOK
  BY DEF TypeInv
<1> QED BY <1>1, <1>2, <1>3, PTL DEF Spec

-----------------------------------------------------------------------------
(* What a request that has not been overtaken knows *)

Granting == {"password", "write"}
Replacing == {"replace", "commit"}

\* The view of q still holds unless q was overtaken: what it is going to
\* write leaves an active administrator, and re-activates nobody unasked.
Knows(q) ==
  LET r == req[q] IN
  ~r.overtaken =>
    \A u \in r.on :
      /\ r.stage \in Granting /\ ~r.active /\ u \in ActiveAdmins => ActiveAdmins \ {u} # {}
      /\ r.stage \in Replacing /\ Admin \notin r.roles /\ u \in ActiveAdmins
           => ActiveAdmins \ {u} # {}
      /\ r.stage \in Granting \cup {"roles of", "count"} /\ r.active /\ r.asks # {TRUE}
           => users[u].active

ViewInv ==
  \A q \in Request :
    /\ req[q].asks \in AskForms
    /\ req[q].op = "login" => req[q].stage \in {"roles", "session"}
    /\ req[q].op = "deactivate" => Disables(req[q].asks)
    /\ Knows(q)

\* A request that stays as it is, or moves without a claim, knows what it knew
\* if the users stay.
LEMMA KnowsStill ==
  ASSUME NEW q \in Request, Knows(q), UNCHANGED users,
         req'[q].on \subseteq req[q].on, req'[q].active = req[q].active,
         req'[q].asks = req[q].asks, req'[q].roles = req[q].roles,
         req'[q].overtaken = req[q].overtaken,
         \/ req'[q].stage = req[q].stage
         \/ req[q].stage \in Granting /\ req'[q].stage \in Granting
         \/ req[q].stage \in Replacing /\ req'[q].stage \in Replacing
         \/ req'[q].stage \notin Granting \cup Replacing \cup {"roles of", "count"}
  PROVE  Knows(q)'
<1>1. UNCHANGED ActiveAdmins
  BY DEF ActiveAdmins
<1> QED BY <1>1 DEF Knows, Granting, Replacing

\* A request at a stage that claims nothing.
LEMMA KnowsNothing ==
  ASSUME NEW q \in Request,
         req'[q].stage \notin Granting \cup Replacing \cup {"roles of", "count"}
  PROVE  Knows(q)'
BY DEF Knows, Granting, Replacing

LEMMA ViewInit == Init => ViewInv
BY IdleType DEF Init, ViewInv, Knows, Granting, Replacing

\* What the invariant asks of one request, and what it looks at.
View(q) ==
  /\ req[q].asks \in AskForms
  /\ req[q].op = "login" => req[q].stage \in {"roles", "session"}
  /\ req[q].op = "deactivate" => Disables(req[q].asks)
  /\ Knows(q)

SameClaim(r, s) ==
  /\ s.op = r.op /\ s.stage = r.stage /\ s.on = r.on /\ s.asks = r.asks
  /\ s.active = r.active /\ s.roles = r.roles /\ s.overtaken = r.overtaken

LEMMA ViewKept ==
  ASSUME ViewInv, UNCHANGED users, NEW q \in Request,
         \A p \in Request : p # q => SameClaim(req[p], req'[p]),
         View(q)'
  PROVE  ViewInv'
<1>1. ASSUME NEW p \in Request, p # q PROVE View(p)'
  BY <1>1, KnowsStill DEF ViewInv, View, SameClaim
<1> QED BY <1>1 DEF ViewInv, View

LEMMA ViewEnds == ASSUME NEW q \in Request, req'[q] = Idle PROVE View(q)'
BY IdleType, KnowsNothing DEF View, Granting, Replacing

\* A write of users overtakes every request that claims something, but the one
\* that writes, which claims nothing more.
LEMMA OthersOvertaken ==
  ASSUME TypeInv, ViewInv, NEW q \in Request, NEW r \in [Request -> RequestType],
         req' = Overtake(q, r),
         \A p \in Request : p # q => r[p].op = req[p].op /\ r[p].stage = req[p].stage
                                    /\ r[p].asks = req[p].asks,
         r[q].stage \in {"idle", "revoke"}, r[q].asks \in AskForms,
         r[q].op # "login", r[q].op = "deactivate" => Disables(r[q].asks)
  PROVE  ViewInv'
<1>1. \A p \in Request :
        /\ req'[p].op = r[p].op /\ req'[p].stage = r[p].stage /\ req'[p].asks = r[p].asks
        /\ p # q /\ r[p].op # "login" /\ r[p].stage \notin {"idle", "load"} => req'[p].overtaken
  BY OvertakeType
<1>2. View(q)'
  BY <1>1, KnowsNothing DEF View, Granting, Replacing
<1>3. ASSUME NEW p \in Request, p # q PROVE View(p)'
  <2>1. Knows(p)'
    <3>1. CASE req'[p].stage \in Granting \cup Replacing \cup {"roles of", "count"}
      <4>1. req[p].op # "login" /\ r[p].stage \notin {"idle", "load"}
        BY <1>1, <1>3, <3>1 DEF ViewInv, Granting, Replacing
      <4>2. req'[p].overtaken
        BY <1>1, <1>3, <4>1
      <4> QED BY <4>2 DEF Knows
    <3> QED BY <3>1, KnowsNothing
  <2> QED BY <1>1, <1>3, <2>1 DEF ViewInv, View
<1> QED BY <1>2, <1>3 DEF ViewInv, View

LEMMA ViewStep == TypeInv /\ ViewInv /\ [Next]_vars => ViewInv'
<1> SUFFICES ASSUME TypeInv, ViewInv, [Next]_vars PROVE ViewInv'
  OBVIOUS
<1>0. /\ users \in [User -> UserType] /\ req \in [Request -> RequestType]
      /\ \A q \in Request : req[q] \in RequestType /\ req[q].on \subseteq User
      /\ \A q \in Request : \A u \in req[q].on :
           req[q].stage \notin {"idle", "load", "insert"} => users[u].stored
      /\ \A q \in Request : \A u, v \in req[q].on : u = v
      /\ \A q \in Request : View(q)
      /\ \A r : SameClaim(r, r)
  BY DEF TypeInv, TypeOK, RequestType, ViewInv, View, SameClaim
<1>1. ASSUME NEW q \in Request, UNCHANGED users, req' = End(q) PROVE ViewInv'
  BY <1>0, <1>1, Ended, ViewEnds, ViewKept
<1>2. ASSUME NEW q \in Request, NEW u \in User, Login(q, u) PROVE ViewInv'
  <2> DEFINE r == [Idle EXCEPT !.op = "login", !.stage = "roles", !.on = {u}]
  <2>1. r.asks \in AskForms /\ r.stage = "roles" /\ r.op = "login"
    BY DEF Idle, AskForms
  <2>2. req' = [req EXCEPT ![q] = r] /\ UNCHANGED users
    BY <1>2 DEF Login
  <2> HIDE DEF r
  <2>3. req'[q] = r /\ \A p \in Request : p # q => req'[p] = req[p]
    BY <1>0, <2>2
  <2>4. View(q)'
    BY <2>1, <2>3, KnowsNothing DEF View, Granting, Replacing
  <2> QED BY <1>0, <2>2, <2>3, <2>4, ViewKept
<1>3. ASSUME NEW q \in Request, ReadRoles(q) PROVE ViewInv'
  <2>1. PICK u \in req[q].on :
          req' = [req EXCEPT ![q].stage = "session", ![q].roles = users[u].roles]
    BY <1>3 DEF ReadRoles
  <2>2. UNCHANGED users /\ \A p \in Request : p # q => req'[p] = req[p]
    BY <1>0, <1>3, <2>1 DEF ReadRoles
  <2>3. req'[q].stage = "session" /\ req'[q].asks = req[q].asks /\ req'[q].op = req[q].op
    <3>1. req[q] \in RequestType
      BY <1>0
    <3> QED BY <1>0, <2>1, <3>1 DEF RequestType
  <2>4. View(q)'
    BY <1>0, <2>3, KnowsNothing DEF View, Granting, Replacing
  <2> QED BY <1>0, <2>2, <2>4, ViewKept
<1>4. ASSUME UNCHANGED <<users, req>> PROVE ViewInv'
  BY <1>0, <1>4, KnowsStill DEF ViewInv, View
<1>5. CASE \/ CleanExpired \/ UNCHANGED vars
           \/ \E x \in Session : Logout(x) \/ Expire(x)
  BY <1>4, <1>5 DEF CleanExpired, Logout, Expire, vars
<1>6. ASSUME NEW q \in Request, NEW x \in Session, NEW op \in AdminOps, NEW u \in User,
             Admit(q, x, op, u)
      PROVE  ViewInv'
  <2>1. PICK r \in RequestType :
          /\ req' = [req EXCEPT ![q] = r]
          /\ r.op = op /\ r.stage = "load" /\ r.asks \in AskForms
          /\ op = "deactivate" => Disables(r.asks)
    BY <1>6, Admitted
  <2>2. /\ req'[q] = r /\ UNCHANGED users /\ \A p \in Request : p # q => req'[p] = req[p]
        /\ op # "login"
    BY <1>0, <1>6, <2>1, Admitted DEF AdminOps
  <2>3. View(q)'
    BY <2>1, <2>2, KnowsNothing DEF View, Granting, Replacing
  <2> QED BY <1>0, <2>2, <2>3, ViewKept
<1>7. ASSUME NEW q \in Request, Load(q), req[q].op \in AdminOps PROVE ViewInv'
  <2>1. PICK u \in req[q].on :
          req' = IF users[u].stored = (req[q].op = "create") THEN End(q) ELSE Loaded(q, u)
    BY <1>7 DEF Load
  <2>2. UNCHANGED users
    BY <1>7 DEF Load
  <2>3. CASE req' = Loaded(q, u)
    <3> DEFINE F == req[q].op = "update" /\ Asked(q, u)
               st == IF req[q].op = "create" THEN "insert"
                     ELSE IF Removes(q, u) THEN "roles of" ELSE Granted(q)
    <3>1. PICK b \in BOOLEAN : (b <=> F) /\ req' = LoadedAs(q, b, st)
      <4>1. req' = [req EXCEPT ![q].active = F, ![q].stage = st]
        BY <2>3 DEF Loaded
      <4>2. CASE F
        BY <4>1, <4>2 DEF LoadedAs
      <4>3. CASE ~F
        BY <4>1, <4>3 DEF LoadedAs
      <4> QED BY <4>2, <4>3
    <3>2. st \in Stages
      <4>1. Granted(q) \in Stages
        BY DEF Granted, Stages
      <4> QED BY <4>1 DEF Stages
    <3>3. /\ \A p \in Request : p # q => req'[p] = req[p]
          /\ req'[q].stage = st /\ req'[q].active = b
          /\ req'[q].op = req[q].op /\ req'[q].on = req[q].on
          /\ req'[q].asks = req[q].asks /\ req'[q].roles = req[q].roles
          /\ req'[q].overtaken = req[q].overtaken
      <4>1. req \in [Request -> RequestType]
        BY <1>0
      <4> HIDE DEF F, st
      <4> QED BY <3>1, <3>2, <4>1, LoadEdit
    <3>4. /\ users[u].active \in BOOLEAN /\ \A v \in req[q].on : v = u
          /\ req[q].asks \in AskForms
          /\ req[q].op \in AdminOps \ {"login"}
          /\ req[q].op = "deactivate" => Disables(req[q].asks)
      BY <1>0, <1>7, <2>1 DEF AdminOps, UserType, View
    <3>5. b /\ req[q].asks # {TRUE} => users[u].active
      BY <3>1, <3>4 DEF Asked, AskForms
    <3>6. st \in Granting /\ ~b => u \notin ActiveAdmins
      <4>1. CASE req[q].asks = {}
        BY <3>1, <3>4, <4>1 DEF Disables, Granting, Granted, Removes, Asked, ActiveAdmins, AdminOps
      <4>2. CASE req[q].asks = {TRUE}
        BY <3>1, <3>4, <4>2 DEF Disables, Granting, Granted, Removes, Asked, ActiveAdmins, AdminOps
      <4>3. CASE req[q].asks = {FALSE}
        BY <3>1, <3>4, <4>3 DEF Disables, Granting, Granted, Removes, Asked, ActiveAdmins, AdminOps
      <4> QED BY <3>4, <4>1, <4>2, <4>3 DEF AskForms
    <3>7. st \in Replacing => u \notin ActiveAdmins \/ Admin \in req[q].roles
      BY <3>4 DEF Replacing, Granted, Removes, ActiveAdmins
    <3> HIDE DEF F, st
    <3>8. UNCHANGED ActiveAdmins
      BY <2>2 DEF ActiveAdmins
    <3>9. Knows(q)'
      BY <2>2, <3>3, <3>4, <3>5, <3>6, <3>7, <3>8 DEF Knows
    <3>10. View(q)'
      BY <1>7, <3>3, <3>4, <3>9 DEF View
    <3> QED BY <1>0, <2>2, <3>3, <3>10, ViewKept
  <2> QED BY <1>1, <2>1, <2>2, <2>3
<1>8. ASSUME NEW q \in Request, GuardRoles(q) \/ GuardCount(q), req[q].op # "login"
      PROVE  ViewInv'
  <2> DEFINE Moves(st) == /\ \A p \in Request : p # q => req'[p] = req[p]
                          /\ req'[q].stage = st /\ req'[q].active = req[q].active
                          /\ req'[q].op = req[q].op /\ req'[q].on = req[q].on
                          /\ req'[q].asks = req[q].asks /\ req'[q].roles = req[q].roles
                          /\ req'[q].overtaken = req[q].overtaken
  <2>1. UNCHANGED users /\ UNCHANGED ActiveAdmins
    BY <1>8 DEF GuardRoles, GuardCount, ActiveAdmins
  <2>2. Granted(q) \in Granting \cup {"replace"} /\ Granted(q) \in Stages /\ "count" \in Stages
    BY DEF Granted, Stages, Granting
  <2>3. \A st \in Stages : req' = Go(q, st) => Moves(st)
    BY <1>0, Goes
  <2>4. CASE req' = Go(q, "count") /\ req[q].stage = "roles of"
    <3>1. Moves("count")
      BY <2>2, <2>3, <2>4
    <3>2. Knows(q)'
      BY <1>0, <2>1, <2>4, <3>1 DEF View, Knows, Granting, Replacing
    <3> QED BY <1>0, <1>8, <2>1, <3>1, <3>2, ViewKept DEF View
  <2>5. CASE /\ req' = Go(q, Granted(q)) /\ req[q].stage \in {"roles of", "count"}
             /\ \A u \in req[q].on : u \in ActiveAdmins => ActiveAdmins \ {u} # {}
    <3>1. Moves(Granted(q))
      BY <2>2, <2>3, <2>5
    <3>2. Knows(q)'
      BY <1>0, <2>1, <2>2, <2>5, <3>1 DEF View, Knows, Granting, Replacing
    <3> QED BY <1>0, <1>8, <2>1, <3>1, <3>2, ViewKept DEF View
  <2>6. CASE GuardRoles(q)
    <3>1. PICK u \in req[q].on : req' = Go(q, IF Admin \in users[u].roles THEN "count" ELSE Granted(q))
      BY <2>6 DEF GuardRoles
    <3>2. req[q].stage = "roles of" /\ \A v \in req[q].on : v = u
      BY <1>0, <2>6 DEF GuardRoles
    <3> QED BY <2>4, <2>5, <3>1, <3>2 DEF ActiveAdmins
  <2>7. CASE GuardCount(q)
    <3>1. req[q].stage = "count" /\ req' = IF ActiveAdmins \ req[q].on = {} THEN End(q) ELSE Go(q, Granted(q))
      BY <2>7 DEF GuardCount
    <3>2. ActiveAdmins \ req[q].on # {} => \A u \in req[q].on : ActiveAdmins \ {u} # {}
      OBVIOUS
    <3> QED BY <1>1, <2>1, <2>5, <3>1, <3>2
  <2> QED BY <1>8, <2>6, <2>7
<1>9. ASSUME NEW q \in Request, Insert(q) PROVE ViewInv'
  <2>1. PICK u \in req[q].on :
          IF users[u].stored THEN req' = End(q) /\ UNCHANGED users
          ELSE /\ users' = [users EXCEPT ![u] =
                    [stored |-> TRUE, active |-> TRUE, roles |-> req[q].roles]]
               /\ req' = End(q)
    BY <1>9 DEF Insert
  <2>2. CASE ~users[u].stored /\ req' = End(q)
             /\ users' = [users EXCEPT ![u] = [stored |-> TRUE, active |-> TRUE, roles |-> req[q].roles]]
    <3>1. \A v \in User : users[v].stored => users'[v] = users[v]
      BY <1>0, <2>2
    <3>2. ActiveAdmins \subseteq ActiveAdmins'
      <4>1. \A v \in ActiveAdmins : users[v].stored
        BY DEF ActiveAdmins, TypeInv, TypeOK, NoUser
      <4> QED BY <3>1, <4>1 DEF ActiveAdmins
    <3>3. \A v \in User : users[v].stored /\ v \in ActiveAdmins' => v \in ActiveAdmins
      BY <3>1 DEF ActiveAdmins
    <3>4. ASSUME NEW p \in Request, p # q PROVE View(p)'
      <4>1. req'[p] = req[p] /\ View(p)
        BY <1>0, <2>2, <3>4, Ended
      <4>2. CASE req[p].stage \in {"idle", "load", "insert"}
        BY <4>1, <4>2, KnowsNothing DEF View, Granting, Replacing
      <4>3. CASE \A v \in req[p].on : v \in User /\ users[v].stored
        <5>1. Knows(p)'
          BY <3>1, <3>2, <3>3, <4>1, <4>3 DEF View, Knows
        <5> QED BY <4>1, <5>1 DEF View
      <4> QED BY <1>0, <4>2, <4>3
    <3>5. View(q)'
      BY <1>0, <2>2, Ended, ViewEnds
    <3> QED BY <3>4, <3>5 DEF ViewInv, View
  <2> QED BY <1>1, <2>1, <2>2
<1>10. ASSUME NEW q \in Request, UpdatePassword(q) PROVE ViewInv'
  <2>1. UNCHANGED users /\ req[q].stage = "password"
    BY <1>10 DEF UpdatePassword
  <2>2. ASSUME NEW p \in Request, p # q PROVE SameClaim(req[p], req'[p])
    <3>1. SameClaim(req[p], [req[p] EXCEPT !.outdated = TRUE])
      <4>1. req[p] \in RequestType
        BY <1>0
      <4> QED BY <4>1 DEF SameClaim, RequestType
    <3>2. req'[p] = [req[p] EXCEPT !.outdated = TRUE] \/ req'[p] = req[p]
      BY <1>10, <2>2 DEF UpdatePassword
    <3> QED BY <1>0, <3>1, <3>2
  <2>3. req'[q] = [req[q] EXCEPT !.stage = "write"]
    BY <1>10 DEF UpdatePassword
  <2>4. /\ req'[q].stage = "write" /\ req'[q].on = req[q].on /\ req'[q].op = req[q].op
        /\ req'[q].asks = req[q].asks /\ req'[q].active = req[q].active
        /\ req'[q].roles = req[q].roles /\ req'[q].overtaken = req[q].overtaken
    <3>1. req[q] \in RequestType
      BY <1>0
    <3> QED BY <2>3, <3>1 DEF RequestType
  <2>5. View(q)'
    BY <1>0, <2>1, <2>4, KnowsStill DEF View, Granting
  <2> QED BY <2>1, <2>2, <2>5, ViewKept
<1>11. ASSUME NEW q \in Request, ReplaceRoles(q) PROVE ViewInv'
  <2> DEFINE r == [req[q] EXCEPT !.stage = "commit", !.merges = FALSE]
  <2>1. UNCHANGED users /\ req[q].stage = "replace" /\ req' = [req EXCEPT ![q] = r]
    BY <1>0, <1>11 DEF ReplaceRoles
  <2>2. /\ r.stage = "commit" /\ r.on = req[q].on /\ r.op = req[q].op
        /\ r.asks = req[q].asks /\ r.active = req[q].active
        /\ r.roles = req[q].roles /\ r.overtaken = req[q].overtaken
    <3>1. req[q] \in RequestType
      BY <1>0
    <3> QED BY <3>1 DEF RequestType
  <2> HIDE DEF r
  <2>3. req'[q] = r /\ \A p \in Request : p # q => req'[p] = req[p]
    BY <1>0, <2>1
  <2>4. req[q].op # "login"
    BY <1>0, <2>1 DEF View
  <2>5. View(q)'
    BY <1>0, <2>1, <2>2, <2>3, <2>4, KnowsStill DEF View, Replacing
  <2> QED BY <1>0, <2>1, <2>3, <2>5, ViewKept
<1>12. ASSUME NEW q \in Request, Fail(q) PROVE ViewInv'
  BY <1>1, <1>12 DEF Fail
<1>13. ASSUME NEW q \in Request, Update(q) PROVE ViewInv'
  <2> DEFINE r == IF Revokes(q) THEN Go(q, "revoke") ELSE End(q)
  <2>1. req' = Overtake(q, r) /\ req[q].stage = "write"
    BY <1>13 DEF Update
  <2>2. /\ r \in [Request -> RequestType]
        /\ \A p \in Request : p # q => r[p] = req[p]
        /\ \/ r[q] = Idle
           \/ r[q].stage = "revoke" /\ r[q].op = req[q].op /\ r[q].asks = req[q].asks
    <3>1. "revoke" \in Stages
      BY DEF Stages
    <3>2. /\ Go(q, "revoke") \in [Request -> RequestType]
          /\ \A p \in Request : p # q => Go(q, "revoke")[p] = req[p]
          /\ Go(q, "revoke")[q].stage = "revoke" /\ Go(q, "revoke")[q].op = req[q].op
          /\ Go(q, "revoke")[q].asks = req[q].asks
      BY <1>0, <3>1, GoType
    <3>3. /\ End(q) \in [Request -> RequestType]
          /\ \A p \in Request : p # q => End(q)[p] = req[p]
          /\ End(q)[q] = Idle
      BY <1>0, IdleType DEF End
    <3> QED BY <3>2, <3>3
  <2> HIDE DEF r
  <2>3. /\ r[q].stage \in {"idle", "revoke"} /\ r[q].asks \in AskForms
        /\ r[q].op # "login" /\ (r[q].op = "deactivate" => Disables(r[q].asks))
    BY <1>0, <2>1, <2>2, IdleType DEF View
  <2> QED BY <2>1, <2>2, <2>3, OthersOvertaken
<1>14. ASSUME NEW q \in Request, CommitRoles(q) PROVE ViewInv'
  <2>1. PICK u \in req[q].on :
          \/ req' = End(q) /\ UNCHANGED users
          \/ req' = Overtake(q, Merged(q, u))
    BY <1>14 DEF CommitRoles, Merged
  <2>2. req[q].stage = "commit"
    BY <1>14 DEF CommitRoles
  <2>3. CASE req' = Overtake(q, Merged(q, u))
    <3> DEFINE r == Merged(q, u)
    <3>1. /\ r \in [Request -> RequestType]
          /\ \A p \in Request : p # q => r[p].op = req[p].op /\ r[p].stage = req[p].stage
                                       /\ r[p].asks = req[p].asks
          /\ r[q].stage = "revoke" /\ r[q].asks = req[q].asks /\ r[q].op = req[q].op
      BY <1>0, MergedType
    <3>2. req[q].op # "login" /\ req[q].asks \in AskForms
          /\ (req[q].op = "deactivate" => Disables(req[q].asks))
      BY <1>0, <2>2 DEF View
    <3> HIDE DEF r
    <3>3. req' = Overtake(q, r)
      BY <2>3 DEF r
    <3> QED BY <3>1, <3>2, <3>3, OthersOvertaken
  <2> QED BY <1>1, <2>1, <2>3
<1>15. ASSUME NEW q \in Request, Revoke(q) PROVE ViewInv'
  <2>1. UNCHANGED users /\ req'[q] = Idle
    BY <1>15 DEF Revoke
  <2>2. ASSUME NEW p \in Request, p # q PROVE SameClaim(req[p], req'[p])
    <3>1. SameClaim(req[p], [req[p] EXCEPT !.raced = TRUE])
      <4>1. req[p] \in RequestType
        BY <1>0
      <4> QED BY <4>1 DEF SameClaim, RequestType
    <3>2. req'[p] = [req[p] EXCEPT !.raced = TRUE] \/ req'[p] = req[p]
      BY <1>15, <2>2 DEF Revoke
    <3> QED BY <1>0, <3>1, <3>2
  <2> QED BY <2>1, <2>2, ViewEnds, ViewKept
<1>16. ASSUME NEW q \in Request, CreateSession(q) PROVE ViewInv'
  BY <1>1, <1>16 DEF CreateSession
<1> QED
  BY <1>2, <1>3, <1>5, <1>6, <1>7, <1>8, <1>9, <1>10, <1>11, <1>12, <1>13, <1>14, <1>15, <1>16
  DEF Next, Handler, LogIn, CreateUser, UpdateUser, DeactivateUser, UpdateUserRoles,
      EnsureNotLastAdmin, AdminOps

-----------------------------------------------------------------------------
(* An administrator remains *)

LEMMA OnlyWrites ==
  [Next]_vars =>
    \/ UNCHANGED <<users, blind>>
    \/ \E q \in Request : Update(q) \/ CommitRoles(q) \/ Insert(q)
<1> SUFFICES ASSUME [Next]_vars
             PROVE  \/ UNCHANGED <<users, blind>>
                    \/ \E q \in Request : Update(q) \/ CommitRoles(q) \/ Insert(q)
  OBVIOUS
<1>1. ASSUME NEW q \in Request, Handler(q)
      PROVE  UNCHANGED <<users, blind>> \/ Update(q) \/ CommitRoles(q) \/ Insert(q)
  <2>1. CASE \/ ReadRoles(q) \/ CreateSession(q) \/ Load(q) \/ EnsureNotLastAdmin(q)
             \/ UpdatePassword(q) \/ ReplaceRoles(q) \/ Revoke(q)
    BY <2>1 DEF ReadRoles, CreateSession, Load, EnsureNotLastAdmin, GuardRoles, GuardCount,
                UpdatePassword, ReplaceRoles, Revoke, history
  <2> QED BY <1>1, <2>1 DEF Handler, LogIn, CreateUser, UpdateUser, DeactivateUser, UpdateUserRoles
<1>2. CASE \/ UNCHANGED vars \/ CleanExpired \/ \E x \in Session : Logout(x) \/ Expire(x)
           \/ \E q \in Request : Fail(q)
  BY <1>2 DEF vars, CleanExpired, Logout, Expire, Fail, history
<1>3. CASE \E q \in Request :
             \/ \E u \in User : Login(q, u)
             \/ \E x \in Session, op \in AdminOps, u \in User : Admit(q, x, op, u)
  BY <1>3 DEF Login, Admit, history
<1> QED BY <1>1, <1>2, <1>3 DEF Next

LEMMA WritesRemain ==
  ASSUME TypeInv, ViewInv, [Next]_vars, AdminRemains
  PROVE  AdminRemains'
<1>0. /\ users \in [User -> UserType]
      /\ \A q \in Request : req[q] \in RequestType /\ req[q].on \subseteq User
      /\ \A q \in Request : Knows(q)
      /\ ActiveAdmins # {} \/ blind # {}
      /\ \A u \in ActiveAdmins : users[u].stored
  <2>1. \A u \in ActiveAdmins : users[u].stored
    BY DEF TypeInv, TypeOK, ActiveAdmins, NoUser
  <2>2. \A q \in Request : req[q] \in RequestType /\ req[q].on \subseteq User
    BY DEF TypeInv, TypeOK, RequestType
  <2> QED BY <2>1, <2>2 DEF TypeInv, TypeOK, ViewInv, AdminRemains
<1>1. ASSUME NEW q \in Request, Update(q) PROVE AdminRemains'
  <2>1. PICK u \in req[q].on : users' = [users EXCEPT ![u].active = req[q].active]
    BY <1>1 DEF Update
  <2>2. req[q].stage = "write" /\ Blinded(q) /\ u \in User
    BY <1>0, <1>1, <2>1 DEF Update
  <2>3. CASE req[q].overtaken \/ blind # {}
    BY <2>1, <2>2, <2>3 DEF Blinded, AdminRemains
  <2>4. CASE ~req[q].overtaken /\ ActiveAdmins # {}
    <3>1. /\ users'[u].active = req[q].active /\ users'[u].roles = users[u].roles
          /\ \A v \in User : v # u => users'[v] = users[v]
      BY <1>0, <2>1, <2>2 DEF UserType
    <3>2. PICK v \in ActiveAdmins : v # u \/ req[q].active
      BY <1>0, <2>1, <2>2, <2>4 DEF Knows, Granting
    <3>3. v \in ActiveAdmins'
      BY <3>1, <3>2 DEF ActiveAdmins
    <3> QED BY <3>3 DEF AdminRemains
  <2> QED BY <1>0, <2>3, <2>4
<1>2. ASSUME NEW q \in Request, CommitRoles(q) PROVE AdminRemains'
  <2>1. PICK u \in req[q].on :
          \/ UNCHANGED <<users, blind>>
          \/ /\ users' = [users EXCEPT ![u].roles =
                    req[q].roles \cup IF req[q].merges THEN @ ELSE {}]
             /\ Blinded(q)
    BY <1>2 DEF CommitRoles
  <2>2. req[q].stage = "commit" /\ u \in User
    BY <1>0, <1>2, <2>1 DEF CommitRoles
  <2>3. CASE UNCHANGED <<users, blind>>
    BY <1>0, <2>3 DEF AdminRemains, ActiveAdmins
  <2>4. CASE Blinded(q) /\ (req[q].overtaken \/ blind # {})
    BY <2>1, <2>4 DEF Blinded, AdminRemains
  <2>5. CASE /\ ~req[q].overtaken /\ ActiveAdmins # {}
             /\ users' = [users EXCEPT ![u].roles =
                    req[q].roles \cup IF req[q].merges THEN @ ELSE {}]
    <3>1. /\ users'[u].active = users[u].active /\ req[q].roles \subseteq users'[u].roles
          /\ \A v \in User : v # u => users'[v] = users[v]
      BY <1>0, <2>2, <2>5 DEF UserType
    <3>2. PICK v \in ActiveAdmins : v # u \/ Admin \in req[q].roles
      <4>1. u \in ActiveAdmins /\ Admin \notin req[q].roles => ActiveAdmins \ {u} # {}
        BY <1>0, <2>1, <2>2, <2>5 DEF Knows, Replacing
      <4> QED BY <2>5, <4>1
    <3>3. v \in ActiveAdmins'
      BY <3>1, <3>2 DEF ActiveAdmins
    <3> QED BY <3>3 DEF AdminRemains
  <2> QED BY <1>0, <2>1, <2>3, <2>4, <2>5
<1>3. ASSUME NEW q \in Request, Insert(q) PROVE AdminRemains'
  <2>1. \A u \in ActiveAdmins : users'[u] = users[u]
    BY <1>0, <1>3 DEF Insert, ActiveAdmins
  <2>2. UNCHANGED blind
    BY <1>3 DEF Insert, history
  <2> QED BY <1>0, <2>1, <2>2 DEF ActiveAdmins, AdminRemains
<1>4. \/ UNCHANGED <<users, blind>>
      \/ \E q \in Request : Update(q) \/ CommitRoles(q) \/ Insert(q)
  BY OnlyWrites
<1>5. CASE UNCHANGED <<users, blind>>
  BY <1>0, <1>5 DEF AdminRemains, ActiveAdmins
<1> QED BY <1>1, <1>2, <1>3, <1>4, <1>5

\* AdminRemains: an active administrator remains, whatever requests interleave
\* and fail, unless one of them wrote on a view that had been overtaken.
THEOREM AnAdminRemains == Spec => []AdminRemains
<1>1. Init => TypeInv /\ ViewInv /\ AdminRemains
  <2> SUFFICES ASSUME Init PROVE AdminRemains
    BY TypeInit, ViewInit
  <2>1. PICK u \in User : Admin \in users[u].roles
    BY DEF Init
  <2>2. users[u] # NoUser /\ users[u] \in {NoUser} \cup
          {[stored |-> TRUE, active |-> TRUE, roles |-> R] : R \in SUBSET Role}
    BY <2>1 DEF Init, NoUser
  <2>3. users[u].active
    BY <2>2
  <2> QED BY <2>1, <2>3 DEF AdminRemains, ActiveAdmins
<1>2. TypeInv /\ ViewInv /\ AdminRemains /\ [Next]_vars => (TypeInv /\ ViewInv /\ AdminRemains)'
  BY TypeStep, ViewStep, WritesRemain
<1> QED BY <1>1, <1>2, PTL DEF Spec

\* A user becomes active by the write of a request that asks for it or was
\* overtaken.
LEMMA WritesUnasked ==
  ASSUME TypeInv, ViewInv, [Next]_vars,
         NEW u \in User, users[u].stored, ~users[u].active, users'[u].active
  PROVE  \E q \in Request :
           /\ u \in req[q].on /\ req[q].stage = "write"
           /\ (req[q].asks = {TRUE} \/ req[q].overtaken)
<1>0. users \in [User -> UserType] /\ \A q \in Request : Knows(q) /\ req[q].on \subseteq User
  BY DEF TypeInv, TypeOK, ViewInv, RequestType
<1>1. ASSUME NEW q \in Request, CommitRoles(q) \/ Insert(q) PROVE FALSE
  <2>1. CASE CommitRoles(q)
    <3>1. PICK v \in req[q].on :
            \/ UNCHANGED users
            \/ users' = [users EXCEPT ![v].roles =
                    req[q].roles \cup IF req[q].merges THEN @ ELSE {}]
      BY <2>1 DEF CommitRoles
    <3> QED BY <1>0, <3>1 DEF UserType
  <2>2. CASE Insert(q)
    BY <1>0, <2>2 DEF Insert
  <2> QED BY <1>1, <2>1, <2>2
<1>2. UNCHANGED users \/ \E q \in Request : Update(q) \/ CommitRoles(q) \/ Insert(q)
  BY OnlyWrites
<1>3. PICK q \in Request : Update(q)
  BY <1>1, <1>2
<1>4. PICK v \in req[q].on : users' = [users EXCEPT ![v].active = req[q].active]
  BY <1>3 DEF Update
<1>5. u = v /\ req[q].active /\ req[q].stage = "write"
  BY <1>0, <1>3, <1>4 DEF Update, UserType
<1> QED BY <1>0, <1>4, <1>5 DEF Knows, Granting

\* StaysDeactivated, as an action property of every step.
THEOREM NobodyComesBack == Spec => StaysDeactivated
<1>1. Init => TypeInv /\ ViewInv
  BY TypeInit, ViewInit
<1>2. TypeInv /\ ViewInv /\ [Next]_vars => (TypeInv /\ ViewInv)'
  BY TypeStep, ViewStep
<1> DEFINE Unasked ==
      \A u \in User :
        users[u].stored /\ ~users[u].active /\ users'[u].active
          => \E q \in Request :
               /\ u \in req[q].on /\ req[q].stage = "write"
               /\ (req[q].asks = {TRUE} \/ req[q].overtaken)
<1>3. TypeInv /\ ViewInv /\ [Next]_vars => [Unasked]_vars
  BY WritesUnasked
<1>4. Spec => [][Unasked]_vars
  <2> HIDE DEF Unasked
  <2> QED BY <1>1, <1>2, <1>3, PTL DEF Spec
<1> QED BY <1>4 DEF StaysDeactivated

-----------------------------------------------------------------------------
(* Sessions *)

\* What excuses a session that is not current.
Excused(u) == u \in unrevoked \cup blind \/ Owed(u)

\* A new password is followed by the deletion of the sessions; an update that
\* leaves is_active out and was not overtaken writes the one that is there.
Sure(q) ==
  LET r == req[q] IN
  /\ r.stage = "password" => r.password
  /\ r.op = "update" /\ r.asks = {} /\ ~r.overtaken
     /\ r.stage \in Granting \cup {"roles of", "count"}
       => \A u \in r.on : users[u].active = r.active

\* A login under way would open a current session, or an excused one.
LoginHolds(q) ==
  LET r == req[q] IN
  r.op = "login" /\ ~r.raced =>
    \A u \in r.on :
      \/ users[u].active /\ ~r.outdated /\ (r.stage = "session" => users[u].roles = r.roles)
      \/ Excused(u)

SessionHolds(x) ==
  LET s == sessions[x] IN
  s.state # "free" =>
    /\ \A u, v \in s.of : u = v
    /\ ~s.raced => \A u \in s.of :
         \/ users[u].active /\ users[u].roles = s.roles /\ ~s.outdated
         \/ Excused(u)

CurrentInv ==
  /\ \A q \in Request : Sure(q) /\ LoginHolds(q)
  /\ \A x \in Session : SessionHolds(x)

LEMMA CurrentInit == Init => CurrentInv
<1> SUFFICES ASSUME Init PROVE CurrentInv
  OBVIOUS
<1>1. ASSUME NEW q \in Request PROVE Sure(q) /\ LoginHolds(q)
  <2>1. req[q].stage = "idle" /\ req[q].op = "none"
    BY IdleType DEF Init
  <2> QED BY <2>1 DEF Sure, LoginHolds, Granting
<1>2. ASSUME NEW x \in Session PROVE SessionHolds(x)
  BY DEF Init, SessionHolds, NoSession
<1> QED BY <1>1, <1>2 DEF CurrentInv

\* Excuses stay while those who owe a deletion still do, or have failed.
LEMMA ExcusesStay ==
  ASSUME unrevoked \subseteq unrevoked', blind \subseteq blind',
         \A p \in Request :
           Owes(p) => req[p].on \subseteq unrevoked' \/ (Owes(p)' /\ req'[p].on = req[p].on)
  PROVE  \A u : Excused(u) => Excused(u)'
<1> SUFFICES ASSUME NEW u, Excused(u) PROVE Excused(u)'
  OBVIOUS
<1>1. CASE u \in unrevoked \cup blind
  BY <1>1 DEF Excused
<1>2. CASE Owed(u)
  <2>1. PICK p \in Request : u \in req[p].on /\ Owes(p)
    BY <1>2 DEF Owed
  <2>2. u \in unrevoked' \/ (Owes(p)' /\ u \in req'[p].on)
    BY <2>1
  <2> QED BY <2>2 DEF Excused, Owed
<1> QED BY <1>1, <1>2 DEF Excused

\* What a login's claim looks at.
SameLogin(r, s) ==
  /\ s.stage = r.stage /\ s.on = r.on /\ s.roles = r.roles
  /\ s.outdated = r.outdated /\ s.raced = r.raced

LEMMA LoginStays ==
  ASSUME NEW p \in Request, LoginHolds(p), req[p].op = "login" \/ req'[p].op # "login",
         SameLogin(req[p], req'[p]),
         \A u : Excused(u) => Excused(u)',
         \A u \in req[p].on : users'[u] = users[u] \/ Excused(u)'
  PROVE  LoginHolds(p)'
BY DEF LoginHolds, SameLogin

LEMMA SessionStays ==
  ASSUME NEW x \in Session, SessionHolds(x), UNCHANGED sessions,
         \A u : Excused(u) => Excused(u)',
         \A u \in sessions[x].of : users'[u] = users[u] \/ Excused(u)'
  PROVE  SessionHolds(x)'
BY DEF SessionHolds

\* A step of one request that leaves the tables alone.
LEMMA CurrentLocal ==
  ASSUME TypeInv, CurrentInv, NEW q \in Request, UNCHANGED <<users, sessions>>,
         unrevoked \subseteq unrevoked', blind \subseteq blind',
         \A p \in Request : p # q => req'[p] = req[p],
         Owes(q) => req[q].on \subseteq unrevoked' \/ (Owes(q)' /\ req'[q].on = req[q].on),
         Sure(q)', (\A u : Excused(u) => Excused(u)') => LoginHolds(q)'
  PROVE  CurrentInv'
<1>1. \A u : Excused(u) => Excused(u)'
  <2>1. \A p \in Request :
          Owes(p) => req[p].on \subseteq unrevoked' \/ (Owes(p)' /\ req'[p].on = req[p].on)
    BY DEF Owes
  <2> QED BY <2>1, ExcusesStay
<1>2. ASSUME NEW p \in Request PROVE Sure(p)' /\ LoginHolds(p)'
  <2>1. CASE p = q
    BY <1>1, <2>1
  <2>2. CASE p # q
    <3>1. Sure(p) /\ LoginHolds(p) /\ req'[p] = req[p]
      BY <2>2 DEF CurrentInv
    <3>2. Sure(p)'
      BY <3>1 DEF Sure
    <3>3. LoginHolds(p)'
      BY <1>1, <3>1, LoginStays DEF SameLogin
    <3> QED BY <3>2, <3>3
  <2> QED BY <2>1, <2>2
<1>3. ASSUME NEW x \in Session PROVE SessionHolds(x)'
  BY <1>1, SessionStays DEF CurrentInv
<1> QED BY <1>2, <1>3 DEF CurrentInv

\* A request that ends, having owed nothing.
LEMMA CurrentEnds ==
  ASSUME TypeInv, CurrentInv, NEW q \in Request, UNCHANGED <<users, sessions>>,
         unrevoked \subseteq unrevoked', blind \subseteq blind', req' = End(q),
         Owes(q) => req[q].on \subseteq unrevoked'
  PROVE  CurrentInv'
<1>1. req'[q] = Idle /\ \A p \in Request : p # q => req'[p] = req[p]
  BY Ended DEF TypeInv, TypeOK
<1>2. Sure(q)' /\ LoginHolds(q)'
  BY <1>1, IdleType DEF Sure, LoginHolds, Granting
<1> QED BY <1>1, <1>2, CurrentLocal

\* A write of users, which changes those only who are excused from then on, or
\* have no session and no request yet.
LEMMA CurrentWrite ==
  ASSUME TypeInv, ViewInv, CurrentInv, UNCHANGED <<sessions, unrevoked>>, blind \subseteq blind',
         \A p \in Request :
           Owes(p) => req[p].on \subseteq unrevoked' \/ (Owes(p)' /\ req'[p].on = req[p].on),
         \A u \in User : users'[u] = users[u] \/ Excused(u)' \/ ~users[u].stored,
         \A p \in Request : Sure(p)',
         \A p \in Request :
           \/ req'[p].op # "login"
           \/ req[p].op = "login" /\ SameLogin(req[p], req'[p])
  PROVE  CurrentInv'
<1>1. \A u : Excused(u) => Excused(u)'
  BY ExcusesStay
<1>2. ASSUME NEW p \in Request PROVE LoginHolds(p)'
  <2>1. CASE req'[p].op # "login"
    BY <2>1 DEF LoginHolds
  <2>2. CASE req[p].op = "login" /\ SameLogin(req[p], req'[p])
    <3>1. req[p].stage \in {"roles", "session"}
      BY <2>2 DEF ViewInv
    <3>2. \A u \in req[p].on : u \in User /\ users[u].stored
      BY <3>1 DEF TypeInv, TypeOK, RequestType
    <3> QED BY <1>1, <2>2, <3>2, LoginStays DEF CurrentInv
  <2> QED BY <2>1, <2>2
<1>3. ASSUME NEW x \in Session PROVE SessionHolds(x)'
  <2>1. \A u \in sessions[x].of : u \in User /\ users[u].stored
    BY DEF TypeInv, TypeOK, SessionType
  <2> QED BY <1>1, <2>1, SessionStays DEF CurrentInv
<1> QED BY <1>2, <1>3 DEF CurrentInv

\* Steps of sessions alone: one goes away, or expires.
LEMMA CurrentSessions ==
  ASSUME TypeInv, CurrentInv, UNCHANGED <<users, req, unrevoked, blind>>,
         \A x \in Session :
           \/ sessions'[x] = sessions[x] \/ sessions'[x].state = "free"
           \/ /\ sessions[x].state # "free" /\ sessions'[x].of = sessions[x].of
              /\ sessions'[x].roles = sessions[x].roles /\ sessions'[x].raced = sessions[x].raced
              /\ sessions'[x].outdated = sessions[x].outdated
  PROVE  CurrentInv'
<1>1. \A u : Excused(u) => Excused(u)'
  BY ExcusesStay DEF Owes
<1>2. ASSUME NEW p \in Request PROVE Sure(p)' /\ LoginHolds(p)'
  <2>1. Sure(p)'
    BY DEF CurrentInv, Sure
  <2> QED BY <1>1, <2>1, LoginStays DEF CurrentInv, SameLogin
<1>3. ASSUME NEW x \in Session PROVE SessionHolds(x)'
  <2>1. SessionHolds(x)
    BY DEF CurrentInv
  <2> QED BY <1>1, <2>1 DEF SessionHolds
<1> QED BY <1>2, <1>3 DEF CurrentInv

\* Load lets a request go on with the is_active that it read, if it asked for none.
LEMMA CurrentLoad ==
  ASSUME TypeInv, CurrentInv, NEW q \in Request, Load(q), req[q].op \in AdminOps
  PROVE  CurrentInv'
<1>0. /\ req \in [Request -> RequestType] /\ \A u, v \in req[q].on : u = v
      /\ \A u \in req[q].on : users[u].active \in BOOLEAN
      /\ req[q].stage = "load" /\ ~Owes(q) /\ req[q].op # "login"
      /\ UNCHANGED <<users, sessions, unrevoked, blind>>
  BY DEF TypeInv, TypeOK, RequestType, UserType, Load, Owes, history, AdminOps
<1>1. PICK u \in req[q].on :
        req' = IF users[u].stored = (req[q].op = "create") THEN End(q) ELSE Loaded(q, u)
  BY DEF Load
<1>2. CASE req' = End(q)
  BY <1>0, <1>2, CurrentEnds
<1>3. CASE req' = Loaded(q, u)
  <2> DEFINE F == req[q].op = "update" /\ Asked(q, u)
             st == IF req[q].op = "create" THEN "insert"
                   ELSE IF Removes(q, u) THEN "roles of" ELSE Granted(q)
  <2>1. PICK b \in BOOLEAN : (b <=> F) /\ req' = LoadedAs(q, b, st)
    <3>1. req' = [req EXCEPT ![q].active = F, ![q].stage = st]
      BY <1>3 DEF Loaded
    <3>2. CASE F
      BY <3>1, <3>2 DEF LoadedAs
    <3>3. CASE ~F
      BY <3>1, <3>3 DEF LoadedAs
    <3> QED BY <3>2, <3>3
  <2>2. st \in Stages /\ (st = "password" => req[q].password)
    BY DEF Granted, Stages
  <2>3. req[q].op = "update" /\ req[q].asks = {} => \A v \in req[q].on : b = users[v].active
    BY <1>0, <2>1 DEF Asked
  <2> HIDE DEF F, st
  <2>4. /\ \A p \in Request : p # q => req'[p] = req[p]
        /\ req'[q].stage = st /\ req'[q].active = b
        /\ req'[q].op = req[q].op /\ req'[q].on = req[q].on
        /\ req'[q].asks = req[q].asks /\ req'[q].password = req[q].password
    BY <1>0, <2>1, <2>2, LoadEdit
  <2>5. Sure(q)'
    BY <1>0, <2>2, <2>3, <2>4 DEF Sure
  <2>6. LoginHolds(q)'
    BY <1>0, <2>4 DEF LoginHolds
  <2> QED BY <1>0, <2>4, <2>5, <2>6, CurrentLocal
<1> QED BY <1>1, <1>2, <1>3

\* The guard leaves alone what the request is going to write.
LEMMA CurrentGuard ==
  ASSUME TypeInv, CurrentInv, NEW q \in Request, GuardRoles(q) \/ GuardCount(q),
         req[q].op # "login"
  PROVE  CurrentInv'
<1>0. /\ req \in [Request -> RequestType]
      /\ req[q].stage \in {"roles of", "count"} /\ ~Owes(q)
      /\ UNCHANGED <<users, sessions, unrevoked, blind>>
  BY DEF TypeInv, TypeOK, GuardRoles, GuardCount, Owes, history
<1>1. CASE req' = End(q)
  BY <1>0, <1>1, CurrentEnds
<1>2. ASSUME NEW st \in {"count", Granted(q)}, req' = Go(q, st) PROVE CurrentInv'
  <2>1. st \in Stages /\ (st = "password" => req[q].password)
    BY <1>2 DEF Granted, Stages
  <2>2. /\ \A p \in Request : p # q => req'[p] = req[p]
        /\ req'[q].stage = st /\ req'[q].active = req[q].active
        /\ req'[q].op = req[q].op /\ req'[q].on = req[q].on
        /\ req'[q].asks = req[q].asks /\ req'[q].password = req[q].password
        /\ req'[q].overtaken = req[q].overtaken
    BY <1>0, <1>2, <2>1, Goes
  <2>3. Sure(q)'
    BY <1>0, <2>1, <2>2 DEF Sure, CurrentInv
  <2>4. LoginHolds(q)'
    BY <2>2 DEF LoginHolds
  <2> QED BY <1>0, <2>2, <2>3, <2>4, CurrentLocal
<1>3. req' = End(q) \/ \E st \in {"count", Granted(q)} : req' = Go(q, st)
  BY DEF GuardRoles, GuardCount
<1> QED BY <1>1, <1>2, <1>3

\* What a login has read goes into the session.
LEMMA CurrentCreate ==
  ASSUME TypeInv, CurrentInv, NEW q \in Request, CreateSession(q), req[q].op = "login"
  PROVE  CurrentInv'
<1>0. /\ req[q].stage = "session" /\ req' = End(q) /\ UNCHANGED <<users, unrevoked, blind>>
      /\ sessions \in [Session -> SessionType]
      /\ \A u, v \in req[q].on : u = v
      /\ req'[q] = Idle /\ \A p \in Request : p # q => req'[p] = req[p]
  BY Ended DEF CreateSession, history, TypeInv, TypeOK
<1>1. PICK x \in Session : sessions' = [sessions EXCEPT ![x] = NewSession(q)]
  BY DEF CreateSession
<1>2. \A u : Excused(u) => Excused(u)'
  <2>1. \A p \in Request : Owes(p) => req[p].on \subseteq unrevoked' \/ (Owes(p)' /\ req'[p].on = req[p].on)
    BY <1>0 DEF Owes
  <2> QED BY <1>0, <2>1, ExcusesStay
<1>3. ASSUME NEW p \in Request PROVE Sure(p)' /\ LoginHolds(p)'
  <2>1. CASE p = q
    BY <1>0, <2>1, IdleType DEF Sure, LoginHolds, Granting
  <2>2. CASE p # q
    <3>1. Sure(p) /\ LoginHolds(p) /\ req'[p] = req[p]
      BY <1>0, <2>2 DEF CurrentInv
    <3>2. Sure(p)'
      BY <1>0, <3>1 DEF Sure
    <3>3. LoginHolds(p)'
      BY <1>0, <1>2, <3>1, LoginStays DEF SameLogin
    <3> QED BY <3>2, <3>3
  <2> QED BY <2>1, <2>2
<1>4. ASSUME NEW y \in Session PROVE SessionHolds(y)'
  <2>1. CASE y = x
    <3>1. /\ sessions'[y].of = req[q].on /\ sessions'[y].roles = req[q].roles
          /\ sessions'[y].outdated = req[q].outdated /\ sessions'[y].raced = req[q].raced
      BY <1>0, <1>1, <2>1 DEF NewSession
    <3>2. LoginHolds(q)
      BY DEF CurrentInv
    <3>3. ~req[q].raced => \A u \in req[q].on :
            \/ users[u].active /\ ~req[q].outdated /\ users[u].roles = req[q].roles
            \/ Excused(u)
      BY <1>0, <3>2 DEF LoginHolds
    <3> QED BY <1>0, <1>2, <3>1, <3>3 DEF SessionHolds
  <2>2. CASE y # x
    <3>1. sessions'[y] = sessions[y] /\ SessionHolds(y)
      BY <1>0, <1>1, <2>2 DEF CurrentInv
    <3> QED BY <1>0, <1>2, <3>1 DEF SessionHolds
  <2> QED BY <2>1, <2>2
<1> QED BY <1>3, <1>4 DEF CurrentInv

\* A new password outdates the sessions, whose deletion the request then owes.
LEMMA CurrentPassword ==
  ASSUME TypeInv, CurrentInv, NEW q \in Request, UpdatePassword(q)
  PROVE  CurrentInv'
<1>0. /\ req \in [Request -> RequestType] /\ sessions \in [Session -> SessionType]
      /\ req[q].stage = "password" /\ UNCHANGED <<users, unrevoked, blind>>
      /\ sessions' = [x \in Session |-> IF sessions[x].of = req[q].on
                        THEN [sessions[x] EXCEPT !.outdated = TRUE] ELSE sessions[x]]
  BY DEF UpdatePassword, history, TypeInv, TypeOK
<1>1. /\ req'[q].stage = "write" /\ req'[q].on = req[q].on /\ req'[q].op = req[q].op
      /\ req'[q].asks = req[q].asks /\ req'[q].active = req[q].active
      /\ req'[q].overtaken = req[q].overtaken /\ req'[q].password = req[q].password
      /\ req'[q].outdated = req[q].outdated /\ req'[q].raced = req[q].raced
  <2>1. req[q] \in RequestType
    BY <1>0
  <2>2. req'[q] = [req[q] EXCEPT !.stage = "write"]
    BY DEF UpdatePassword
  <2> QED BY <2>1, <2>2 DEF RequestType
<1>2. ASSUME NEW p \in Request, p # q
      PROVE  \/ req'[p] = req[p]
             \/ /\ req[p].on = req[q].on /\ req'[p].on = req[p].on /\ req'[p].op = req[p].op
                /\ req'[p].stage = req[p].stage /\ req'[p].password = req[p].password
                /\ req'[p].asks = req[p].asks /\ req'[p].active = req[p].active
                /\ req'[p].overtaken = req[p].overtaken
  <2>1. req[p] \in RequestType
    BY <1>0
  <2>2. \/ req'[p] = req[p]
        \/ req'[p] = [req[p] EXCEPT !.outdated = TRUE] /\ req[p].on = req[q].on
    BY <1>2 DEF UpdatePassword
  <2> QED BY <2>1, <2>2 DEF RequestType
<1>3. Owes(q)'
  BY <1>0, <1>1 DEF Owes, CurrentInv, Sure
<1>4. \A u \in req[q].on : Excused(u)'
  BY <1>1, <1>3 DEF Excused, Owed
<1>5. \A u : Excused(u) => Excused(u)'
  <2>1. ASSUME NEW p \in Request, Owes(p) PROVE Owes(p)' /\ req'[p].on = req[p].on
    BY <1>1, <1>2, <1>3, <2>1 DEF Owes
  <2> QED BY <1>0, <2>1, ExcusesStay
<1>6. ASSUME NEW p \in Request PROVE Sure(p)'
  <2>1. Sure(p)
    BY DEF CurrentInv
  <2>2. CASE p = q
    BY <1>0, <1>1, <2>1, <2>2 DEF Sure, Granting
  <2>3. CASE p # q
    BY <1>0, <1>2, <2>1, <2>3 DEF Sure
  <2> QED BY <2>2, <2>3
<1>7. ASSUME NEW p \in Request PROVE LoginHolds(p)'
  <2>1. LoginHolds(p)
    BY DEF CurrentInv
  <2>2. CASE p = q
    BY <1>1, <1>4, <2>2 DEF LoginHolds
  <2>3. CASE p # q /\ req'[p] = req[p]
    BY <1>0, <1>5, <2>1, <2>3 DEF LoginHolds
  <2>4. CASE p # q /\ req[p].on = req[q].on /\ req'[p].on = req[p].on
    BY <1>4, <2>4 DEF LoginHolds
  <2> QED BY <1>2, <2>2, <2>3, <2>4
<1>8. ASSUME NEW x \in Session PROVE SessionHolds(x)'
  <2>1. SessionHolds(x) /\ sessions[x] \in SessionType
    BY <1>0 DEF CurrentInv
  <2>2. CASE sessions'[x] = sessions[x]
    BY <1>0, <1>5, <2>1, <2>2 DEF SessionHolds
  <2>3. CASE sessions[x].of = req[q].on /\ sessions'[x] = [sessions[x] EXCEPT !.outdated = TRUE]
    <3>1. sessions'[x].of = req[q].on /\ sessions'[x].state = sessions[x].state
      BY <2>1, <2>3 DEF SessionType
    <3> QED BY <1>4, <2>1, <2>3, <3>1 DEF SessionHolds
  <2> QED BY <1>0, <2>2, <2>3
<1> QED BY <1>6, <1>7, <1>8 DEF CurrentInv

\* A new user has neither a session nor a request that has found it.
LEMMA CurrentInsert ==
  ASSUME TypeInv, ViewInv, CurrentInv, NEW q \in Request, Insert(q)
  PROVE  CurrentInv'
<1>0. /\ req \in [Request -> RequestType] /\ users \in [User -> UserType]
      /\ req[q].stage = "insert" /\ ~Owes(q) /\ UNCHANGED <<sessions, unrevoked, blind>>
      /\ \A p \in Request : req[p].on \subseteq User
      /\ \A p \in Request : \A u \in req[p].on :
           req[p].stage \notin {"idle", "load", "insert"} => users[u].stored
  BY DEF TypeInv, TypeOK, RequestType, Insert, Owes, history
<1>1. PICK u \in req[q].on :
        IF users[u].stored THEN req' = End(q) /\ UNCHANGED users
        ELSE /\ users' = [users EXCEPT ![u] =
                  [stored |-> TRUE, active |-> TRUE, roles |-> req[q].roles]]
             /\ req' = End(q)
  BY DEF Insert
<1>2. CASE UNCHANGED users
  BY <1>0, <1>1, <1>2, CurrentEnds
<1>3. CASE ~users[u].stored
  <2>1. \A v \in User : users[v].stored => users'[v] = users[v]
    BY <1>0, <1>1, <1>3
  <2>2. req'[q] = Idle /\ \A p \in Request : p # q => req'[p] = req[p]
    BY <1>0, <1>1, <1>3, Ended
  <2>3. \A p \in Request : Owes(p) => Owes(p)' /\ req'[p].on = req[p].on
    BY <1>0, <2>2 DEF Owes
  <2>4. ASSUME NEW p \in Request PROVE Sure(p)'
    <3>1. CASE p = q
      BY <2>2, <3>1, IdleType DEF Sure, Granting
    <3>2. CASE p # q
      <4>1. req'[p] = req[p] /\ Sure(p)
        BY <2>2, <3>2 DEF CurrentInv
      <4>2. req[p].stage \in Granting \cup {"roles of", "count"}
              => \A v \in req[p].on : users'[v] = users[v]
        BY <1>0, <2>1 DEF Granting
      <4> QED BY <4>1, <4>2 DEF Sure
    <3> QED BY <3>1, <3>2
  <2>5. ASSUME NEW p \in Request
        PROVE  req'[p].op # "login" \/ (req[p].op = "login" /\ SameLogin(req[p], req'[p]))
    BY <2>2, IdleType DEF SameLogin
  <2> QED BY <1>0, <2>1, <2>3, <2>4, <2>5, CurrentWrite
<1> QED BY <1>1, <1>2, <1>3

\* A write of a row, and what follows it: either the deletion is owed from then
\* on, or the row stays, or its user counts as written blindly.
LEMMA CurrentOvertakes ==
  ASSUME TypeInv, ViewInv, CurrentInv, NEW q \in Request, NEW r \in [Request -> RequestType],
         UNCHANGED <<sessions, unrevoked>>, blind \subseteq blind', req' = Overtake(q, r),
         req[q].op # "login",
         r[q] = Idle \/ (r[q].stage = "revoke" /\ r[q].on = req[q].on /\ r[q].op = req[q].op),
         Owes(q) => r[q].stage = "revoke" /\ r[q].on = req[q].on,
         \A p \in Request : p # q =>
           /\ r[p].op = req[p].op /\ r[p].stage = req[p].stage /\ r[p].on = req[p].on
           /\ r[p].roles = req[p].roles /\ r[p].password = req[p].password
           /\ r[p].outdated = req[p].outdated /\ r[p].raced = req[p].raced,
         \A u \in User : u \notin req[q].on => users'[u] = users[u],
         r[q].stage = "revoke" \/ \A u \in req[q].on : users'[u] = users[u] \/ u \in blind'
  PROVE  CurrentInv'
<1>1. \A p \in Request :
        /\ req'[p].op = r[p].op /\ req'[p].stage = r[p].stage /\ req'[p].on = r[p].on
        /\ req'[p].roles = r[p].roles /\ req'[p].password = r[p].password
        /\ req'[p].outdated = r[p].outdated /\ req'[p].raced = r[p].raced
        /\ p # q /\ r[p].op # "login" /\ r[p].stage \notin {"idle", "load"} => req'[p].overtaken
  BY OvertakeType
<1>2. \A p \in Request : Owes(p) => Owes(p)' /\ req'[p].on = req[p].on
  BY <1>1 DEF Owes
<1>3. \A u \in User : users'[u] = users[u] \/ Excused(u)'
  <2>1. ASSUME NEW u \in req[q].on, r[q].stage = "revoke" PROVE Excused(u)'
    <3>1. r[q].on = req[q].on
      BY <2>1, IdleType
    <3>2. Owes(q)' /\ u \in req'[q].on
      BY <1>1, <2>1, <3>1 DEF Owes
    <3> QED BY <3>2 DEF Excused, Owed
  <2> QED BY <2>1 DEF Excused
<1>4. ASSUME NEW p \in Request PROVE Sure(p)'
  <2>1. CASE p = q
    <3>1. req'[p].stage \in {"idle", "revoke"}
      BY <1>1, <2>1, IdleType
    <3> QED BY <3>1 DEF Sure, Granting
  <2>2. CASE p # q
    <3>1. req'[p].stage = "password" => req'[p].password
      <4>1. req'[p].stage = req[p].stage /\ req'[p].password = req[p].password
        BY <1>1, <2>2
      <4>2. Sure(p)
        BY DEF CurrentInv
      <4> QED BY <4>1, <4>2 DEF Sure
    <3>2. req'[p].op = "update" /\ req'[p].stage \in Granting \cup {"roles of", "count"}
            => req'[p].overtaken
      BY <1>1, <2>2 DEF Granting
    <3> QED BY <3>1, <3>2 DEF Sure
  <2> QED BY <2>1, <2>2
<1>5. ASSUME NEW p \in Request
      PROVE  req'[p].op # "login" \/ (req[p].op = "login" /\ SameLogin(req[p], req'[p]))
  <2>1. CASE p = q
    BY <1>1, <2>1, IdleType
  <2>2. CASE p # q
    BY <1>1, <2>2 DEF SameLogin
  <2> QED BY <2>1, <2>2
<1> QED BY <1>2, <1>3, <1>4, <1>5, CurrentWrite

LEMMA CurrentUpdate ==
  ASSUME TypeInv, ViewInv, CurrentInv, NEW q \in Request, Update(q),
         req[q].op \in {"update", "deactivate"}
  PROVE  CurrentInv'
<1> DEFINE r == IF Revokes(q) THEN Go(q, "revoke") ELSE End(q)
<1>0. /\ users \in [User -> UserType] /\ req \in [Request -> RequestType]
      /\ req[q].stage = "write" /\ req' = Overtake(q, r)
      /\ UNCHANGED <<sessions, unrevoked>> /\ Blinded(q)
      /\ req[q].on \subseteq User /\ \A u, v \in req[q].on : u = v
  BY DEF TypeInv, TypeOK, RequestType, Update
<1>1. PICK u \in req[q].on : users' = [users EXCEPT ![u].active = req[q].active]
  BY DEF Update
<1>2. \A v \in User : v \notin req[q].on => users'[v] = users[v]
  BY <1>0, <1>1
<1>3. blind \subseteq blind' /\ (req[q].overtaken => req[q].on \subseteq blind')
  BY <1>0 DEF Blinded
<1>4. CASE Revokes(q)
  <2>1. r = Go(q, "revoke") /\ "revoke" \in Stages
    BY <1>4 DEF Stages
  <2>2. /\ r \in [Request -> RequestType]
        /\ \A p \in Request : p # q => r[p] = req[p]
        /\ r[q].stage = "revoke" /\ r[q].on = req[q].on /\ r[q].op = req[q].op
    BY <1>0, <2>1, GoType
  <2> HIDE DEF r
  <2> QED BY <1>0, <1>2, <1>3, <2>2, CurrentOvertakes
<1>5. CASE ~Revokes(q)
  <2>1. /\ r \in [Request -> RequestType] /\ r[q] = Idle
        /\ \A p \in Request : p # q => r[p] = req[p]
    BY <1>0, <1>5, IdleType DEF End
  <2>2. req[q].op = "update" /\ req[q].asks = {} /\ ~req[q].password
    BY <1>5 DEF Revokes
  <2>3. ~Owes(q)
    BY <1>0, <2>2 DEF Owes
  <2>4. \A v \in req[q].on : users'[v] = users[v] \/ v \in blind'
    <3>1. CASE req[q].overtaken
      BY <1>3, <3>1
    <3>2. CASE ~req[q].overtaken
      <4>1. users[u].active = req[q].active /\ users[u] \in UserType /\ u \in User
        BY <1>0, <2>2, <3>2 DEF CurrentInv, Sure, Granting
      <4>2. users'[u] = [users[u] EXCEPT !.active = req[q].active]
        BY <1>0, <1>1, <4>1
      <4>3. users'[u] = users[u]
        BY <4>1, <4>2 DEF UserType
      <4> QED BY <1>0, <4>3
    <3> QED BY <3>1, <3>2
  <2> HIDE DEF r
  <2> QED BY <1>0, <1>2, <1>3, <2>1, <2>3, <2>4, CurrentOvertakes
<1> QED BY <1>4, <1>5

LEMMA CurrentCommit ==
  ASSUME TypeInv, ViewInv, CurrentInv, NEW q \in Request, CommitRoles(q),
         req[q].op = "roles"
  PROVE  CurrentInv'
<1>0. /\ users \in [User -> UserType] /\ req \in [Request -> RequestType]
      /\ req[q].stage = "commit" /\ ~Owes(q) /\ UNCHANGED <<sessions, unrevoked>>
  BY DEF TypeInv, TypeOK, CommitRoles, Owes
<1>1. PICK u \in req[q].on :
        IF req[q].merges /\ users[u].roles \cap req[q].roles # {}
        THEN req' = End(q) /\ UNCHANGED <<users, blind>>
        ELSE /\ users' = [users EXCEPT ![u].roles =
                  req[q].roles \cup IF req[q].merges THEN @ ELSE {}]
             /\ req' = Overtake(q, Merged(q, u))
             /\ Blinded(q)
  BY DEF CommitRoles, Merged
<1>2. CASE req' = End(q) /\ UNCHANGED <<users, blind>>
  BY <1>0, <1>2, CurrentEnds
<1>3. CASE /\ users' = [users EXCEPT ![u].roles =
                  req[q].roles \cup IF req[q].merges THEN @ ELSE {}]
           /\ req' = Overtake(q, Merged(q, u))
           /\ Blinded(q)
  <2> DEFINE r == Merged(q, u)
  <2>1. /\ r \in [Request -> RequestType]
        /\ r[q].stage = "revoke" /\ r[q].on = req[q].on /\ r[q].op = req[q].op
        /\ \A p \in Request : p # q =>
             /\ r[p].op = req[p].op /\ r[p].stage = req[p].stage /\ r[p].on = req[p].on
             /\ r[p].roles = req[p].roles /\ r[p].password = req[p].password
             /\ r[p].outdated = req[p].outdated /\ r[p].raced = req[p].raced
    BY <1>0, MergedType
  <2>2. \A v \in User : v \notin req[q].on => users'[v] = users[v]
    BY <1>0, <1>3
  <2>3. blind \subseteq blind'
    BY <1>3 DEF Blinded
  <2> HIDE DEF r
  <2>4. req' = Overtake(q, r)
    BY <1>3 DEF r
  <2> QED BY <1>0, <2>1, <2>2, <2>3, <2>4, CurrentOvertakes
<1> QED BY <1>1, <1>2, <1>3

LEMMA Apart ==
  ASSUME NEW A, NEW B, \A u, v \in A : u = v, \A u, v \in B : u = v, A # B
  PROVE  \A u \in A : u \notin B
OBVIOUS

\* The deletion takes the sessions of the user, and marks the logins that
\* will open another: nobody else's excuse goes with it.
LEMMA CurrentRevoke ==
  ASSUME TypeInv, CurrentInv, NEW q \in Request, Revoke(q)
  PROVE  CurrentInv'
<1>0. /\ req \in [Request -> RequestType] /\ \A p \in Request : \A u, v \in req[p].on : u = v
      /\ UNCHANGED <<users, blind>> /\ req'[q] = Idle /\ unrevoked' = unrevoked \ req[q].on
      /\ sessions' = [x \in Session |->
           IF sessions[x].of = req[q].on THEN NoSession ELSE sessions[x]]
  BY DEF TypeInv, TypeOK, Revoke
<1>1. ASSUME NEW p \in Request, p # q
      PROVE  \/ req'[p] = req[p]
             \/ /\ req[p].op = "login" /\ req[p].on = req[q].on
                /\ req'[p].on = req[p].on /\ req'[p].op = req[p].op /\ req'[p].raced
                /\ req'[p].stage = req[p].stage /\ req'[p].password = req[p].password
  <2>1. req[p] \in RequestType
    BY <1>0
  <2>2. \/ req'[p] = req[p]
        \/ /\ req[p].op = "login" /\ req[p].on = req[q].on
           /\ req'[p] = [req[p] EXCEPT !.raced = TRUE]
    BY <1>1 DEF Revoke
  <2> QED BY <2>1, <2>2 DEF RequestType
<1>2. ASSUME NEW u, Excused(u), u \notin req[q].on PROVE Excused(u)'
  <2>1. CASE u \in unrevoked \cup blind
    BY <1>0, <1>2, <2>1 DEF Excused
  <2>2. CASE Owed(u)
    <3>1. PICK p \in Request : u \in req[p].on /\ Owes(p)
      BY <2>2 DEF Owed
    <3>2. Owes(p)' /\ u \in req'[p].on
      BY <1>1, <1>2, <3>1 DEF Owes
    <3> QED BY <3>2 DEF Excused, Owed
  <2> QED BY <1>2, <2>1, <2>2 DEF Excused
<1>3. ASSUME NEW p \in Request PROVE Sure(p)' /\ LoginHolds(p)'
  <2>1. Sure(p) /\ LoginHolds(p)
    BY DEF CurrentInv
  <2>2. CASE p = q
    BY <1>0, <2>2, IdleType DEF Sure, LoginHolds, Granting
  <2>3. CASE p # q /\ req[p].on = req[q].on /\ req'[p].op = "login" /\ req'[p].raced
             /\ req'[p].stage = req[p].stage /\ req'[p].password = req[p].password
    BY <2>1, <2>3 DEF Sure, LoginHolds
  <2>4. CASE p # q /\ req'[p] = req[p]
    <3>1. Sure(p)'
      BY <1>0, <2>1, <2>4 DEF Sure
    <3>2. CASE req[p].op = "login" /\ req[p].on = req[q].on
      <4>1. req'[p].raced
        <5>1. req[p] \in RequestType
          BY <1>0
        <5>2. req'[p] = [req[p] EXCEPT !.raced = TRUE]
          BY <2>4, <3>2 DEF Revoke
        <5> QED BY <5>1, <5>2 DEF RequestType
      <4> QED BY <3>1, <4>1 DEF LoginHolds
    <3>3. CASE req[p].op = "login" /\ req[p].on # req[q].on
      <4>1. \A u \in req[p].on : u \notin req[q].on
        <5>1. (\A u, v \in req[p].on : u = v) /\ \A u, v \in req[q].on : u = v
          BY <1>0
        <5> QED BY <3>3, <5>1, Apart
      <4> QED BY <1>0, <1>2, <2>1, <2>4, <3>1, <4>1 DEF LoginHolds
    <3>4. CASE req[p].op # "login"
      BY <2>4, <3>1, <3>4 DEF LoginHolds
    <3> QED BY <3>2, <3>3, <3>4
  <2> QED BY <1>1, <2>2, <2>3, <2>4
<1>4. ASSUME NEW x \in Session PROVE SessionHolds(x)'
  <2>1. SessionHolds(x)
    BY DEF CurrentInv
  <2>2. CASE sessions[x].of = req[q].on
    BY <1>0, <2>2 DEF SessionHolds, NoSession
  <2>3. CASE sessions[x].of # req[q].on
    <3>1. sessions'[x] = sessions[x]
      BY <1>0, <2>3
    <3>2. sessions[x].state # "free" => \A u \in sessions[x].of : u \notin req[q].on
      <4>1. \A u, v \in req[q].on : u = v
        BY <1>0
      <4>2. sessions[x].state # "free" => \A u, v \in sessions[x].of : u = v
        BY <2>1 DEF SessionHolds
      <4> QED BY <2>3, <4>1, <4>2, Apart
    <3> QED BY <1>0, <1>2, <2>1, <3>1, <3>2 DEF SessionHolds
  <2> QED BY <2>2, <2>3
<1> QED BY <1>3, <1>4 DEF CurrentInv

LEMMA CurrentStep == TypeInv /\ ViewInv /\ CurrentInv /\ [Next]_vars => CurrentInv'
<1> SUFFICES ASSUME TypeInv, ViewInv, CurrentInv, [Next]_vars PROVE CurrentInv'
  OBVIOUS
<1>0. /\ req \in [Request -> RequestType] /\ sessions \in [Session -> SessionType]
      /\ \A q \in Request : req[q] \in RequestType
  BY DEF TypeInv, TypeOK
<1>1. ASSUME NEW q \in Request, NEW r, req' = [req EXCEPT ![q] = r], ~Owes(q),
             UNCHANGED <<users, sessions, history>>, r.stage = "load", r.op # "login"
      PROVE  CurrentInv'
  <2>1. req'[q] = r /\ \A p \in Request : p # q => req'[p] = req[p]
    BY <1>0, <1>1
  <2>2. Sure(q)' /\ LoginHolds(q)'
    BY <1>1, <2>1 DEF Sure, LoginHolds, Granting
  <2> QED BY <1>1, <2>1, <2>2, CurrentLocal DEF history
<1>2. ASSUME NEW q \in Request, NEW u \in User, Login(q, u) PROVE CurrentInv'
  <2> DEFINE r == [Idle EXCEPT !.op = "login", !.stage = "roles", !.on = {u}]
  <2>1. r.op = "login" /\ r.stage = "roles" /\ r.on = {u} /\ ~r.outdated
    BY DEF Idle
  <2>2. /\ req' = [req EXCEPT ![q] = r] /\ users[u].active /\ ~Owes(q)
        /\ UNCHANGED <<users, sessions, unrevoked, blind>>
    BY <1>2 DEF Login, Owes, history
  <2> HIDE DEF r
  <2>3. req'[q] = r /\ \A p \in Request : p # q => req'[p] = req[p]
    BY <1>0, <2>2
  <2>4. Sure(q)' /\ LoginHolds(q)'
    BY <2>1, <2>2, <2>3 DEF Sure, LoginHolds, Granting
  <2> QED BY <2>2, <2>3, <2>4, CurrentLocal
<1>3. ASSUME NEW q \in Request, ReadRoles(q), req[q].op = "login" PROVE CurrentInv'
  <2>1. PICK u \in req[q].on :
          req' = [req EXCEPT ![q].stage = "session", ![q].roles = users[u].roles]
    BY <1>3 DEF ReadRoles
  <2> DEFINE r == [req[q] EXCEPT !.stage = "session", !.roles = users[u].roles]
  <2>2. /\ r.op = req[q].op /\ r.stage = "session" /\ r.on = req[q].on
        /\ r.roles = users[u].roles /\ r.outdated = req[q].outdated /\ r.raced = req[q].raced
    <3>1. req[q] \in RequestType
      BY <1>0
    <3> QED BY <3>1 DEF RequestType
  <2>3. req' = [req EXCEPT ![q] = r]
    BY <2>1
  <2>4. /\ UNCHANGED <<users, sessions, unrevoked, blind>> /\ ~Owes(q)
        /\ req[q].stage = "roles" /\ \A v \in req[q].on : v = u
    BY <1>3 DEF ReadRoles, Owes, history, TypeInv
  <2> HIDE DEF r
  <2>5. req'[q] = r /\ \A p \in Request : p # q => req'[p] = req[p]
    BY <1>0, <2>3
  <2>6. Sure(q)'
    BY <2>2, <2>5 DEF Sure, Granting
  <2>7. ASSUME \A v : Excused(v) => Excused(v)' PROVE LoginHolds(q)'
    <3>1. LoginHolds(q)
      BY DEF CurrentInv
    <3> QED BY <1>3, <2>2, <2>4, <2>5, <2>7, <3>1 DEF LoginHolds
  <2> QED BY <2>4, <2>5, <2>6, <2>7, CurrentLocal
<1>4. ASSUME NEW q \in Request, NEW x \in Session, NEW op \in AdminOps, NEW u \in User,
             Admit(q, x, op, u)
      PROVE  CurrentInv'
  <2>1. PICK r \in RequestType :
          req' = [req EXCEPT ![q] = r] /\ r.op = op /\ r.stage = "load"
    BY <1>4, Admitted
  <2>2. UNCHANGED <<users, sessions, history>> /\ ~Owes(q) /\ op # "login"
    BY <1>4 DEF Admit, Owes, AdminOps
  <2> QED BY <1>1, <2>1, <2>2
<1>5. ASSUME NEW q \in Request, ReplaceRoles(q), req[q].op # "login" PROVE CurrentInv'
  <2> DEFINE r == [req[q] EXCEPT !.stage = "commit", !.merges = FALSE]
  <2>1. /\ req' = [req EXCEPT ![q] = r] /\ UNCHANGED <<users, sessions, unrevoked, blind>>
        /\ ~Owes(q)
    BY <1>0, <1>5 DEF ReplaceRoles, Owes, history
  <2>2. r.stage = "commit" /\ r.op = req[q].op
    <3>1. req[q] \in RequestType
      BY <1>0
    <3> QED BY <3>1 DEF RequestType
  <2> HIDE DEF r
  <2>3. req'[q] = r /\ \A p \in Request : p # q => req'[p] = req[p]
    BY <1>0, <2>1
  <2>4. Sure(q)' /\ LoginHolds(q)'
    BY <1>5, <2>2, <2>3 DEF Sure, LoginHolds, Granting
  <2> QED BY <2>1, <2>3, <2>4, CurrentLocal
<1>6. ASSUME NEW q \in Request, Fail(q) PROVE CurrentInv'
  <2>1. /\ UNCHANGED <<users, sessions, blind>> /\ unrevoked \subseteq unrevoked'
        /\ req' = End(q) /\ (Owes(q) => req[q].on \subseteq unrevoked')
    BY <1>6 DEF Fail
  <2> QED BY <2>1, CurrentEnds
<1>7. ASSUME UNCHANGED <<users, req, unrevoked, blind>>,
             \A x \in Session :
               \/ sessions'[x] \in {sessions[x], NoSession}
               \/ sessions'[x] = [sessions[x] EXCEPT !.state = "expired"] /\ sessions[x].state # "free"
      PROVE  CurrentInv'
  <2>1. ASSUME NEW x \in Session
        PROVE  \/ sessions'[x] = sessions[x] \/ sessions'[x].state = "free"
               \/ /\ sessions[x].state # "free" /\ sessions'[x].of = sessions[x].of
                  /\ sessions'[x].roles = sessions[x].roles /\ sessions'[x].raced = sessions[x].raced
                  /\ sessions'[x].outdated = sessions[x].outdated
    <3>1. sessions[x] \in SessionType /\ NoSession.state = "free"
      BY <1>0 DEF NoSession
    <3>2. CASE sessions'[x] = [sessions[x] EXCEPT !.state = "expired"] /\ sessions[x].state # "free"
      BY <3>1, <3>2 DEF SessionType
    <3> QED BY <1>7, <3>1, <3>2
  <2> QED BY <1>7, <2>1, CurrentSessions
<1>8. ASSUME NEW x \in Session, Logout(x) \/ Expire(x) PROVE CurrentInv'
  <2>1. UNCHANGED <<users, req, unrevoked, blind>> /\ sessions[x].state = "live"
    BY <1>8 DEF Logout, Expire, Found, history
  <2>2. \/ sessions' = [sessions EXCEPT ![x] = NoSession]
        \/ sessions' = [sessions EXCEPT ![x] = [sessions[x] EXCEPT !.state = "expired"]]
    BY <1>8 DEF Logout, Expire
  <2> QED BY <1>0, <1>7, <2>1, <2>2
<1>9. CASE CleanExpired
  <2>1. UNCHANGED <<users, req, unrevoked, blind>>
    BY <1>9 DEF CleanExpired, history
  <2>2. \A x \in Session : sessions'[x] \in {sessions[x], NoSession}
    BY <1>9 DEF CleanExpired
  <2> QED BY <1>7, <2>1, <2>2
<1>10. CASE UNCHANGED vars
  BY <1>7, <1>10 DEF vars
<1>11. ASSUME NEW q \in Request, Handler(q) PROVE CurrentInv'
  <2>1. CASE LogIn(q)
    BY <1>3, <2>1, CurrentCreate DEF LogIn
  <2>2. CASE CreateUser(q)
    BY <2>2, CurrentLoad, CurrentInsert DEF CreateUser, AdminOps
  <2>3. ASSUME req[q].op \in {"update", "deactivate", "roles"},
               Load(q) \/ EnsureNotLastAdmin(q) \/ Revoke(q)
        PROVE  CurrentInv'
    BY <2>3, CurrentLoad, CurrentGuard, CurrentRevoke DEF EnsureNotLastAdmin, AdminOps
  <2>4. CASE UpdateUser(q)
    BY <2>3, <2>4, CurrentPassword, CurrentUpdate DEF UpdateUser
  <2>5. CASE DeactivateUser(q)
    BY <2>3, <2>5, CurrentUpdate DEF DeactivateUser
  <2>6. CASE UpdateUserRoles(q)
    BY <1>5, <2>3, <2>6, CurrentCommit DEF UpdateUserRoles
  <2> QED BY <1>11, <2>1, <2>2, <2>4, <2>5, <2>6 DEF Handler
<1> QED BY <1>2, <1>4, <1>6, <1>8, <1>9, <1>10, <1>11 DEF Next

\* SessionsAreCurrent: a session that is in the table grants what its user has,
\* or the deletion that is to follow is owed, failed, or overlapped its login.
THEOREM SessionsCurrent == Spec => []SessionsAreCurrent
<1>1. Init => TypeInv /\ ViewInv /\ CurrentInv
  BY TypeInit, ViewInit, CurrentInit
<1>2. TypeInv /\ ViewInv /\ CurrentInv /\ [Next]_vars => (TypeInv /\ ViewInv /\ CurrentInv)'
  BY TypeStep, ViewStep, CurrentStep
<1>3. CurrentInv => SessionsAreCurrent
  <2> SUFFICES ASSUME CurrentInv, NEW x \in Session, sessions[x].state # "free",
                      ~sessions[x].raced
               PROVE  Current(x) \/ \A u \in sessions[x].of : Excused(u)
    BY DEF SessionsAreCurrent, Excused
  <2>1. /\ \A u, v \in sessions[x].of : u = v
        /\ \A u \in sessions[x].of :
             \/ users[u].active /\ users[u].roles = sessions[x].roles /\ ~sessions[x].outdated
             \/ Excused(u)
    BY DEF CurrentInv, SessionHolds
  <2> QED BY <2>1 DEF Current
<1> QED BY <1>1, <1>2, <1>3, PTL DEF Spec

=============================================================================
