--------------------------- MODULE CatalogProofs ---------------------------
(* Theorems about the command catalog, for any commands, requests and roles, *)
(* any proposals and edits, and any bounds.                                  *)
EXTENDS CatalogProperties, FiniteSetTheorems, TLAPS

-----------------------------------------------------------------------------
(* Commands as data *)

Columns ==
  {"name", "roles", "mode", "command", "image", "target", "timeout", "tail", "active", "version"}

LEMMA EntryFields ==
  ASSUME NEW e \in EntryType
  PROVE  /\ DOMAIN e = Columns /\ e = [f \in Columns |-> e[f]]
         /\ e.name \in Name /\ e.roles \subseteq Role /\ e.mode \in {"create", "exec", "logs"}
         /\ e.command \in BOOLEAN /\ e.image \in BOOLEAN /\ e.target \in BOOLEAN
         /\ e.timeout \in Int /\ e.tail \in Int /\ e.active \in BOOLEAN
         /\ e.version \in 1..(MaxWrites + 1) /\ e.version \in Nat
BY BoundsAssumption DEF EntryType, Columns

LEMMA EntryFrom ==
  ASSUME NEW e, DOMAIN e = Columns, e = [f \in Columns |-> e[f]],
         e.name \in Name, e.roles \subseteq Role, e.mode \in {"create", "exec", "logs"},
         e.command \in BOOLEAN, e.image \in BOOLEAN, e.target \in BOOLEAN,
         e.timeout \in Int, e.tail \in Int, e.active \in BOOLEAN,
         e.version \in 1..(MaxWrites + 1)
  PROVE  e \in EntryType
<1>1. e = [name |-> e.name, roles |-> e.roles, mode |-> e.mode, command |-> e.command,
           image |-> e.image, target |-> e.target, timeout |-> e.timeout, tail |-> e.tail,
           active |-> e.active, version |-> e.version]
  BY DEF Columns
<1> QED
  BY <1>1 DEF EntryType

\* Two commands with equal columns are equal.
LEMMA EntryEqual ==
  ASSUME NEW d \in EntryType, NEW e \in EntryType, \A f \in Columns : d[f] = e[f]
  PROVE  d = e
BY EntryFields

LEMMA AbsentIsNoEntry ==
  /\ Absent \notin EntryType /\ Absent.version = 0
  /\ \A e \in EntryType : e.version > 0
BY EntryFields DEF Absent

LEMMA ContentEntry ==
  ASSUME NEW e \in EntryType
  PROVE  /\ Content(e) \in EntryType /\ Content(e).active = TRUE
         /\ \A f \in Columns \ {"active"} : Content(e)[f] = e[f]
         /\ Content(e).version = e.version /\ Content(e).roles = e.roles
<1>1. DOMAIN e = Columns
  BY EntryFields
<1> QED
  BY <1>1 DEF Content, EntryType, Columns

\* What a creation stores.
LEMMA FreshEntry ==
  ASSUME NEW e \in Proposal
  PROVE  /\ Fresh(e) \in EntryType /\ Fresh(e).version = 1
         /\ Fresh(e).roles = e.roles /\ (Valid(e) => Valid(Fresh(e)))
<1> DEFINE r == Fresh(e)
<1>1. DOMAIN e = {"name", "roles", "mode", "command", "image", "target", "timeout", "tail"}
  BY ProposalAssumption DEF Fields
<1>2. /\ DOMAIN r = Columns /\ r = [f \in Columns |-> r[f]]
      /\ r.active = TRUE /\ r.version = 1
      /\ \A f \in DOMAIN e : r[f] = e[f]
  BY <1>1 DEF Fresh, Columns
<1>3. /\ e.name \in Name /\ e.roles \subseteq Role /\ e.mode \in {"create", "exec", "logs"}
      /\ e.command \in BOOLEAN /\ e.image \in BOOLEAN /\ e.target \in BOOLEAN
      /\ e.timeout \in Int /\ e.tail \in Int
  BY <1>1, ProposalAssumption DEF Fields
<1> HIDE DEF r
<1>4. /\ r.name = e.name /\ r.roles = e.roles /\ r.mode = e.mode /\ r.command = e.command
      /\ r.image = e.image /\ r.target = e.target /\ r.timeout = e.timeout /\ r.tail = e.tail
  BY <1>1, <1>2
<1>5. r.version \in 1..(MaxWrites + 1)
  BY <1>2, BoundsAssumption
<1>6. r \in EntryType
  BY <1>2, <1>3, <1>4, <1>5, EntryFrom
<1>7. Valid(e) => Valid(r)
  BY <1>4 DEF Valid
<1> QED
  BY <1>2, <1>4, <1>6, <1>7 DEF r

\* What an update makes of the copy it read.
LEMMA AppliedEntry ==
  ASSUME NEW r \in UpdateType, r.entry.version <= MaxWrites
  PROVE  /\ Applied(r) \in EntryType
         /\ Applied(r).version = r.entry.version + 1
         /\ Applied(r).active = r.entry.active
<1> DEFINE old == [r.entry EXCEPT !.version = @ + 1]
           d == r.edit
           new == Applied(r)
<1>1. r.entry \in EntryType /\ d \in Edit
  BY DEF UpdateType
<1>2. /\ old \in EntryType /\ old.version = r.entry.version + 1 /\ old.active = r.entry.active
      /\ r.entry.version + 1 \in 1..(MaxWrites + 1)
  <2> DEFINE e == r.entry
  <2>1. e \in EntryType /\ e.version \in Nat /\ e.version <= MaxWrites
    BY <1>1, EntryFields
  <2> HIDE DEF e
  <2>2. e.version + 1 \in 1..(MaxWrites + 1)
    BY <2>1, BoundsAssumption
  <2>3. /\ [e EXCEPT !.version = e.version + 1] \in EntryType
        /\ [e EXCEPT !.version = e.version + 1].version = e.version + 1
        /\ [e EXCEPT !.version = e.version + 1].active = e.active
    BY <2>1, <2>2 DEF EntryType
  <2> QED
    BY <2>2, <2>3 DEF e
<1>3. new = [f \in DOMAIN old |-> IF f \in DOMAIN d THEN d[f] ELSE old[f]]
  BY DEF Applied, Amended
<1>4. /\ DOMAIN d \subseteq {"name", "roles", "mode", "command", "image", "target", "timeout", "tail"}
      /\ \A f \in DOMAIN d : d[f] \in Fields[f]
  BY <1>1, EditAssumption DEF Fields
<1> HIDE DEF old, d, new
<1>5. /\ DOMAIN new = Columns /\ new = [f \in Columns |-> new[f]]
      /\ \A f \in Columns : new[f] = IF f \in DOMAIN d THEN d[f] ELSE old[f]
  BY <1>2, <1>3, EntryFields
<1>6. \A f \in DOMAIN Fields : f \in Columns /\ new[f] \in Fields[f]
  <2>1. \A f \in DOMAIN Fields : f \in Columns /\ old[f] \in Fields[f]
    BY <1>2, EntryFields DEF Fields, Columns
  <2> QED
    BY <1>4, <1>5, <2>1
<1>7. /\ new.name \in Name /\ new.roles \subseteq Role /\ new.mode \in {"create", "exec", "logs"}
      /\ new.command \in BOOLEAN /\ new.image \in BOOLEAN /\ new.target \in BOOLEAN
      /\ new.timeout \in Int /\ new.tail \in Int
  BY <1>6 DEF Fields
<1>8. new.version = old.version /\ new.active = old.active
  BY <1>4, <1>5 DEF Columns
<1>9. old.active \in BOOLEAN
  BY <1>2, EntryFields
<1>10. new \in EntryType
  BY <1>2, <1>5, <1>7, <1>8, <1>9, EntryFrom
<1> QED
  BY <1>2, <1>8, <1>10 DEF new

\* What validation accepts can be run.
LEMMA ValidIsRunnable ==
  ASSUME NEW e \in EntryType, Valid(e)
  PROVE  Runnable(e)
BY EntryFields DEF Valid, Runnable

-----------------------------------------------------------------------------
(* Requests as data *)

LEMMA RequestKinds ==
  ASSUME NEW x \in RequestType
  PROVE  /\ x = Idle \/ x \in CreateType \/ x \in UpdateType \/ x \in ExecuteType \/ x \in BrowseType
         /\ x.op = "create" <=> x \in CreateType
         /\ x.op = "update" <=> x \in UpdateType
         /\ x.op = "execute" <=> x \in ExecuteType
         /\ x.op = "browse" <=> x \in BrowseType
         /\ x.op = "none" <=> x = Idle
<1>1. x = Idle \/ x \in CreateType \/ x \in UpdateType \/ x \in ExecuteType \/ x \in BrowseType
  BY DEF RequestType
<1>2. /\ \A y \in CreateType : y.op = "create"
      /\ \A y \in UpdateType : y.op = "update"
      /\ \A y \in ExecuteType : y.op = "execute"
      /\ \A y \in BrowseType : y.op = "browse"
      /\ Idle.op = "none"
  BY DEF CreateType, UpdateType, ExecuteType, BrowseType, Idle
<1> QED
  BY <1>1, <1>2

\* What a write of what, on c, makes of a request.
Note(x, what, c, cs) ==
  CASE x.op = "update" \/ (x.op = "execute" /\ x.stage = "roles") ->
         IF x.on = c THEN [x EXCEPT !.missed = @ \cup {what}] ELSE x
    [] x.op = "browse" /\ x.stage # "done" ->
         LET steady == x.steady \cap Visible(cs, x.as)
             move(d) == Place(cs, x.as, d) - Place(cmds, x.as, d)
         IN [x EXCEPT !.steady = steady, !.moved = @ \/ \E d \in steady :
               move(d) < 0 \/ (x.stage = "rows" /\ move(d) > 0)]
    [] OTHER -> x

LEMMA NotedIsNote ==
  ASSUME NEW r, NEW what, NEW c, NEW cs, NEW p \in Request
  PROVE  Noted(r, what, c, cs)[p] = Note(r[p], what, c, cs)
BY DEF Noted, Note

LEMMA NoteUpdate ==
  ASSUME NEW x \in UpdateType, NEW what \in {"update", "deactivate"}, NEW c, NEW cs
  PROVE  LET y == Note(x, what, c, cs) IN
         /\ y \in UpdateType
         /\ y.on = x.on /\ y.stage = x.stage /\ y.entry = x.entry
         /\ x.missed \subseteq y.missed
         /\ IF x.on = c THEN what \in y.missed ELSE y = x
<1>1. x.op = "update" /\ x.missed \cup {what} \in SUBSET {"update", "deactivate"}
  BY DEF UpdateType
<1>2. Note(x, what, c, cs) = IF x.on = c THEN [x EXCEPT !.missed = @ \cup {what}] ELSE x
  BY <1>1 DEF Note
<1> DEFINE m == x.missed \cup {what}
<1>3. /\ m \in SUBSET {"update", "deactivate"} /\ x.missed \subseteq m /\ what \in m
      /\ Note(x, what, c, cs) = IF x.on = c THEN [x EXCEPT !.missed = m] ELSE x
  BY <1>1, <1>2
<1> HIDE DEF m
<1>4. /\ [x EXCEPT !.missed = m] \in UpdateType /\ [x EXCEPT !.missed = m].missed = m
      /\ [x EXCEPT !.missed = m].on = x.on /\ [x EXCEPT !.missed = m].stage = x.stage
      /\ [x EXCEPT !.missed = m].entry = x.entry
  BY <1>3 DEF UpdateType
<1> QED
  BY <1>3, <1>4

LEMMA NoteExecute ==
  ASSUME NEW x \in ExecuteType, NEW what \in {"update", "deactivate"}, NEW c, NEW cs
  PROVE  LET y == Note(x, what, c, cs) IN
         /\ y \in ExecuteType
         /\ y.on = x.on /\ y.stage = x.stage /\ y.entry = x.entry /\ y.as = x.as
         /\ x.missed \subseteq y.missed
         /\ IF x.on = c /\ x.stage = "roles" THEN what \in y.missed ELSE y = x
<1>1. x.op = "execute" /\ x.missed \cup {what} \in SUBSET {"update", "deactivate"}
  BY DEF ExecuteType
<1> DEFINE m == x.missed \cup {what}
<1>2. Note(x, what, c, cs) = IF x.on = c /\ x.stage = "roles" THEN [x EXCEPT !.missed = m] ELSE x
  BY <1>1 DEF Note
<1>3. m \in SUBSET {"update", "deactivate"} /\ x.missed \subseteq m /\ what \in m
  BY <1>1
<1> HIDE DEF m
<1>4. /\ [x EXCEPT !.missed = m] \in ExecuteType /\ [x EXCEPT !.missed = m].missed = m
      /\ [x EXCEPT !.missed = m].on = x.on /\ [x EXCEPT !.missed = m].stage = x.stage
      /\ [x EXCEPT !.missed = m].entry = x.entry /\ [x EXCEPT !.missed = m].as = x.as
  BY <1>3 DEF ExecuteType
<1> QED
  BY <1>2, <1>3, <1>4

LEMMA NoteBrowse ==
  ASSUME NEW x \in BrowseType, NEW what, NEW c, NEW cs
  PROVE  LET y == Note(x, what, c, cs) IN
         /\ y \in BrowseType
         /\ y.stage = x.stage /\ y.as = x.as /\ y.page = x.page /\ y.total = x.total
         /\ y.seen = x.seen
         /\ x.stage = "done" => y = x
         /\ x.stage # "done" =>
              /\ y.steady = x.steady \cap Visible(cs, x.as)
              /\ ~y.moved => /\ ~x.moved
                             /\ \A d \in y.steady :
                                  LET move == Place(cs, x.as, d) - Place(cmds, x.as, d)
                                  IN ~(move < 0) /\ (x.stage = "rows" => ~(move > 0))
<1>1. x.op = "browse" /\ x.moved \in BOOLEAN /\ x.steady \in SUBSET Command
  BY DEF BrowseType
<1>2. CASE x.stage = "done"
  <2>1. Note(x, what, c, cs) = x
    BY <1>1, <1>2 DEF Note
  <2> QED
    BY <1>2, <2>1
<1>3. CASE x.stage # "done"
  <2> DEFINE steady == x.steady \cap Visible(cs, x.as)
             shifted == \E d \in steady :
                          LET move == Place(cs, x.as, d) - Place(cmds, x.as, d)
                          IN move < 0 \/ (x.stage = "rows" /\ move > 0)
             moved == x.moved \/ shifted
  <2>1. Note(x, what, c, cs) = [x EXCEPT !.steady = steady, !.moved = moved]
    BY <1>1, <1>3 DEF Note
  <2>2. steady \in SUBSET Command /\ moved \in BOOLEAN
    BY <1>1
  <2>3. ~moved => ~x.moved /\ ~shifted
    OBVIOUS
  <2> HIDE DEF steady, moved, shifted
  <2>4. LET y == [x EXCEPT !.steady = steady, !.moved = moved] IN
        /\ y \in BrowseType
        /\ y.stage = x.stage /\ y.as = x.as /\ y.page = x.page /\ y.total = x.total
        /\ y.seen = x.seen /\ y.steady = steady /\ y.moved = moved
    BY <2>2 DEF BrowseType
  <2>5. ~moved => /\ ~x.moved
                  /\ \A d \in steady :
                       LET move == Place(cs, x.as, d) - Place(cmds, x.as, d)
                       IN ~(move < 0) /\ (x.stage = "rows" => ~(move > 0))
    BY <2>3 DEF shifted
  <2>6. steady = x.steady \cap Visible(cs, x.as)
    BY DEF steady
  <2> QED
    BY <1>3, <2>1, <2>4, <2>5, <2>6
<1> QED
  BY <1>2, <1>3

LEMMA NoteOther ==
  ASSUME NEW x, x = Idle \/ x \in CreateType, NEW what, NEW c, NEW cs
  PROVE  Note(x, what, c, cs) = x
<1>1. x.op = "none" \/ x.op = "create"
  BY DEF Idle, CreateType
<1> QED
  BY <1>1 DEF Note

-----------------------------------------------------------------------------
(* What holds of every request, and the steps that keep it *)

\* A request, as far as the tables cs and w writes bind it: what is about to be
\* stored is in order, and its version is no higher than the writes account for.
Good(x, cs, w) ==
  \/ x = Idle
  \/ x \in CreateType /\ x.entry.version = 1 /\ x.entry.roles # {} /\ Valid(x.entry)
  \/ /\ x \in UpdateType /\ cs[x.on].version > 0
     /\ x.entry.version <= IF x.stage = "write" THEN w + 1 ELSE w
     /\ x.stage = "write" => x.entry.roles # {} /\ Valid(x.entry)
  \/ x \in ExecuteType /\ cs[x.on].version > 0 /\ x.entry.version <= w
  \/ x \in BrowseType /\ (x.stage # "done" => x.page <= Cardinality(Command))

\* The tables: a stored command is in order and has a name of its own.
Tables(cs, w) ==
  /\ cs \in [Command -> {Absent} \cup EntryType]
  /\ \A c \in Command : cs[c].version > 0 =>
       cs[c].version <= w /\ cs[c].roles # {} /\ Runnable(cs[c])
  /\ \A c, d \in Command :
       cs[c].version > 0 /\ cs[d].version > 0 /\ cs[c].name = cs[d].name => c = d

GoodInv ==
  /\ Tables(cmds, writes) /\ writes \in 0..MaxWrites
  /\ req \in [Request -> RequestType]
  /\ \A q \in Request : Good(req[q], cmds, writes)
  /\ published \in [Command -> SUBSET EntryType] /\ overwritten \subseteq Command

\* A step of one request, which reads the tables.
StartsUpdate(y) ==
  /\ y \in UpdateType /\ Stored(y.on)
  /\ y.stage = "roles" /\ y.missed = {} /\ y.entry = CommandEntry(y.on)

StartsExecute(y) ==
  /\ y \in ExecuteType /\ Stored(y.on)
  /\ y.stage = "roles" /\ y.missed = {} /\ y.entry = CommandEntry(y.on)

Same(x, y) == y.on = x.on /\ y.missed = x.missed

ReadsUpdate(x, y) ==
  /\ x \in UpdateType /\ y \in UpdateType /\ Same(x, y)
  /\ x.stage = "roles" /\ y.stage = "ready"
  /\ y.entry = [x.entry EXCEPT !.roles = cmds[x.on].roles]

ReadsExecute(x, y) ==
  /\ x \in ExecuteType /\ y \in ExecuteType /\ Same(x, y) /\ y.as = x.as
  /\ x.stage = "roles" /\ y.stage = "ready"
  /\ y.entry = [x.entry EXCEPT !.roles = cmds[x.on].roles] /\ y.as \cap y.entry.roles # {}

Applies(x, y) ==
  /\ x \in UpdateType /\ y \in UpdateType /\ Same(x, y)
  /\ x.stage = "ready" /\ y.stage = "write" /\ y.entry = Applied(x) /\ Accepts(x)

StartsBrowse(y) ==
  /\ y \in BrowseType /\ y.stage = "count" /\ y.page = 1 /\ Visible(cmds, y.as) # {}
  /\ y.steady = Visible(cmds, y.as)

Counts(x, y) ==
  /\ x \in BrowseType /\ x.stage = "count"
  /\ y = [x EXCEPT !.stage = "rows", !.total = Cardinality(Visible(cmds, x.as))]

Shows(x, y) ==
  /\ x \in BrowseType /\ x.stage = "rows"
  /\ y = [x EXCEPT !.seen = @ \cup {c \in Visible(cmds, x.as) : OnPage(x.page, Place(cmds, x.as, c))},
                   !.page = @ + 1,
                   !.stage = IF x.page * PageSize < x.total THEN "count" ELSE "done"]

Turns(x, y) ==
  \/ y = Idle
  \/ y \in CreateType /\ y.entry.version = 1 /\ y.entry.roles # {} /\ Valid(y.entry)
  \/ StartsUpdate(y) \/ ReadsUpdate(x, y) \/ Applies(x, y)
  \/ StartsExecute(y) \/ ReadsExecute(x, y)
  \/ StartsBrowse(y) \/ Counts(x, y) \/ Shows(x, y)

Local(q) ==
  /\ UNCHANGED <<cmds, published, overwritten, writes>>
  /\ \E y : Turns(req[q], y) /\ req' = [req EXCEPT ![q] = y]

\* A transaction of q that stores e under c.
Stores(q, c, e) ==
  /\ Store(q, c, e)
  /\ \/ /\ req[q] \in CreateType /\ ~Stored(c) /\ Named(e.name) = {}
        /\ overwritten' = overwritten
     \/ /\ req[q] \in UpdateType /\ req[q].stage = "write" /\ req[q].on = c
        /\ Named(e.name) \ {c} = {}
        /\ overwritten' = overwritten \cup IF "update" \in req[q].missed THEN {c} ELSE {}
  /\ e = req[q].entry

LEMMA StoredEntry ==
  ASSUME NEW cs \in [Command -> {Absent} \cup EntryType], NEW c \in Command, cs[c].version > 0
  PROVE  cs[c] \in EntryType
BY AbsentIsNoEntry

LEMMA RowEntry ==
  ASSUME GoodInv, NEW c \in Command, Stored(c)
  PROVE  /\ CommandEntry(c) \in EntryType
         /\ \A f \in Columns \ {"roles"} : CommandEntry(c)[f] = cmds[c][f]
         /\ CommandEntry(c).version = cmds[c].version /\ CommandEntry(c).active = cmds[c].active
<1>1. cmds[c] \in EntryType
  BY StoredEntry DEF GoodInv, Tables, Stored
<1> QED
  BY <1>1 DEF CommandEntry, EntryType, Columns

\* A copy with the roles that are there.
LEMMA RolesEntry ==
  ASSUME NEW e \in EntryType, NEW roles \in SUBSET Role
  PROVE  LET d == [e EXCEPT !.roles = roles] IN
         /\ d \in EntryType /\ d.roles = roles
         /\ \A f \in Columns \ {"roles"} : d[f] = e[f]
         /\ d.version = e.version /\ d.active = e.active
BY DEF EntryType, Columns

LEMMA VisibleSize ==
  ASSUME NEW cs, NEW as
  PROVE  /\ Visible(cs, as) \subseteq Command
         /\ IsFiniteSet(Visible(cs, as)) /\ IsFiniteSet(Command)
         /\ Cardinality(Visible(cs, as)) \in Nat /\ Cardinality(Command) \in Nat
         /\ Cardinality(Visible(cs, as)) <= Cardinality(Command)
         /\ Visible(cs, as) # {} => Cardinality(Command) >= 1
<1>1. Visible(cs, as) \subseteq Command
  BY DEF Visible
<1>2. IsFiniteSet(Command)
  BY CommandAssumption
<1>3. Visible(cs, as) # {} => Command # {}
  BY <1>1
<1>4. Command # {} => Cardinality(Command) # 0
  BY <1>2, FS_EmptySet
<1>5. /\ IsFiniteSet(Visible(cs, as))
      /\ Cardinality(Visible(cs, as)) <= Cardinality(Command)
  BY <1>1, <1>2, FS_Subset
<1>6. Cardinality(Visible(cs, as)) \in Nat /\ Cardinality(Command) \in Nat
  BY <1>2, <1>5, FS_CardinalityType
<1>7. \A n \in Nat : n # 0 => n >= 1
  OBVIOUS
<1>8. Visible(cs, as) # {} => Cardinality(Command) >= 1
  BY <1>3, <1>4, <1>6, <1>7, Zenon
<1> QED
  BY <1>1, <1>2, <1>5, <1>6, <1>8, Zenon

\* Every step turns one request, which changes nothing else, stores a command
\* or deactivates one.
LEMMA Moves ==
  ASSUME GoodInv, Next
  PROVE  \/ \E q \in Request : Local(q)
         \/ \E q \in Request, c \in Command : Stores(q, c, req[q].entry)
         \/ \E c \in Command : DeactivateCommand(c)
<1>1. req \in [Request -> RequestType] /\ cmds \in [Command -> {Absent} \cup EntryType]
  BY DEF GoodInv, Tables
<1> USE <1>1
<1> DEFINE Here(q) == Local(q) \/ \E c \in Command : Stores(q, c, req[q].entry)
<1>2. ASSUME NEW q \in Request, NEW y, req' = [req EXCEPT ![q] = y], Turns(req[q], y),
             UNCHANGED <<cmds, published, overwritten, writes>>
      PROVE  Here(q)
  BY <1>2 DEF Local
<1>3. ASSUME NEW q \in Request, req' = End(q), UNCHANGED <<cmds, published, overwritten, writes>>
      PROVE  Here(q)
  BY <1>2, <1>3 DEF End, Turns
<1> HIDE DEF Here
<1>4. ASSUME NEW q \in Request, Browse(q) PROVE Here(q)
  <2>1. PICK as \in SUBSET Role :
          /\ Visible(cmds, as) # {}
          /\ req' = [req EXCEPT ![q] =
               [op |-> "browse", stage |-> "count", as |-> as, page |-> 1, total |-> 0,
                seen |-> {}, steady |-> Visible(cmds, as), moved |-> FALSE]]
    BY <1>4 DEF Browse
  <2> DEFINE y == [op |-> "browse", stage |-> "count", as |-> as, page |-> 1, total |-> 0,
                   seen |-> {}, steady |-> Visible(cmds, as), moved |-> FALSE]
  <2>2. /\ Visible(cmds, as) \in SUBSET Command
        /\ 1 \in 1..(Cardinality(Command) + 1) /\ 0 \in 0..Cardinality(Command)
    <3>1. Visible(cmds, as) \subseteq Command /\ Cardinality(Command) \in Nat
      BY VisibleSize
    <3>2. \A n \in Nat : 1 \in 1..(n + 1) /\ 0 \in 0..n
      OBVIOUS
    <3> QED
      BY <3>1, <3>2, Zenon
  <2>3. y \in BrowseType /\ y.stage = "count" /\ y.page = 1 /\ y.as = as /\ y.steady = Visible(cmds, as)
    BY <2>2 DEF BrowseType
  <2>4. req' = [req EXCEPT ![q] = y]
    BY <2>1
  <2> HIDE DEF y
  <2>5. Turns(req[q], y)
    BY <2>1, <2>3 DEF Turns, StartsBrowse
  <2>6. UNCHANGED <<cmds, published, overwritten, writes>>
    BY <1>4 DEF Browse
  <2> QED
    BY <1>2, <2>4, <2>5, <2>6
<1>5. ASSUME NEW q \in Request, Count(q) PROVE Here(q)
  <2> DEFINE y == [req[q] EXCEPT !.stage = "rows", !.total = Cardinality(Visible(cmds, req[q].as))]
  <2>1. req[q] \in BrowseType /\ req[q].stage = "count"
    BY <1>5, RequestKinds DEF Count
  <2>2. req' = [req EXCEPT ![q] = y]
    BY <1>5 DEF Count
  <2>3. Turns(req[q], y)
    BY <2>1 DEF Turns, Counts
  <2> HIDE DEF y
  <2> QED
    BY <1>2, <1>5, <2>2, <2>3 DEF Count
<1>6. ASSUME NEW q \in Request, Rows(q) PROVE Here(q)
  <2> DEFINE shown == {c \in Visible(cmds, req[q].as) :
                         OnPage(req[q].page, Place(cmds, req[q].as, c))}
             y == [req[q] EXCEPT !.seen = @ \cup shown, !.page = @ + 1,
                     !.stage = IF req[q].page * PageSize < req[q].total THEN "count" ELSE "done"]
  <2>1. req[q] \in BrowseType /\ req[q].stage = "rows"
    BY <1>6, RequestKinds DEF Rows
  <2>2. req' = [req EXCEPT ![q] = y]
    BY <1>6 DEF Rows
  <2>3. Turns(req[q], y)
    BY <2>1 DEF Turns, Shows
  <2> HIDE DEF y
  <2> QED
    BY <1>2, <1>6, <2>2, <2>3 DEF Rows
<1>7. ASSUME NEW q \in Request, CreateCommand(q) PROVE Here(q)
  <2>1. PICK e \in Proposal :
          /\ e.roles # {} /\ Valid(e)
          /\ req' = [req EXCEPT ![q] = [op |-> "create", entry |-> Fresh(e)]]
    BY <1>7 DEF CreateCommand
  <2> DEFINE y == [op |-> "create", entry |-> Fresh(e)]
  <2>2. /\ y \in CreateType /\ y.entry.version = 1 /\ y.entry.roles # {} /\ Valid(y.entry)
    BY <2>1, FreshEntry DEF CreateType
  <2>3. req' = [req EXCEPT ![q] = y]
    BY <2>1
  <2> HIDE DEF y
  <2>4. Turns(req[q], y)
    BY <2>2 DEF Turns
  <2> QED
    BY <1>2, <1>7, <2>3, <2>4 DEF CreateCommand
<1>8. ASSUME NEW q \in Request, Insert(q) PROVE Here(q)
  <2>1. req[q] \in CreateType
    BY <1>8, RequestKinds DEF Insert
  <2>2. CASE Named(req[q].entry.name) # {}
    BY <1>3, <1>8, <2>2 DEF Insert
  <2>3. CASE Named(req[q].entry.name) = {}
    BY <1>8, <2>1, <2>3 DEF Insert, Stores, Here
  <2> QED
    BY <2>2, <2>3
<1>9. ASSUME NEW q \in Request, NEW c \in Command, UpdateCommand(q, c) PROVE Here(q)
  <2>1. PICK d \in Edit :
          req' = [req EXCEPT ![q] = [op |-> "update", stage |-> "roles", on |-> c, edit |-> d,
                                     entry |-> CommandEntry(c), missed |-> {}]]
    BY <1>9 DEF UpdateCommand
  <2> DEFINE y == [op |-> "update", stage |-> "roles", on |-> c, edit |-> d,
                   entry |-> CommandEntry(c), missed |-> {}]
  <2>2. Stored(c) /\ CommandEntry(c) \in EntryType
    BY <1>9, RowEntry DEF UpdateCommand
  <2>3. /\ y \in UpdateType /\ y.on = c /\ y.stage = "roles" /\ y.missed = {}
        /\ y.entry = CommandEntry(c)
    BY <2>2 DEF UpdateType
  <2>4. req' = [req EXCEPT ![q] = y]
    BY <2>1
  <2> HIDE DEF y
  <2>5. Turns(req[q], y)
    BY <2>2, <2>3 DEF Turns, StartsUpdate
  <2> QED
    BY <1>2, <1>9, <2>4, <2>5 DEF UpdateCommand
<1>10. ASSUME NEW q \in Request, NEW c \in Command, ExecuteCommand(q, c) PROVE Here(q)
  <2>1. PICK as \in SUBSET Role :
          req' = [req EXCEPT ![q] = [op |-> "execute", stage |-> "roles", on |-> c, as |-> as,
                                     entry |-> CommandEntry(c), missed |-> {}]]
    BY <1>10 DEF ExecuteCommand
  <2> DEFINE y == [op |-> "execute", stage |-> "roles", on |-> c, as |-> as,
                   entry |-> CommandEntry(c), missed |-> {}]
  <2>2. Stored(c) /\ CommandEntry(c) \in EntryType
    BY <1>10, RowEntry DEF ExecuteCommand
  <2>3. /\ y \in ExecuteType /\ y.on = c /\ y.stage = "roles" /\ y.missed = {}
        /\ y.entry = CommandEntry(c)
    BY <2>2 DEF ExecuteType
  <2>4. req' = [req EXCEPT ![q] = y]
    BY <2>1
  <2> HIDE DEF y
  <2>5. Turns(req[q], y)
    BY <2>2, <2>3 DEF Turns, StartsExecute
  <2> QED
    BY <1>2, <1>10, <2>4, <2>5 DEF ExecuteCommand
<1>11. ASSUME NEW q \in Request, ReadRoles(q) PROVE Here(q)
  <2> DEFINE x == req[q]
             roles == cmds[x.on].roles
             y == [x EXCEPT !.entry.roles = roles, !.stage = "ready"]
             copy == [x.entry EXCEPT !.roles = roles]
  <2>1. /\ x \in UpdateType \/ x \in ExecuteType
        /\ x.stage = "roles" /\ x.entry \in EntryType /\ x.on \in Command
    BY <1>11, RequestKinds DEF ReadRoles, UpdateType, ExecuteType
  <2>2. cmds[x.on].version > 0
    BY <2>1, RequestKinds DEF GoodInv, Good, Idle, CreateType, BrowseType, UpdateType, ExecuteType
  <2>3. roles \in SUBSET Role
    BY <2>1, <2>2, StoredEntry, EntryFields
  <2>4. copy \in EntryType /\ copy.roles = roles
    <3> DEFINE e == x.entry
    <3>1. e \in EntryType
      BY <2>1
    <3> HIDE DEF e, roles
    <3>2. [e EXCEPT !.roles = roles] \in EntryType /\ [e EXCEPT !.roles = roles].roles = roles
      BY <2>3, <3>1, RolesEntry
    <3> QED
      BY <3>2 DEF e
  <2>5. y = [x EXCEPT !.entry = copy, !.stage = "ready"]
    BY <2>1 DEF UpdateType, ExecuteType
  <2> HIDE DEF copy, y
  <2>6. x \in UpdateType => /\ y \in UpdateType /\ y.on = x.on /\ y.missed = x.missed
                            /\ y.stage = "ready" /\ y.entry = copy
    BY <2>4, <2>5 DEF UpdateType
  <2>7. x \in ExecuteType => /\ y \in ExecuteType /\ y.on = x.on /\ y.missed = x.missed
                             /\ y.as = x.as /\ y.stage = "ready" /\ y.entry = copy
    BY <2>4, <2>5 DEF ExecuteType
  <2>8. CASE x.op = "execute" /\ x.as \cap roles = {}
    BY <1>3, <1>11, <2>8 DEF ReadRoles
  <2>9. CASE ~(x.op = "execute" /\ x.as \cap roles = {})
    <3>1. req' = [req EXCEPT ![q] = y]
      BY <1>11, <2>9 DEF ReadRoles, y
    <3>2. x \in UpdateType => ReadsUpdate(x, y)
      BY <2>1, <2>6 DEF ReadsUpdate, Same, copy
    <3>3. x \in ExecuteType => x.as \cap roles # {}
      BY <2>9 DEF ExecuteType
    <3>4. x \in ExecuteType => ReadsExecute(x, y)
      BY <2>1, <2>4, <2>7, <3>3 DEF ReadsExecute, Same, copy
    <3>5. Turns(x, y)
      BY <2>1, <3>2, <3>4 DEF Turns
    <3> QED
      BY <1>2, <1>11, <3>1, <3>5 DEF ReadRoles
  <2> QED
    BY <2>8, <2>9
<1>12. ASSUME NEW q \in Request, Apply(q) PROVE Here(q)
  <2> DEFINE x == req[q]
             new == Applied(x)
             y == [x EXCEPT !.stage = "write", !.entry = new]
  <2>1. x \in UpdateType /\ x.stage = "ready"
    BY <1>12, RequestKinds DEF Apply
  <2>2. x.entry.version <= MaxWrites
    <3>1. x.entry.version <= writes
      BY <2>1, RequestKinds DEF GoodInv, Good, Idle, CreateType, BrowseType, UpdateType, ExecuteType
    <3>2. x.entry.version \in Nat /\ writes \in Nat /\ writes <= MaxWrites
      BY <2>1, EntryFields, BoundsAssumption DEF UpdateType, GoodInv
    <3> QED
      BY <3>1, <3>2, BoundsAssumption
  <2>3. new \in EntryType
    BY <2>1, <2>2, AppliedEntry
  <2>4. CASE ~Accepts(x)
    BY <1>3, <1>12, <2>4 DEF Apply
  <2>5. CASE Accepts(x)
    <3>1. req' = [req EXCEPT ![q] = y]
      BY <1>12, <2>5 DEF Apply
    <3> HIDE DEF new
    <3>2. /\ y \in UpdateType /\ y.on = x.on /\ y.missed = x.missed
          /\ y.stage = "write" /\ y.entry = new
      BY <2>1, <2>3 DEF UpdateType
    <3> HIDE DEF y
    <3>3. Turns(x, y)
      BY <2>1, <2>5, <3>2 DEF Turns, Applies, Same, new
    <3> QED
      BY <1>2, <1>12, <3>1, <3>3 DEF Apply
  <2> QED
    BY <2>4, <2>5
<1>13. ASSUME NEW q \in Request, Write(q) PROVE Here(q)
  <2>1. req[q] \in UpdateType /\ req[q].stage = "write" /\ req[q].on \in Command
    BY <1>13, RequestKinds DEF Write, UpdateType
  <2>2. CASE Named(req[q].entry.name) \ {req[q].on} # {}
    BY <1>3, <1>13, <2>2 DEF Write
  <2>3. CASE Named(req[q].entry.name) \ {req[q].on} = {}
    BY <1>13, <2>1, <2>3 DEF Write, Stores, Here
  <2> QED
    BY <2>2, <2>3
<1>14. ASSUME NEW q \in Request, HandOver(q) PROVE Here(q)
  BY <1>3, <1>14 DEF HandOver
<1>15. ASSUME NEW q \in Request, Fail(q) PROVE Here(q)
  BY <1>3, <1>15 DEF Fail
<1>16. ASSUME NEW q \in Request,
              \/ ListCommands(q) \/ Administer(q) \/ ReadRoles(q)
              \/ (\E c \in Command : ExecuteCommand(q, c)) \/ HandOver(q) \/ Fail(q)
       PROVE  Here(q)
  <2> QED
    BY <1>16, <1>4, <1>5, <1>6, <1>7, <1>8, <1>9, <1>10, <1>11, <1>12, <1>13, <1>14, <1>15
    DEF ListCommands, Administer
<1>17. (\E q \in Request : Here(q)) \/ \E c \in Command : DeactivateCommand(c)
  <2> QED
    BY <1>16 DEF Next
<1> QED
  BY <1>17 DEF Here

LEMMA PagesCoverRows ==
  ASSUME NEW p \in Nat, NEW s \in Nat \ {0}, NEW t \in Nat, p * s < t
  PROVE  p < t
<1>1. PICK k \in Nat : s = k + 1
  <2>1. s - 1 \in Nat /\ s = (s - 1) + 1
    OBVIOUS
  <2> QED
    BY <2>1
<1>2. p * s = p * k + p
  BY <1>1
<1>3. p * k \in Nat
  BY <1>1
<1> DEFINE m == p * k
<1> HIDE DEF m
<1>4. m \in Nat /\ m + p < t
  BY <1>2, <1>3 DEF m
<1> QED
  BY <1>4

\* A page that has been read leads to the next one or ends the list.
LEMMA ShowsGood ==
  ASSUME NEW x \in BrowseType, NEW y, Shows(x, y), x.page <= Cardinality(Command)
  PROVE  /\ y \in BrowseType /\ y.as = x.as /\ y.steady = x.steady /\ y.moved = x.moved
         /\ y.page = x.page + 1 /\ (y.stage # "done" => y.page <= Cardinality(Command))
         /\ y.stage = IF x.page * PageSize < x.total THEN "count" ELSE "done"
         /\ y.seen = x.seen \cup
                {c \in Visible(cmds, x.as) : OnPage(x.page, Place(cmds, x.as, c))}
<1> DEFINE seen == x.seen \cup
              {c \in Visible(cmds, x.as) : OnPage(x.page, Place(cmds, x.as, c))}
           page == x.page + 1
           stage == IF x.page * PageSize < x.total THEN "count" ELSE "done"
           n == Cardinality(Command)
<1>1. y = [x EXCEPT !.seen = seen, !.page = page, !.stage = stage]
  BY DEF Shows
<1>2. n \in Nat /\ x.page \in 1..(n + 1) /\ x.total \in 0..n /\ x.page <= n
  BY VisibleSize DEF BrowseType
<1>3. seen \in SUBSET Command
  <2>1. Visible(cmds, x.as) \subseteq Command /\ x.seen \subseteq Command
    BY VisibleSize DEF BrowseType
  <2> QED
    BY <2>1
<1> HIDE DEF n
<1>4. page \in 1..(n + 1)
  BY <1>2
<1>5. stage # "done" => page <= n
  <2>1. ASSUME x.page * PageSize < x.total PROVE x.page < x.total
    BY <1>2, <2>1, PagesCoverRows, BoundsAssumption
  <2>2. x.page < x.total => page <= n
    BY <1>2
  <2> QED
    BY <2>1, <2>2
<1>6. stage \in {"count", "done"}
  OBVIOUS
<1>7. stage = IF x.page * PageSize < x.total THEN "count" ELSE "done"
  OBVIOUS
<1> HIDE DEF seen, page, stage
<1>8. /\ y \in BrowseType /\ y.as = x.as /\ y.steady = x.steady /\ y.moved = x.moved
      /\ y.page = page /\ y.stage = stage /\ y.seen = seen
  BY <1>1, <1>3, <1>4, <1>6 DEF BrowseType, n
<1>9. y.stage # "done" => y.page <= Cardinality(Command)
  BY <1>5, <1>8 DEF n
<1>10. page = x.page + 1
  BY DEF page
<1>11. seen = x.seen \cup {c \in Visible(cmds, x.as) : OnPage(x.page, Place(cmds, x.as, c))}
  BY DEF seen
<1> QED
  BY <1>7, <1>8, <1>9, <1>10, <1>11, Zenon

LEMMA CountsGood ==
  ASSUME NEW x \in BrowseType, NEW y, Counts(x, y)
  PROVE  /\ y \in BrowseType /\ y.as = x.as /\ y.steady = x.steady /\ y.moved = x.moved
         /\ y.page = x.page /\ y.stage = "rows" /\ y.seen = x.seen
         /\ y.total = Cardinality(Visible(cmds, x.as))
<1> DEFINE total == Cardinality(Visible(cmds, x.as))
<1>1. y = [x EXCEPT !.stage = "rows", !.total = total]
  BY DEF Counts
<1>2. total \in 0..Cardinality(Command)
  <2>1. total \in Nat /\ Cardinality(Command) \in Nat /\ total <= Cardinality(Command)
    BY VisibleSize
  <2>2. \A t, n \in Nat : t <= n => t \in 0..n
    OBVIOUS
  <2> HIDE DEF total
  <2> QED
    BY <2>1, <2>2, Zenon
<1>3. total = Cardinality(Visible(cmds, x.as))
  OBVIOUS
<1> HIDE DEF total
<1>4. /\ y \in BrowseType /\ y.as = x.as /\ y.steady = x.steady /\ y.moved = x.moved
      /\ y.page = x.page /\ y.stage = "rows" /\ y.seen = x.seen /\ y.total = total
  BY <1>1, <1>2 DEF BrowseType
<1> QED
  BY <1>3, <1>4

\* The facts of one kind of request that Good states of it.
LEMMA GoodKinds ==
  ASSUME NEW x, NEW cs, NEW w, Good(x, cs, w)
  PROVE  /\ x \in CreateType => x.entry.version = 1 /\ x.entry.roles # {} /\ Valid(x.entry)
         /\ x \in UpdateType =>
              /\ cs[x.on].version > 0
              /\ x.entry.version <= IF x.stage = "write" THEN w + 1 ELSE w
              /\ x.stage = "write" => x.entry.roles # {} /\ Valid(x.entry)
         /\ x \in ExecuteType => cs[x.on].version > 0 /\ x.entry.version <= w
         /\ x \in BrowseType => (x.stage # "done" => x.page <= Cardinality(Command))
<1>1. /\ \A y \in CreateType : y.op = "create"
      /\ \A y \in UpdateType : y.op = "update"
      /\ \A y \in ExecuteType : y.op = "execute"
      /\ \A y \in BrowseType : y.op = "browse"
      /\ Idle.op = "none"
  BY DEF CreateType, UpdateType, ExecuteType, BrowseType, Idle
<1> QED
  BY <1>1 DEF Good

LEMMA TurnsGood ==
  ASSUME GoodInv, NEW x \in RequestType, Good(x, cmds, writes), NEW y, Turns(x, y)
  PROVE  y \in RequestType /\ Good(y, cmds, writes)
<1>1. CASE y = Idle
  BY <1>1 DEF RequestType, Good
<1>2. CASE y \in CreateType /\ y.entry.version = 1 /\ y.entry.roles # {} /\ Valid(y.entry)
  BY <1>2 DEF RequestType, Good
<1>3. \A c \in Command : Stored(c) =>
        /\ CommandEntry(c).version <= writes
        /\ cmds[c].version > 0
  BY RowEntry DEF GoodInv, Tables, Stored
<1>4. CASE StartsUpdate(y)
  <2>1. y.on \in Command /\ y.stage # "write"
    BY <1>4 DEF StartsUpdate, UpdateType
  <2> QED
    BY <1>3, <1>4, <2>1 DEF StartsUpdate, RequestType, Good
<1>5. CASE StartsExecute(y)
  <2>1. y.on \in Command
    BY <1>5 DEF StartsExecute, ExecuteType
  <2> QED
    BY <1>3, <1>5, <2>1 DEF StartsExecute, RequestType, Good
<1>6. CASE ReadsUpdate(x, y)
  <2>1. y.entry.version = x.entry.version
    <3>1. x.entry \in EntryType
      BY <1>6 DEF ReadsUpdate, UpdateType
    <3> QED
      BY <1>6, <3>1 DEF ReadsUpdate, EntryType
  <2>2. cmds[y.on].version > 0 /\ y.entry.version <= writes
    BY <1>6, <2>1, GoodKinds DEF ReadsUpdate, Same
  <2> QED
    BY <1>6, <2>2 DEF ReadsUpdate, RequestType, Good
<1>7. CASE ReadsExecute(x, y)
  <2>1. y.entry.version = x.entry.version
    <3>1. x.entry \in EntryType
      BY <1>7 DEF ReadsExecute, ExecuteType
    <3> QED
      BY <1>7, <3>1 DEF ReadsExecute, EntryType
  <2>2. cmds[y.on].version > 0 /\ y.entry.version <= writes
    BY <1>7, <2>1, GoodKinds DEF ReadsExecute, Same
  <2> QED
    BY <1>7, <2>2 DEF ReadsExecute, RequestType, Good
<1>8. CASE Applies(x, y)
  <2>1. /\ cmds[y.on].version > 0 /\ x.entry.version <= writes
        /\ x.entry.version \in Nat /\ writes \in Nat /\ writes <= MaxWrites
    <3>1. cmds[y.on].version > 0 /\ x.entry.version <= writes
      BY <1>8, GoodKinds DEF Applies, Same
    <3>2. x.entry.version \in Nat
      BY <1>8, EntryFields DEF Applies, UpdateType
    <3> QED
      BY <3>1, <3>2, BoundsAssumption DEF GoodInv
  <2>2. x.entry.version <= MaxWrites
    BY <2>1, BoundsAssumption
  <2>3. y.entry.version = x.entry.version + 1
    BY <1>8, <2>2, AppliedEntry DEF Applies
  <2>4. y.entry.version <= writes + 1
    BY <2>1, <2>3
  <2>5. y.entry.roles # {} /\ Valid(y.entry)
    BY <1>8 DEF Applies, Accepts
  <2> QED
    BY <1>8, <2>1, <2>4, <2>5 DEF Applies, RequestType, Good
<1>9. CASE StartsBrowse(y)
  <2>1. y.page <= Cardinality(Command)
    BY <1>9, VisibleSize DEF StartsBrowse
  <2> QED
    BY <1>9, <2>1 DEF StartsBrowse, RequestType, Good
<1>10. CASE Counts(x, y)
  <2>1. x \in BrowseType /\ x.page <= Cardinality(Command)
    BY <1>10, GoodKinds DEF Counts
  <2> QED
    BY <1>10, <2>1, CountsGood DEF RequestType, Good
<1>11. CASE Shows(x, y)
  <2>1. x \in BrowseType /\ x.page <= Cardinality(Command)
    BY <1>11, GoodKinds DEF Shows
  <2> QED
    BY <1>11, <2>1, ShowsGood DEF RequestType, Good
<1> QED
  BY <1>1, <1>2, <1>4, <1>5, <1>6, <1>7, <1>8, <1>9, <1>10, <1>11 DEF Turns

\* What a write leaves of a request is in order when no command goes away.
LEMMA NoteGood ==
  ASSUME NEW x \in RequestType, NEW w \in Nat, NEW v \in Nat, w <= v, Good(x, cmds, w),
         NEW what \in {"update", "deactivate"}, NEW c, NEW cs,
         \A d \in Command : cmds[d].version > 0 => cs[d].version > 0
  PROVE  Note(x, what, c, cs) \in RequestType /\ Good(Note(x, what, c, cs), cs, v)
<1> DEFINE y == Note(x, what, c, cs)
<1>1. CASE x = Idle \/ x \in CreateType
  <2>1. y = x
    BY <1>1, NoteOther
  <2>2. x = Idle \/ (x \in CreateType /\ x.entry.version = 1 /\ x.entry.roles # {} /\ Valid(x.entry))
    BY <1>1, GoodKinds
  <2> QED
    BY <2>1, <2>2 DEF Good
<1>2. CASE x \in UpdateType
  <2>1. y \in UpdateType /\ y.on = x.on /\ y.stage = x.stage /\ y.entry = x.entry
    BY <1>2, NoteUpdate
  <2>2. /\ cmds[x.on].version > 0 /\ x.on \in Command /\ x.entry.version \in Nat
        /\ x.entry.version <= IF x.stage = "write" THEN w + 1 ELSE w
        /\ x.stage = "write" => x.entry.roles # {} /\ Valid(x.entry)
    BY <1>2, GoodKinds, EntryFields DEF UpdateType
  <2> HIDE DEF y
  <2>3. y.entry.version <= IF y.stage = "write" THEN v + 1 ELSE v
    BY <2>1, <2>2
  <2>4. y \in RequestType /\ Good(y, cs, v)
    BY <2>1, <2>2, <2>3 DEF RequestType, Good
  <2> QED
    BY <2>4 DEF y
<1>3. CASE x \in ExecuteType
  <2>1. y \in ExecuteType /\ y.on = x.on /\ y.entry = x.entry
    BY <1>3, NoteExecute
  <2>2. /\ cmds[x.on].version > 0 /\ x.on \in Command /\ x.entry.version \in Nat
        /\ x.entry.version <= w
    BY <1>3, GoodKinds, EntryFields DEF ExecuteType
  <2> HIDE DEF y
  <2>3. y.entry.version <= v
    BY <2>1, <2>2
  <2>4. y \in RequestType /\ Good(y, cs, v)
    BY <2>1, <2>2, <2>3 DEF RequestType, Good
  <2> QED
    BY <2>4 DEF y
<1>4. CASE x \in BrowseType
  <2>1. y \in BrowseType /\ y.stage = x.stage /\ y.page = x.page
    BY <1>4, NoteBrowse
  <2>2. x.stage # "done" => x.page <= Cardinality(Command)
    BY <1>4, GoodKinds
  <2> HIDE DEF y
  <2>3. y \in RequestType /\ Good(y, cs, v)
    BY <2>1, <2>2 DEF RequestType, Good
  <2> QED
    BY <2>3 DEF y
<1> QED
  BY <1>1, <1>2, <1>3, <1>4, RequestKinds

\* What a transaction does to the tables, the requests and the history.
LEMMA Transaction ==
  ASSUME GoodInv, NEW q \in Request, NEW c \in Command, NEW e, Stores(q, c, e)
  PROVE  /\ e \in EntryType /\ e.version > 0 /\ e.version <= writes + 1
         /\ e.roles # {} /\ Valid(e)
         /\ writes' = writes + 1 /\ writes' \in 0..MaxWrites
         /\ cmds' \in [Command -> {Absent} \cup EntryType] /\ cmds' = [cmds EXCEPT ![c] = e]
         /\ published' = [published EXCEPT ![c] = published[c] \cup {Content(e)}]
         /\ published' \in [Command -> SUBSET EntryType] /\ overwritten' \subseteq Command
         /\ req' \in [Request -> {req'[p] : p \in Request}]
         /\ \A p \in Request : req'[p] = IF p = q THEN Idle ELSE Note(req[p], "update", c, cmds')
<1>1. /\ req[q] \in CreateType \/ (req[q] \in UpdateType /\ req[q].stage = "write")
      /\ e \in EntryType /\ e.roles # {} /\ Valid(e)
  <2> DEFINE x == req[q]
  <2>1. /\ x \in CreateType \/ (x \in UpdateType /\ x.stage = "write")
        /\ e = x.entry /\ Good(x, cmds, writes)
    BY DEF Stores, GoodInv
  <2> HIDE DEF x
  <2>2. e \in EntryType
    BY <2>1 DEF CreateType, UpdateType
  <2>3. e.roles # {} /\ Valid(e)
    BY <2>1, GoodKinds
  <2> QED
    BY <2>1, <2>2, <2>3 DEF x
<1>2. writes \in Nat /\ MaxWrites \in Nat /\ e.version \in Nat /\ e.version > 0
  BY <1>1, EntryFields, AbsentIsNoEntry, BoundsAssumption DEF GoodInv
<1>3. e.version <= writes + 1
  <2> DEFINE x == req[q]
  <2>1. e = x.entry /\ Good(x, cmds, writes)
    BY DEF Stores, GoodInv
  <2> HIDE DEF x
  <2>2. x \in CreateType => e.version = 1
    BY <2>1, GoodKinds
  <2>3. x \in UpdateType /\ x.stage = "write" => e.version <= writes + 1
    BY <2>1, GoodKinds
  <2> QED
    BY <1>1, <1>2, <2>2, <2>3 DEF x
<1>4. writes' = writes + 1 /\ writes' \in 0..MaxWrites
  BY <1>2 DEF Stores, Store
<1>5. /\ cmds' = [cmds EXCEPT ![c] = e]
      /\ published' = [published EXCEPT ![c] = published[c] \cup {Content(e)}]
      /\ req' = Noted(End(q), "update", c, cmds')
  BY DEF Stores, Store, Replaced
<1>6. cmds' \in [Command -> {Absent} \cup EntryType] /\ published' \in [Command -> SUBSET EntryType]
  BY <1>1, <1>5, ContentEntry DEF GoodInv, Tables
<1>7. overwritten' \subseteq Command
  BY DEF Stores, GoodInv
<1>8. \A p \in Request : End(q)[p] = IF p = q THEN Idle ELSE req[p]
  BY DEF End, GoodInv
<1>9. Note(Idle, "update", c, cmds') = Idle
  BY NoteOther
<1>10. \A p \in Request : req'[p] = IF p = q THEN Idle ELSE Note(req[p], "update", c, cmds')
  <2> TAKE p \in Request
  <2>1. Noted(End(q), "update", c, cmds')[p] = Note(End(q)[p], "update", c, cmds')
    BY NotedIsNote
  <2> QED
    BY <1>5, <1>8, <1>9, <2>1
<1>11. req' \in [Request -> {req'[p] : p \in Request}]
  BY <1>5 DEF Noted
<1> QED
  BY <1>1, <1>2, <1>3, <1>4, <1>5, <1>6, <1>7, <1>10, <1>11

LEMMA Deactivated ==
  ASSUME GoodInv, NEW c \in Command, DeactivateCommand(c)
  PROVE  /\ cmds[c] \in EntryType /\ cmds' = [cmds EXCEPT ![c] = cmds'[c]]
         /\ cmds'[c] \in EntryType /\ cmds'[c].active = FALSE
         /\ \A f \in Columns \ {"active"} : cmds'[c][f] = cmds[c][f]
         /\ Content(cmds'[c]) = Content(cmds[c])
         /\ writes' = writes + 1 /\ writes' \in 0..MaxWrites
         /\ UNCHANGED <<published, overwritten>>
         /\ req' \in [Request -> {req'[p] : p \in Request}]
         /\ \A p \in Request : req'[p] = Note(req[p], "deactivate", c, cmds')
<1>1. cmds[c] \in EntryType
  BY StoredEntry DEF DeactivateCommand, GoodInv, Tables, Stored
<1> DEFINE e == cmds[c]
           d == [e EXCEPT !.active = FALSE]
<1>2. cmds' = [cmds EXCEPT ![c] = d]
  BY DEF DeactivateCommand
<1>3. cmds'[c] = d /\ cmds' = [cmds EXCEPT ![c] = cmds'[c]]
  BY <1>2 DEF GoodInv, Tables
<1> HIDE DEF e
<1>4. /\ d \in EntryType /\ d.active = FALSE
      /\ \A f \in Columns \ {"active"} : d[f] = e[f]
  BY <1>1 DEF EntryType, Columns, e
<1>5. Content(d) = Content(e)
  <2>1. /\ Content(d) \in EntryType /\ Content(e) \in EntryType
        /\ Content(d).active = Content(e).active
        /\ \A f \in Columns \ {"active"} : Content(d)[f] = Content(e)[f]
    <3>1. d \in EntryType /\ e \in EntryType /\ \A f \in Columns \ {"active"} : d[f] = e[f]
      BY <1>1, <1>4 DEF e
    <3> HIDE DEF d
    <3>2. /\ Content(d) \in EntryType /\ Content(d).active = TRUE
          /\ \A f \in Columns \ {"active"} : Content(d)[f] = d[f]
      BY <3>1, ContentEntry
    <3>3. /\ Content(e) \in EntryType /\ Content(e).active = TRUE
          /\ \A f \in Columns \ {"active"} : Content(e)[f] = e[f]
      BY <3>1, ContentEntry
    <3> QED
      BY <3>1, <3>2, <3>3
  <2> HIDE DEF d
  <2> DEFINE a == Content(d)
             b == Content(e)
  <2>2. a.active = b.active /\ \A f \in Columns \ {"active"} : a[f] = b[f]
    BY <2>1
  <2> HIDE DEF a, b
  <2>3. \A f \in Columns : a[f] = b[f]
    BY <2>2 DEF Columns
  <2> QED
    BY <2>1, <2>3, EntryEqual DEF a, b
<1>6. writes' = writes + 1 /\ writes' \in 0..MaxWrites
  BY BoundsAssumption DEF DeactivateCommand, GoodInv
<1>7. UNCHANGED <<published, overwritten>> /\ req' = Noted(req, "deactivate", c, cmds')
  BY DEF DeactivateCommand
<1>8. \A p \in Request : req'[p] = Note(req[p], "deactivate", c, cmds')
  BY <1>7, NotedIsNote
<1>9. req' \in [Request -> {req'[p] : p \in Request}]
  BY <1>7 DEF Noted
<1> HIDE DEF d
<1> QED
  BY <1>1, <1>3, <1>4, <1>5, <1>6, <1>7, <1>8, <1>9 DEF e

LEMMA GoodInit ==
  ASSUME Init
  PROVE  GoodInv
<1>1. cmds \in [Command -> {Absent} \cup EntryType] /\ \A c \in Command : ~(cmds[c].version > 0)
  BY AbsentIsNoEntry DEF Init
<1>2. Tables(cmds, writes)
  BY <1>1 DEF Tables
<1>3. req \in [Request -> RequestType] /\ \A q \in Request : req[q] = Idle
  BY DEF Init, RequestType
<1>4. writes \in 0..MaxWrites
  BY BoundsAssumption DEF Init
<1>5. published \in [Command -> SUBSET EntryType] /\ overwritten \subseteq Command
  BY DEF Init
<1> QED
  BY <1>2, <1>3, <1>4, <1>5 DEF GoodInv, Good

LEMMA GoodLocal ==
  ASSUME GoodInv, NEW q \in Request, Local(q)
  PROVE  GoodInv'
<1>1. PICK y : Turns(req[q], y) /\ req' = [req EXCEPT ![q] = y]
  BY DEF Local
<1>2. UNCHANGED <<cmds, published, overwritten, writes>>
  BY DEF Local
<1>3. y \in RequestType /\ Good(y, cmds, writes)
  BY <1>1, TurnsGood DEF GoodInv
<1>4. /\ req' \in [Request -> RequestType]
      /\ \A p \in Request : Good(req'[p], cmds, writes)
  BY <1>1, <1>3 DEF GoodInv
<1> QED
  BY <1>2, <1>4 DEF GoodInv

LEMMA GoodStore ==
  ASSUME GoodInv, NEW q \in Request, NEW c \in Command, Stores(q, c, req[q].entry)
  PROVE  GoodInv'
<1> DEFINE e == req[q].entry
<1>1. Stores(q, c, e)
  OBVIOUS
<1> HIDE DEF e
<1>2. /\ e \in EntryType /\ e.version > 0 /\ e.version <= writes + 1
      /\ e.roles # {} /\ Valid(e)
      /\ writes' = writes + 1 /\ writes' \in 0..MaxWrites
      /\ cmds' \in [Command -> {Absent} \cup EntryType] /\ cmds' = [cmds EXCEPT ![c] = e]
      /\ published' \in [Command -> SUBSET EntryType] /\ overwritten' \subseteq Command
      /\ req' \in [Request -> {req'[p] : p \in Request}]
      /\ \A p \in Request : req'[p] = IF p = q THEN Idle ELSE Note(req[p], "update", c, cmds')
  BY <1>1, Transaction
<1>3. \A d \in Command : cmds'[d] = IF d = c THEN e ELSE cmds[d]
  BY <1>2 DEF GoodInv, Tables
<1>4. writes \in Nat
  BY DEF GoodInv
<1>5. \A d \in Command : cmds'[d].version > 0 =>
        cmds'[d].version <= writes' /\ cmds'[d].roles # {} /\ Runnable(cmds'[d])
  <2> SUFFICES ASSUME NEW d \in Command, cmds'[d].version > 0
               PROVE  cmds'[d].version <= writes' /\ cmds'[d].roles # {} /\ Runnable(cmds'[d])
    OBVIOUS
  <2>1. CASE d = c
    BY <1>2, <1>3, <2>1, ValidIsRunnable
  <2>2. CASE d # c
    <3>1. cmds[d].version \in Nat /\ cmds[d].version <= writes /\ cmds[d].roles # {} /\ Runnable(cmds[d])
      BY <1>3, <2>2, StoredEntry, EntryFields DEF GoodInv, Tables
    <3> QED
      BY <1>2, <1>3, <1>4, <2>2, <3>1
  <2> QED
    BY <2>1, <2>2
<1>6. \A d \in Command \ {c} : cmds[d].version > 0 => cmds[d].name # e.name
  <2>1. Named(e.name) \ {c} = {}
    BY <1>1 DEF Stores
  <2> QED
    BY <2>1 DEF Named, Stored
<1>7. \A a, b \in Command :
        cmds'[a].version > 0 /\ cmds'[b].version > 0 /\ cmds'[a].name = cmds'[b].name => a = b
  BY <1>3, <1>6 DEF GoodInv, Tables
<1>8. Tables(cmds', writes')
  BY <1>2, <1>5, <1>7 DEF Tables
<1>9. \A p \in Request : req'[p] \in RequestType /\ Good(req'[p], cmds', writes')
  <2> TAKE p \in Request
  <2>1. CASE p = q
    BY <1>2, <2>1 DEF RequestType, Good
  <2>2. CASE p # q
    <3>1. \A d \in Command : cmds[d].version > 0 => cmds'[d].version > 0
      BY <1>2, <1>3
    <3>2. writes \in Nat /\ writes' \in Nat /\ writes <= writes'
      BY <1>2, <1>4
    <3>3. req[p] \in RequestType /\ Good(req[p], cmds, writes)
      BY DEF GoodInv
    <3>4. /\ Note(req[p], "update", c, cmds') \in RequestType
          /\ Good(Note(req[p], "update", c, cmds'), cmds', writes')
      BY <3>1, <3>2, <3>3, NoteGood
    <3> QED
      BY <1>2, <2>2, <3>4
  <2> QED
    BY <2>1, <2>2
<1>10. req' \in [Request -> RequestType]
  BY <1>2, <1>9
<1> QED
  BY <1>2, <1>8, <1>9, <1>10 DEF GoodInv

LEMMA GoodDeactivate ==
  ASSUME GoodInv, NEW c \in Command, DeactivateCommand(c)
  PROVE  GoodInv'
<1> DEFINE e == cmds'[c]
<1>1. /\ cmds[c] \in EntryType /\ cmds' = [cmds EXCEPT ![c] = e] /\ e \in EntryType
      /\ \A f \in Columns \ {"active"} : e[f] = cmds[c][f]
      /\ writes' = writes + 1 /\ writes' \in 0..MaxWrites
      /\ UNCHANGED <<published, overwritten>>
      /\ req' \in [Request -> {req'[p] : p \in Request}]
      /\ \A p \in Request : req'[p] = Note(req[p], "deactivate", c, cmds')
  BY Deactivated
<1> HIDE DEF e
<1>2. \A d \in Command : cmds'[d] = IF d = c THEN e ELSE cmds[d]
  BY <1>1 DEF GoodInv, Tables
<1>3. /\ e.version = cmds[c].version /\ e.roles = cmds[c].roles /\ e.name = cmds[c].name
      /\ e.mode = cmds[c].mode /\ e.command = cmds[c].command /\ e.target = cmds[c].target
      /\ e.image = cmds[c].image /\ e.timeout = cmds[c].timeout
  BY <1>1 DEF Columns
<1>4. writes \in Nat /\ cmds[c].version > 0
  BY DEF GoodInv, DeactivateCommand, Stored
<1>5. \A d \in Command : cmds'[d].version > 0 =>
        cmds'[d].version <= writes' /\ cmds'[d].roles # {} /\ Runnable(cmds'[d])
  <2> SUFFICES ASSUME NEW d \in Command, cmds'[d].version > 0
               PROVE  cmds'[d].version <= writes' /\ cmds'[d].roles # {} /\ Runnable(cmds'[d])
    OBVIOUS
  <2>1. cmds'[d].version = cmds[d].version /\ cmds'[d].roles = cmds[d].roles
    BY <1>2, <1>3
  <2>2. cmds[d].version \in Nat /\ cmds[d].version <= writes /\ cmds[d].roles # {} /\ Runnable(cmds[d])
    BY <2>1, StoredEntry, EntryFields DEF GoodInv, Tables
  <2>3. Runnable(cmds'[d])
    <3>1. CASE d = c
      BY <1>2, <1>3, <2>2, <3>1 DEF Runnable
    <3>2. CASE d # c
      BY <1>2, <2>2, <3>2
    <3> QED
      BY <3>1, <3>2
  <2> QED
    BY <1>1, <1>4, <2>1, <2>2, <2>3
<1>6. \A d \in Command : cmds'[d].name = cmds[d].name /\ cmds'[d].version = cmds[d].version
  BY <1>2, <1>3
<1>7. \A a, b \in Command :
        cmds'[a].version > 0 /\ cmds'[b].version > 0 /\ cmds'[a].name = cmds'[b].name => a = b
  BY <1>6 DEF GoodInv, Tables
<1>8. cmds' \in [Command -> {Absent} \cup EntryType]
  BY <1>1 DEF GoodInv, Tables
<1>9. Tables(cmds', writes')
  BY <1>5, <1>7, <1>8 DEF Tables
<1>10. \A p \in Request : req'[p] \in RequestType /\ Good(req'[p], cmds', writes')
  <2> TAKE p \in Request
  <2>1. \A d \in Command : cmds[d].version > 0 => cmds'[d].version > 0
    BY <1>6
  <2>2. writes \in Nat /\ writes' \in Nat /\ writes <= writes'
    BY <1>1, <1>4
  <2>3. req[p] \in RequestType /\ Good(req[p], cmds, writes)
    BY DEF GoodInv
  <2>4. /\ Note(req[p], "deactivate", c, cmds') \in RequestType
        /\ Good(Note(req[p], "deactivate", c, cmds'), cmds', writes')
    BY <2>1, <2>2, <2>3, NoteGood
  <2> QED
    BY <1>1, <2>4
<1>11. req' \in [Request -> RequestType]
  BY <1>1, <1>10
<1>12. published' \in [Command -> SUBSET EntryType] /\ overwritten' \subseteq Command
  BY <1>1 DEF GoodInv
<1> QED
  BY <1>1, <1>9, <1>10, <1>11, <1>12 DEF GoodInv

LEMMA GoodStep ==
  ASSUME GoodInv, [Next]_vars
  PROVE  GoodInv'
<1>1. CASE UNCHANGED vars
  BY <1>1 DEF vars, GoodInv
<1>2. CASE Next
  BY <1>2, Moves, GoodLocal, GoodStore, GoodDeactivate
<1> QED
  BY <1>1, <1>2

LEMMA GoodAlways == Spec => []GoodInv
BY GoodInit, GoodStep, PTL DEF Spec

\* A stored command is in order, has a name of its own and can be run in its
\* mode, in every reachable state.
THEOREM TypeCorrect == Spec => []TypeOK
<1>1. ASSUME GoodInv PROVE TypeOK
  <2>1. \A c \in Command : cmds[c] = Absent \/ cmds[c] \in EntryType
    BY <1>1 DEF GoodInv, Tables
  <2>2. \A c \in Command :
          Stored(c) => Named(cmds[c].name) = {c} /\ cmds[c].roles # {} /\ Runnable(cmds[c])
    BY <1>1 DEF GoodInv, Tables, Stored, Named
  <2> QED
    BY <1>1, <2>1, <2>2 DEF GoodInv, TypeOK
<1> QED
  BY <1>1, GoodAlways, PTL

-----------------------------------------------------------------------------
(* Versions *)

\* Which turns a request of a kind can have come from.
LEMMA TurnKinds ==
  ASSUME NEW x, NEW y, Turns(x, y)
  PROVE  /\ y \in UpdateType => StartsUpdate(y) \/ ReadsUpdate(x, y) \/ Applies(x, y)
         /\ y \in ExecuteType => StartsExecute(y) \/ ReadsExecute(x, y)
         /\ y \in BrowseType => StartsBrowse(y) \/ Counts(x, y) \/ Shows(x, y)
<1>1. /\ \A z \in CreateType : z.op = "create"
      /\ \A z \in UpdateType : z.op = "update"
      /\ \A z \in ExecuteType : z.op = "execute"
      /\ \A z \in BrowseType : z.op = "browse"
      /\ Idle.op = "none"
  BY DEF CreateType, UpdateType, ExecuteType, BrowseType, Idle
<1>2. Counts(x, y) => y.op = "browse"
  BY DEF Counts, BrowseType
<1>3. Shows(x, y) => y.op = "browse"
  BY DEF Shows, BrowseType
<1> QED
  BY <1>1, <1>2, <1>3
  DEF Turns, StartsUpdate, ReadsUpdate, Applies, StartsExecute, ReadsExecute, StartsBrowse

\* A write leaves a request of its kind.
LEMMA NoteKinds ==
  ASSUME NEW x \in RequestType, NEW what \in {"update", "deactivate"}, NEW c, NEW cs
  PROVE  /\ Note(x, what, c, cs) \in UpdateType => x \in UpdateType
         /\ Note(x, what, c, cs) \in ExecuteType => x \in ExecuteType
         /\ Note(x, what, c, cs) \in BrowseType => x \in BrowseType
<1>1. /\ \A z \in CreateType : z.op = "create"
      /\ \A z \in UpdateType : z.op = "update"
      /\ \A z \in ExecuteType : z.op = "execute"
      /\ \A z \in BrowseType : z.op = "browse"
      /\ Idle.op = "none"
  BY DEF CreateType, UpdateType, ExecuteType, BrowseType, Idle
<1>2. x = Idle \/ x \in CreateType => Note(x, what, c, cs) = x
  BY NoteOther
<1>3. x \in UpdateType => Note(x, what, c, cs) \in UpdateType
  BY NoteUpdate
<1>4. x \in ExecuteType => Note(x, what, c, cs) \in ExecuteType
  BY NoteExecute
<1>5. x \in BrowseType => Note(x, what, c, cs) \in BrowseType
  BY NoteBrowse
<1> QED
  BY <1>1, <1>2, <1>3, <1>4, <1>5 DEF RequestType

\* An update that missed no other one has the version that is in the table, or
\* the next one.
CopyVersion(x, cs) ==
  x \in UpdateType /\ "update" \notin x.missed =>
    x.entry.version = IF x.stage = "write" THEN cs[x.on].version + 1 ELSE cs[x.on].version

\* What was published under c, of which e is in the table.
History(e, contents, over) ==
  /\ IsFiniteSet(contents)
  /\ e.version = 0 => contents = {}
  /\ e.version > 0 => Content(e) \in contents
  /\ e.version > 0 /\ ~over =>
       /\ {d.version : d \in contents} = 1..e.version
       /\ Cardinality(contents) = e.version

VersionInv ==
  /\ \A q \in Request : CopyVersion(req[q], cmds)
  /\ \A c \in Command : History(cmds[c], published[c], c \in overwritten)

LEMMA VersionInit ==
  ASSUME Init
  PROVE  VersionInv
<1>1. \A q \in Request : CopyVersion(req[q], cmds)
  BY DEF Init, CopyVersion, Idle, UpdateType
<1>2. \A c \in Command : cmds[c].version = 0 /\ published[c] = {}
  BY DEF Init, Absent
<1> QED
  BY <1>1, <1>2, FS_EmptySet DEF VersionInv, History

LEMMA VersionLocal ==
  ASSUME GoodInv, VersionInv, NEW q \in Request, Local(q)
  PROVE  VersionInv'
<1>1. PICK y : Turns(req[q], y) /\ req' = [req EXCEPT ![q] = y]
  BY DEF Local
<1>2. UNCHANGED <<cmds, published, overwritten, writes>>
  BY DEF Local
<1> DEFINE x == req[q]
<1>3. CopyVersion(x, cmds)
  BY DEF VersionInv
<1>4. CopyVersion(y, cmds)
  <2> SUFFICES ASSUME y \in UpdateType, "update" \notin y.missed PROVE CopyVersion(y, cmds)
    BY DEF CopyVersion
  <2>1. CASE StartsUpdate(y)
    <3>1. y.on \in Command
      BY DEF UpdateType
    <3>2. CommandEntry(y.on).version = cmds[y.on].version
      BY <2>1, <3>1, RowEntry DEF StartsUpdate
    <3> QED
      BY <2>1, <3>2 DEF StartsUpdate, CopyVersion
  <2>2. CASE ReadsUpdate(x, y)
    <3>1. y.entry.version = x.entry.version
      <4>1. x.entry \in EntryType
        BY <2>2 DEF ReadsUpdate, UpdateType
      <4> QED
        BY <2>2, <4>1 DEF ReadsUpdate, EntryType
    <3> QED
      BY <1>3, <2>2, <3>1 DEF ReadsUpdate, Same, CopyVersion
  <2>3. CASE Applies(x, y)
    <3>1. x \in UpdateType /\ x.stage = "ready" /\ Good(x, cmds, writes) /\ writes \in 0..MaxWrites
      BY <2>3 DEF Applies, GoodInv
    <3>2. x.entry.version <= writes /\ x.entry.version \in Nat
      BY <3>1, GoodKinds, EntryFields DEF UpdateType
    <3>3. x.entry.version <= MaxWrites
      BY <3>1, <3>2, BoundsAssumption
    <3>4. y.entry.version = x.entry.version + 1
      BY <2>3, <3>1, <3>3, AppliedEntry DEF Applies
    <3> QED
      BY <1>3, <2>3, <3>4 DEF Applies, Same, CopyVersion
  <2> QED
    BY <1>1, <2>1, <2>2, <2>3, TurnKinds
<1>5. \A p \in Request : CopyVersion(req'[p], cmds)
  BY <1>1, <1>4 DEF VersionInv, GoodInv
<1> QED
  BY <1>2, <1>5 DEF VersionInv

\* A new version, that of no content before it, is one content more.
LEMMA OneMore ==
  ASSUME NEW contents, NEW d, NEW v \in Nat, IsFiniteSet(contents),
         {e.version : e \in contents} = 1..v, Cardinality(contents) = v, d.version = v + 1
  PROVE  /\ {e.version : e \in contents \cup {d}} = 1..(v + 1)
         /\ Cardinality(contents \cup {d}) = v + 1
<1>1. d \notin contents
  <2>1. d \in contents => d.version \in 1..v
    OBVIOUS
  <2> QED
    BY <2>1
<1>2. Cardinality(contents \cup {d}) = v + 1
  BY <1>1, FS_AddElement
<1>3. {e.version : e \in contents \cup {d}} = {e.version : e \in contents} \cup {d.version}
  OBVIOUS
<1>4. 1..(v + 1) = (1..v) \cup {v + 1}
  OBVIOUS
<1> QED
  BY <1>2, <1>3, <1>4

LEMMA VersionStore ==
  ASSUME GoodInv, VersionInv, NEW q \in Request, NEW c \in Command, Stores(q, c, req[q].entry)
  PROVE  VersionInv'
<1> DEFINE e == req[q].entry
<1>1. Stores(q, c, e)
  OBVIOUS
<1> HIDE DEF e
<1>2. /\ e \in EntryType /\ e.version > 0
      /\ cmds' = [cmds EXCEPT ![c] = e]
      /\ published' = [published EXCEPT ![c] = published[c] \cup {Content(e)}]
      /\ \A p \in Request : req'[p] = IF p = q THEN Idle ELSE Note(req[p], "update", c, cmds')
  BY <1>1, Transaction
<1>3. /\ \A d \in Command : cmds'[d] = IF d = c THEN e ELSE cmds[d]
      /\ \A d \in Command : published'[d] = IF d = c THEN published[c] \cup {Content(e)} ELSE published[d]
  BY <1>2 DEF GoodInv, Tables
<1>4. \A p \in Request : CopyVersion(req'[p], cmds')
  <2> TAKE p \in Request
  <2>1. CASE p = q
    BY <1>2, <2>1 DEF CopyVersion, Idle, UpdateType
  <2>2. CASE p # q
    <3> DEFINE x == req[p]
               y == req'[p]
    <3> SUFFICES ASSUME y \in UpdateType, "update" \notin y.missed PROVE CopyVersion(y, cmds')
      BY DEF CopyVersion
    <3>1. x \in RequestType /\ y = Note(x, "update", c, cmds')
      BY <1>2, <2>2 DEF GoodInv
    <3> HIDE DEF x, y
    <3>2. x \in UpdateType
      BY <3>1, NoteKinds
    <3>3. y = x /\ x.on # c /\ x.on \in Command
      <4>1. IF x.on = c THEN "update" \in y.missed ELSE y = x
        BY <3>1, <3>2, NoteUpdate
      <4> QED
        BY <3>2, <4>1 DEF UpdateType
    <3>4. CopyVersion(x, cmds)
      BY DEF VersionInv, x
    <3> QED
      BY <1>3, <3>3, <3>4 DEF CopyVersion
  <2> QED
    BY <2>1, <2>2
<1>5. \A d \in Command : c # d => (d \in overwritten' <=> d \in overwritten)
  BY <1>1 DEF Stores
<1>6. \A d \in Command \ {c} : History(cmds'[d], published'[d], d \in overwritten')
  <2> TAKE d \in Command \ {c}
  <2>1. History(cmds[d], published[d], d \in overwritten)
    BY DEF VersionInv
  <2>2. cmds'[d] = cmds[d] /\ published'[d] = published[d]
    BY <1>3
  <2> QED
    BY <1>5, <2>1, <2>2 DEF History
<1>7. History(e, published[c] \cup {Content(e)}, c \in overwritten')
  <2> DEFINE contents == published[c]
             v == cmds[c].version
             d == Content(e)
  <2>1. /\ IsFiniteSet(contents) /\ (v = 0 => contents = {})
        /\ v > 0 /\ c \notin overwritten =>
             {k.version : k \in contents} = 1..v /\ Cardinality(contents) = v
    BY DEF VersionInv, History
  <2>2. d.version = e.version
    BY <1>2, ContentEntry
  <2>3. v \in Nat
    BY EntryFields DEF GoodInv, Tables, Absent
  <2>4. c \notin overwritten' => c \notin overwritten /\ e.version = v + 1
    <3> SUFFICES ASSUME c \notin overwritten' PROVE c \notin overwritten /\ e.version = v + 1
      OBVIOUS
    <3> DEFINE x == req[q]
    <3>1. CASE x \in CreateType /\ ~Stored(c) /\ overwritten' = overwritten
      <4>1. e.version = 1
        BY <3>1, GoodKinds DEF GoodInv, e
      <4>2. v = 0
        BY <2>3, <3>1 DEF Stored
      <4> QED
        BY <3>1, <4>1, <4>2
    <3>2. CASE /\ x \in UpdateType /\ x.stage = "write" /\ x.on = c
               /\ overwritten' = overwritten \cup IF "update" \in x.missed THEN {c} ELSE {}
      <4>1. "update" \notin x.missed /\ c \notin overwritten
        BY <3>2
      <4>2. CopyVersion(x, cmds)
        BY DEF VersionInv
      <4>3. x.entry.version = v + 1
        BY <3>2, <4>1, <4>2 DEF CopyVersion
      <4> QED
        BY <4>1, <4>3 DEF e
    <3> QED
      BY <1>1, <3>1, <3>2 DEF Stores
  <2>5. v = 0 => {k.version : k \in contents} = 1..v /\ Cardinality(contents) = v
    BY <2>1, FS_EmptySet
  <2> HIDE DEF contents, v, d
  <2>6. c \notin overwritten' => /\ {k.version : k \in contents \cup {d}} = 1..e.version
                                 /\ Cardinality(contents \cup {d}) = e.version
    <3> SUFFICES ASSUME c \notin overwritten'
                 PROVE  /\ {k.version : k \in contents \cup {d}} = 1..e.version
                        /\ Cardinality(contents \cup {d}) = e.version
      OBVIOUS
    <3>1. e.version = v + 1 /\ d.version = v + 1
      BY <2>2, <2>4
    <3>2. {k.version : k \in contents} = 1..v /\ Cardinality(contents) = v
      BY <2>1, <2>3, <2>4, <2>5
    <3>3. /\ {k.version : k \in contents \cup {d}} = 1..(v + 1)
          /\ Cardinality(contents \cup {d}) = v + 1
      BY <2>1, <2>3, <3>1, <3>2, OneMore
    <3> QED
      BY <3>1, <3>3
  <2>7. IsFiniteSet(contents \cup {d})
    BY <2>1, FS_AddElement
  <2>8. e.version # 0 /\ d \in contents \cup {d}
    BY <1>2, EntryFields
  <2> QED
    BY <2>6, <2>7, <2>8 DEF History, contents, d
<1>8. History(cmds'[c], published'[c], c \in overwritten')
  BY <1>3, <1>7
<1>9. \A d \in Command : History(cmds'[d], published'[d], d \in overwritten')
  BY <1>6, <1>8
<1> QED
  BY <1>4, <1>9 DEF VersionInv

LEMMA VersionDeactivate ==
  ASSUME GoodInv, VersionInv, NEW c \in Command, DeactivateCommand(c)
  PROVE  VersionInv'
<1> DEFINE e == cmds'[c]
<1>1. /\ cmds[c] \in EntryType /\ cmds' = [cmds EXCEPT ![c] = e] /\ e \in EntryType
      /\ \A f \in Columns \ {"active"} : e[f] = cmds[c][f]
      /\ Content(e) = Content(cmds[c])
      /\ UNCHANGED <<published, overwritten>>
      /\ \A p \in Request : req'[p] = Note(req[p], "deactivate", c, cmds')
  BY Deactivated
<1> HIDE DEF e
<1>2. \A d \in Command : cmds'[d] = IF d = c THEN e ELSE cmds[d]
  BY <1>1 DEF GoodInv, Tables
<1>3. e.version = cmds[c].version
  BY <1>1 DEF Columns
<1>4. \A d \in Command : cmds'[d].version = cmds[d].version
  BY <1>2, <1>3
<1>5. \A p \in Request : CopyVersion(req'[p], cmds')
  <2> TAKE p \in Request
  <2> DEFINE x == req[p]
             y == req'[p]
  <2> SUFFICES ASSUME y \in UpdateType, "update" \notin y.missed PROVE CopyVersion(y, cmds')
    BY DEF CopyVersion
  <2>1. x \in RequestType /\ y = Note(x, "deactivate", c, cmds')
    BY <1>1 DEF GoodInv
  <2> HIDE DEF x, y
  <2>2. x \in UpdateType
    BY <2>1, NoteKinds
  <2>3. y.on = x.on /\ y.stage = x.stage /\ y.entry = x.entry /\ x.missed \subseteq y.missed
    BY <2>1, <2>2, NoteUpdate
  <2>4. CopyVersion(x, cmds) /\ x.on \in Command
    BY <2>2 DEF VersionInv, x, UpdateType
  <2> QED
    BY <1>4, <2>2, <2>3, <2>4 DEF CopyVersion
<1>6. \A d \in Command : History(cmds'[d], published'[d], d \in overwritten')
  <2> TAKE d \in Command
  <2>1. History(cmds[d], published[d], d \in overwritten)
    BY DEF VersionInv
  <2>2. published'[d] = published[d] /\ overwritten' = overwritten
    BY <1>1
  <2>3. Content(cmds'[d]) = Content(cmds[d])
    BY <1>1, <1>2
  <2> QED
    BY <1>4, <2>1, <2>2, <2>3 DEF History
<1> QED
  BY <1>5, <1>6 DEF VersionInv

LEMMA VersionAlways == Spec => []VersionInv
<1>1. ASSUME GoodInv, VersionInv, [Next]_vars PROVE VersionInv'
  <2>1. CASE UNCHANGED vars
    BY <1>1, <2>1 DEF vars, VersionInv
  <2>2. CASE Next
    BY <1>1, <2>2, Moves, VersionLocal, VersionStore, VersionDeactivate
  <2> QED
    BY <1>1, <2>1, <2>2
<1> QED
  BY <1>1, VersionInit, GoodAlways, PTL DEF Spec

\* The versions of a command that no update has overwritten from an old copy
\* are 1, 2, ... up to its own, each of one content.
THEOREM VersionsNameContents == Spec => []VersionsTell
<1>1. ASSUME VersionInv PROVE VersionsTell
  BY <1>1 DEF VersionInv, History, VersionsTell, Stored
<1> QED
  BY <1>1, VersionAlways, PTL

-----------------------------------------------------------------------------
(* Executions *)

\* An execution that missed no update: the row it read, without the roles, is
\* in the table; once it has the roles, the whole was published.
ReadOf(x, cs, contents) ==
  x \in ExecuteType /\ "update" \notin x.missed =>
    IF x.stage = "roles"
    THEN \A f \in Columns \ {"roles", "active"} : x.entry[f] = cs[x.on][f]
    ELSE Content(x.entry) \in contents[x.on] /\ x.as \cap x.entry.roles # {}

ReadInv == \A q \in Request : ReadOf(req[q], cmds, published)

LEMMA ReadLocal ==
  ASSUME GoodInv, VersionInv, ReadInv, NEW q \in Request, Local(q)
  PROVE  ReadInv'
<1>1. PICK y : Turns(req[q], y) /\ req' = [req EXCEPT ![q] = y]
  BY DEF Local
<1>2. UNCHANGED <<cmds, published, overwritten, writes>>
  BY DEF Local
<1> DEFINE x == req[q]
<1>3. ReadOf(x, cmds, published)
  BY DEF ReadInv
<1>4. ReadOf(y, cmds, published)
  <2> SUFFICES ASSUME y \in ExecuteType, "update" \notin y.missed PROVE ReadOf(y, cmds, published)
    BY DEF ReadOf
  <2>1. CASE StartsExecute(y)
    <3>1. y.on \in Command
      BY DEF ExecuteType
    <3>2. \A f \in Columns \ {"roles"} : CommandEntry(y.on)[f] = cmds[y.on][f]
      BY <2>1, <3>1, RowEntry DEF StartsExecute
    <3> QED
      BY <2>1, <3>2 DEF StartsExecute, ReadOf
  <2>2. CASE ReadsExecute(x, y)
    <3> DEFINE row == x.entry
               e == y.entry
               here == cmds[y.on]
    <3>1. /\ x \in ExecuteType /\ x.on = y.on /\ x.missed = y.missed /\ x.stage = "roles"
          /\ y.stage = "ready" /\ e = [row EXCEPT !.roles = here.roles]
          /\ y.as \cap e.roles # {} /\ row \in EntryType /\ y.on \in Command
      BY <2>2 DEF ReadsExecute, Same, ExecuteType
    <3>2. here \in EntryType /\ Content(here) \in published[y.on]
      <4>1. here.version > 0
        BY <3>1, GoodKinds DEF GoodInv
      <4>2. here \in EntryType
        BY <3>1, <4>1, StoredEntry DEF GoodInv, Tables
      <4> QED
        BY <3>1, <4>1, <4>2 DEF VersionInv, History
    <3>3. \A f \in Columns \ {"roles", "active"} : row[f] = here[f]
      BY <1>3, <3>1 DEF ReadOf
    <3> HIDE DEF row, e, here
    <3>4. here.roles \in SUBSET Role
      BY <3>2, EntryFields
    <3>5. e \in EntryType /\ e.roles = here.roles /\ \A f \in Columns \ {"roles"} : e[f] = row[f]
      BY <3>1, <3>4, RolesEntry
    <3>6. \A f \in Columns \ {"active"} : e[f] = here[f]
      BY <3>3, <3>5 DEF Columns
    <3> DEFINE a == Content(e)
               b == Content(here)
    <3>7. /\ a \in EntryType /\ b \in EntryType /\ a.active = TRUE /\ b.active = TRUE
          /\ \A f \in Columns \ {"active"} : a[f] = e[f] /\ b[f] = here[f]
      BY <3>2, <3>5, ContentEntry
    <3> HIDE DEF a, b
    <3>8. \A f \in Columns : a[f] = b[f]
      BY <3>6, <3>7 DEF Columns
    <3>9. a = b
      BY <3>7, <3>8, EntryEqual
    <3> QED
      BY <3>1, <3>2, <3>9 DEF ReadOf, a, b, e
  <2> QED
    BY <1>1, <2>1, <2>2, TurnKinds
<1>5. \A p \in Request : ReadOf(req'[p], cmds, published)
  BY <1>1, <1>4 DEF ReadInv, GoodInv
<1> QED
  BY <1>2, <1>5 DEF ReadInv

LEMMA ReadStore ==
  ASSUME GoodInv, ReadInv, NEW q \in Request, NEW c \in Command, Stores(q, c, req[q].entry)
  PROVE  ReadInv'
<1> DEFINE e == req[q].entry
<1>1. Stores(q, c, e)
  OBVIOUS
<1> HIDE DEF e
<1>2. /\ cmds' = [cmds EXCEPT ![c] = e]
      /\ published' = [published EXCEPT ![c] = published[c] \cup {Content(e)}]
      /\ \A p \in Request : req'[p] = IF p = q THEN Idle ELSE Note(req[p], "update", c, cmds')
  BY <1>1, Transaction
<1>3. /\ \A d \in Command \ {c} : cmds'[d] = cmds[d]
      /\ \A d \in Command : published[d] \subseteq published'[d]
  BY <1>2 DEF GoodInv, Tables
<1>4. \A p \in Request : ReadOf(req'[p], cmds', published')
  <2> TAKE p \in Request
  <2>1. CASE p = q
    BY <1>2, <2>1 DEF ReadOf, Idle, ExecuteType
  <2>2. CASE p # q
    <3> DEFINE x == req[p]
               y == req'[p]
    <3> SUFFICES ASSUME y \in ExecuteType, "update" \notin y.missed PROVE ReadOf(y, cmds', published')
      BY DEF ReadOf
    <3>1. x \in RequestType /\ y = Note(x, "update", c, cmds')
      BY <1>2, <2>2 DEF GoodInv
    <3>2. ReadOf(x, cmds, published)
      BY DEF ReadInv
    <3> HIDE DEF x, y
    <3>3. x \in ExecuteType
      BY <3>1, NoteKinds
    <3>4. y = x /\ (x.stage = "roles" => x.on # c) /\ x.on \in Command
      <4>1. IF x.on = c /\ x.stage = "roles" THEN "update" \in y.missed ELSE y = x
        BY <3>1, <3>3, NoteExecute
      <4> QED
        BY <3>3, <4>1 DEF ExecuteType
    <3>5. CASE x.stage = "roles"
      BY <1>3, <3>2, <3>4, <3>5 DEF ReadOf
    <3>6. CASE x.stage # "roles"
      <4>1. Content(x.entry) \in published[x.on] /\ x.as \cap x.entry.roles # {}
        BY <3>2, <3>3, <3>4, <3>6 DEF ReadOf
      <4> QED
        BY <1>3, <3>4, <3>6, <4>1 DEF ReadOf
    <3> QED
      BY <3>5, <3>6
  <2> QED
    BY <2>1, <2>2
<1> QED
  BY <1>4 DEF ReadInv

LEMMA ReadDeactivate ==
  ASSUME GoodInv, ReadInv, NEW c \in Command, DeactivateCommand(c)
  PROVE  ReadInv'
<1> DEFINE e == cmds'[c]
<1>1. /\ cmds' = [cmds EXCEPT ![c] = e]
      /\ \A f \in Columns \ {"active"} : e[f] = cmds[c][f]
      /\ UNCHANGED <<published, overwritten>>
      /\ \A p \in Request : req'[p] = Note(req[p], "deactivate", c, cmds')
  BY Deactivated
<1>2. \A d \in Command : \A f \in Columns \ {"active"} : cmds'[d][f] = cmds[d][f]
  BY <1>1 DEF GoodInv, Tables
<1> HIDE DEF e
<1>3. \A p \in Request : ReadOf(req'[p], cmds', published')
  <2> TAKE p \in Request
  <2> DEFINE x == req[p]
             y == req'[p]
  <2> SUFFICES ASSUME y \in ExecuteType, "update" \notin y.missed PROVE ReadOf(y, cmds', published')
    BY DEF ReadOf
  <2>1. x \in RequestType /\ y = Note(x, "deactivate", c, cmds')
    BY <1>1 DEF GoodInv
  <2>2. ReadOf(x, cmds, published)
    BY DEF ReadInv
  <2> HIDE DEF x, y
  <2>3. x \in ExecuteType
    BY <2>1, NoteKinds
  <2>4. /\ y.on = x.on /\ y.stage = x.stage /\ y.entry = x.entry /\ y.as = x.as
        /\ x.missed \subseteq y.missed /\ x.on \in Command
    BY <2>1, <2>3, NoteExecute DEF ExecuteType
  <2>5. CASE x.stage = "roles"
    <3>1. \A f \in Columns \ {"roles", "active"} : x.entry[f] = cmds[x.on][f]
      BY <2>2, <2>3, <2>4, <2>5 DEF ReadOf
    <3> QED
      BY <1>2, <2>4, <2>5, <3>1 DEF ReadOf
  <2>6. CASE x.stage # "roles"
    <3>1. Content(x.entry) \in published[x.on] /\ x.as \cap x.entry.roles # {}
      BY <2>2, <2>3, <2>4, <2>6 DEF ReadOf
    <3> QED
      BY <1>1, <2>4, <2>6, <3>1 DEF ReadOf
  <2> QED
    BY <2>5, <2>6
<1> QED
  BY <1>3 DEF ReadInv

\* What the executor is handed was published as a whole, and whoever executes
\* it has one of its roles, unless an update came between the two statements
\* that read it.
THEOREM PublishedIsRun == Spec => []RunsWhatWasPublished
<1>1. ASSUME Init PROVE ReadInv
  BY <1>1 DEF Init, ReadInv, ReadOf, Idle, ExecuteType
<1>2. ASSUME GoodInv, VersionInv, ReadInv, [Next]_vars PROVE ReadInv'
  <2>1. CASE UNCHANGED vars
    BY <1>2, <2>1 DEF vars, ReadInv
  <2>2. CASE Next
    BY <1>2, <2>2, Moves, ReadLocal, ReadStore, ReadDeactivate
  <2> QED
    BY <1>2, <2>1, <2>2
<1>3. ASSUME GoodInv, ReadInv PROVE RunsWhatWasPublished
  <2> SUFFICES ASSUME NEW q \in Request, req[q].op = "execute", req[q].stage = "ready",
                      "update" \notin req[q].missed
               PROVE  /\ Content(req[q].entry) \in published[req[q].on]
                      /\ req[q].as \cap req[q].entry.roles # {}
    BY DEF RunsWhatWasPublished
  <2>1. req[q] \in ExecuteType
    BY <1>3, RequestKinds DEF GoodInv
  <2> QED
    BY <1>3, <2>1 DEF ReadInv, ReadOf
<1> QED
  BY <1>1, <1>2, <1>3, GoodAlways, VersionAlways, PTL DEF Spec

-----------------------------------------------------------------------------
(* Deactivation *)

\* A copy that missed no update is active when the command is; one that missed
\* no deactivation, not even one that an update put back, only when it is.
CopyActive(x, cs, over) ==
  x \in UpdateType =>
    /\ "update" \notin x.missed => (cs[x.on].active => x.entry.active)
    /\ "deactivate" \notin x.missed /\ ("update" \notin x.missed \/ x.on \notin over)
         => (x.entry.active => cs[x.on].active)

ActiveInv == \A q \in Request : CopyActive(req[q], cmds, overwritten)

LEMMA ActiveLocal ==
  ASSUME GoodInv, ActiveInv, NEW q \in Request, Local(q)
  PROVE  ActiveInv'
<1>1. PICK y : Turns(req[q], y) /\ req' = [req EXCEPT ![q] = y]
  BY DEF Local
<1>2. UNCHANGED <<cmds, published, overwritten, writes>>
  BY DEF Local
<1> DEFINE x == req[q]
<1>3. CopyActive(x, cmds, overwritten)
  BY DEF ActiveInv
<1>4. CopyActive(y, cmds, overwritten)
  <2> SUFFICES ASSUME y \in UpdateType PROVE CopyActive(y, cmds, overwritten)
    BY DEF CopyActive
  <2>1. CASE StartsUpdate(y)
    <3>1. y.on \in Command
      BY DEF UpdateType
    <3>2. y.entry.active = cmds[y.on].active
      BY <2>1, <3>1, RowEntry DEF StartsUpdate
    <3> QED
      BY <3>2 DEF CopyActive
  <2>2. CASE ReadsUpdate(x, y)
    <3>1. y.entry.active = x.entry.active
      <4>1. x.entry \in EntryType
        BY <2>2 DEF ReadsUpdate, UpdateType
      <4> QED
        BY <2>2, <4>1 DEF ReadsUpdate, EntryType
    <3> QED
      BY <1>3, <2>2, <3>1 DEF ReadsUpdate, Same, CopyActive
  <2>3. CASE Applies(x, y)
    <3>1. x \in UpdateType /\ x.stage = "ready" /\ Good(x, cmds, writes) /\ writes \in 0..MaxWrites
      BY <2>3 DEF Applies, GoodInv
    <3>2. x.entry.version <= writes /\ x.entry.version \in Nat
      BY <3>1, GoodKinds, EntryFields DEF UpdateType
    <3>3. x.entry.version <= MaxWrites
      BY <3>1, <3>2, BoundsAssumption
    <3>4. y.entry.active = x.entry.active
      BY <2>3, <3>1, <3>3, AppliedEntry DEF Applies
    <3> QED
      BY <1>3, <2>3, <3>4 DEF Applies, Same, CopyActive
  <2> QED
    BY <1>1, <2>1, <2>2, <2>3, TurnKinds
<1>5. \A p \in Request : CopyActive(req'[p], cmds, overwritten)
  BY <1>1, <1>4 DEF ActiveInv, GoodInv
<1> QED
  BY <1>2, <1>5 DEF ActiveInv

LEMMA ActiveStore ==
  ASSUME GoodInv, ActiveInv, NEW q \in Request, NEW c \in Command, Stores(q, c, req[q].entry)
  PROVE  ActiveInv'
<1> DEFINE e == req[q].entry
<1>1. Stores(q, c, e)
  OBVIOUS
<1> HIDE DEF e
<1>2. /\ cmds' = [cmds EXCEPT ![c] = e]
      /\ \A p \in Request : req'[p] = IF p = q THEN Idle ELSE Note(req[p], "update", c, cmds')
  BY <1>1, Transaction
<1>3. \A d \in Command : cmds'[d] = IF d = c THEN e ELSE cmds[d]
  BY <1>2 DEF GoodInv, Tables
<1>4. overwritten \subseteq overwritten'
  BY <1>1 DEF Stores
\* Whoever stores c from a copy up to date leaves it active or inactive.
<1>5. Stored(c) /\ c \notin overwritten' => (cmds[c].active => e.active)
  <2> SUFFICES ASSUME Stored(c), c \notin overwritten' PROVE cmds[c].active => e.active
    OBVIOUS
  <2>1. /\ req[q] \in UpdateType /\ req[q].on = c
        /\ overwritten' = overwritten \cup IF "update" \in req[q].missed THEN {c} ELSE {}
    BY <1>1 DEF Stores
  <2>2. "update" \notin req[q].missed
    BY <2>1
  <2> QED
    BY <2>1, <2>2 DEF ActiveInv, CopyActive, e
<1>6. \A p \in Request : CopyActive(req'[p], cmds', overwritten')
  <2> TAKE p \in Request
  <2>1. CASE p = q
    BY <1>2, <2>1 DEF CopyActive, Idle, UpdateType
  <2>2. CASE p # q
    <3> DEFINE x == req[p]
               y == req'[p]
    <3> SUFFICES ASSUME y \in UpdateType PROVE CopyActive(y, cmds', overwritten')
      BY DEF CopyActive
    <3>1. x \in RequestType /\ y = Note(x, "update", c, cmds')
      BY <1>2, <2>2 DEF GoodInv
    <3>2. CopyActive(x, cmds, overwritten) /\ Good(x, cmds, writes)
      BY DEF ActiveInv, GoodInv
    <3> HIDE DEF x, y
    <3>3. x \in UpdateType
      BY <3>1, NoteKinds
    <3>4. /\ y.on = x.on /\ y.entry = x.entry /\ x.missed \subseteq y.missed
          /\ IF x.on = c THEN "update" \in y.missed ELSE y = x
      BY <3>1, <3>3, NoteUpdate
    <3>5. cmds[x.on].version > 0 /\ x.on \in Command
      BY <3>2, <3>3, GoodKinds DEF UpdateType
    <3>6. CASE x.on = c
      <4>1. Stored(c)
        BY <3>5, <3>6 DEF Stored
      <4>2. "deactivate" \notin y.missed /\ y.on \notin overwritten' =>
              (y.entry.active => cmds'[y.on].active)
        BY <1>3, <1>4, <1>5, <3>2, <3>3, <3>4, <3>6, <4>1 DEF CopyActive
      <4> QED
        BY <3>4, <3>6, <4>2 DEF CopyActive
    <3>7. CASE x.on # c
      <4>1. y = x /\ cmds'[x.on] = cmds[x.on]
        BY <1>3, <3>4, <3>5, <3>7
      <4> QED
        BY <1>4, <3>2, <4>1 DEF CopyActive
    <3> QED
      BY <3>6, <3>7
  <2> QED
    BY <2>1, <2>2
<1> QED
  BY <1>6 DEF ActiveInv

LEMMA ActiveDeactivate ==
  ASSUME GoodInv, ActiveInv, NEW c \in Command, DeactivateCommand(c)
  PROVE  ActiveInv'
<1> DEFINE e == cmds'[c]
<1>1. /\ cmds' = [cmds EXCEPT ![c] = e] /\ e.active = FALSE
      /\ UNCHANGED <<published, overwritten>>
      /\ \A p \in Request : req'[p] = Note(req[p], "deactivate", c, cmds')
  BY Deactivated
<1> HIDE DEF e
<1>2. \A d \in Command : cmds'[d] = IF d = c THEN e ELSE cmds[d]
  BY <1>1 DEF GoodInv, Tables
<1>3. \A p \in Request : CopyActive(req'[p], cmds', overwritten)
  <2> TAKE p \in Request
  <2> DEFINE x == req[p]
             y == req'[p]
  <2> SUFFICES ASSUME y \in UpdateType PROVE CopyActive(y, cmds', overwritten)
    BY DEF CopyActive
  <2>1. x \in RequestType /\ y = Note(x, "deactivate", c, cmds')
    BY <1>1 DEF GoodInv
  <2>2. CopyActive(x, cmds, overwritten)
    BY DEF ActiveInv
  <2> HIDE DEF x, y
  <2>3. x \in UpdateType
    BY <2>1, NoteKinds
  <2>4. /\ y.on = x.on /\ y.entry = x.entry /\ x.on \in Command
        /\ IF x.on = c THEN "deactivate" \in y.missed ELSE y = x
    BY <2>1, <2>3, NoteUpdate DEF UpdateType
  <2>5. CASE x.on = c
    BY <1>1, <1>2, <2>4, <2>5 DEF CopyActive
  <2>6. CASE x.on # c
    BY <1>2, <2>2, <2>4, <2>6 DEF CopyActive
  <2> QED
    BY <2>5, <2>6
<1> QED
  BY <1>1, <1>3 DEF ActiveInv

\* No operation activates a command that was deactivated but an update from a
\* copy that is out of date.
THEOREM DeactivationsStand == Spec => DeactivationStands
<1>1. ASSUME Init PROVE ActiveInv
  BY <1>1 DEF Init, ActiveInv, CopyActive, Idle, UpdateType
<1>2. ASSUME GoodInv, ActiveInv, [Next]_vars PROVE ActiveInv'
  <2>1. CASE UNCHANGED vars
    BY <1>2, <2>1 DEF vars, ActiveInv
  <2>2. CASE Next
    BY <1>2, <2>2, Moves, ActiveLocal, ActiveStore, ActiveDeactivate
  <2> QED
    BY <1>2, <2>1, <2>2
<1> DEFINE Stands(c) ==
      Stored(c) /\ ~cmds[c].active /\ cmds'[c].active
        => \E q \in Request :
             /\ req[q].op = "update" /\ req[q].stage = "write" /\ req[q].on = c
             /\ \/ "deactivate" \in req[q].missed
                \/ "update" \in req[q].missed /\ c \in overwritten
<1>3. ASSUME GoodInv, ActiveInv, [Next]_vars, NEW c \in Command PROVE Stands(c)
  <2> SUFFICES ASSUME Stored(c), ~cmds[c].active, cmds'[c].active
               PROVE  \E q \in Request :
                        /\ req[q].op = "update" /\ req[q].stage = "write" /\ req[q].on = c
                        /\ \/ "deactivate" \in req[q].missed
                           \/ "update" \in req[q].missed /\ c \in overwritten
    OBVIOUS
  <2>1. cmds' # cmds
    OBVIOUS
  <2>2. CASE UNCHANGED vars
    BY <2>1, <2>2 DEF vars
  <2>3. CASE \E q \in Request : Local(q)
    BY <2>1, <2>3 DEF Local
  <2>4. CASE \E d \in Command : DeactivateCommand(d)
    <3>1. PICK d \in Command : DeactivateCommand(d)
      BY <2>4
    <3>2. cmds' = [cmds EXCEPT ![d].active = FALSE] /\ cmds \in [Command -> {Absent} \cup EntryType]
      BY <1>3, <3>1 DEF DeactivateCommand, GoodInv, Tables
    <3>3. cmds'[d].active = FALSE
      BY <1>3, <3>1, Deactivated
    <3> QED
      BY <3>2, <3>3
  <2>5. CASE \E q \in Request, d \in Command : Stores(q, d, req[q].entry)
    <3>1. PICK q \in Request, d \in Command : Stores(q, d, req[q].entry)
      BY <2>5
    <3>2. cmds' = [cmds EXCEPT ![d] = req[q].entry] /\ cmds \in [Command -> {Absent} \cup EntryType]
      BY <1>3, <3>1 DEF Stores, Store, Replaced, GoodInv, Tables
    <3>3. d = c /\ req[q].entry.active
      BY <3>2
    <3>4. req[q] \in UpdateType /\ req[q].stage = "write" /\ req[q].on = c /\ req[q].op = "update"
      BY <3>1, <3>3 DEF Stores, UpdateType
    <3>5. CopyActive(req[q], cmds, overwritten)
      BY <1>3 DEF ActiveInv
    <3> QED
      BY <3>3, <3>4, <3>5 DEF CopyActive
  <2> QED
    BY <1>3, <2>2, <2>3, <2>4, <2>5, Moves
<1> HIDE DEF Stands
<1>4. ASSUME GoodInv, ActiveInv, [Next]_vars PROVE [\A c \in Command : Stands(c)]_vars
  BY <1>3, <1>4
<1>5. Spec => [][\A c \in Command : Stands(c)]_vars
  BY <1>1, <1>2, <1>4, GoodAlways, PTL DEF Spec
<1> QED
  BY <1>5, PTL DEF DeactivationStands, Stands

-----------------------------------------------------------------------------
(* Pages *)

LEMMA PlaceType ==
  ASSUME NEW cs, NEW as, NEW c
  PROVE  /\ Place(cs, as, c) \in Nat
         /\ Place(cs, as, c) <= Cardinality(Visible(cs, as))
<1> DEFINE V == Visible(cs, as)
           upto == {d \in V : cs[d].name <= cs[c].name}
<1>1. IsFiniteSet(V)
  BY VisibleSize
<1>2. upto \in SUBSET V
  OBVIOUS
<1>3. Place(cs, as, c) = Cardinality(upto)
  BY DEF Place
<1> HIDE DEF V, upto
<1>4. IsFiniteSet(upto) /\ Cardinality(upto) <= Cardinality(V)
  BY <1>1, <1>2, FS_Subset
<1>5. Cardinality(upto) \in Nat
  BY <1>4, FS_CardinalityType
<1> QED
  BY <1>3, <1>4, <1>5 DEF V

\* A command in the list has a place in it.
LEMMA PlaceOfVisible ==
  ASSUME NEW cs, cs \in [Command -> {Absent} \cup EntryType], NEW as, NEW c \in Visible(cs, as)
  PROVE  Place(cs, as, c) > 0
<1> DEFINE upto == {d \in Visible(cs, as) : cs[d].name <= cs[c].name}
<1>1. cs[c].name \in Nat
  <2>1. c \in Command /\ cs[c].version > 0
    BY DEF Visible
  <2>2. cs[c] \in EntryType
    BY <2>1, StoredEntry
  <2> QED
    BY <2>2, EntryFields, NameAssumption
<1>2. c \in upto
  <2>1. \A n \in Nat : n <= n
    OBVIOUS
  <2>2. cs[c].name <= cs[c].name
    BY <1>1, <2>1, Zenon
  <2> QED
    BY <2>2, Zenon
<1>3. Place(cs, as, c) = Cardinality(upto) /\ IsFiniteSet(upto)
  <2>1. upto \subseteq Visible(cs, as) /\ IsFiniteSet(Visible(cs, as))
    BY VisibleSize
  <2>2. Place(cs, as, c) = Cardinality(upto)
    BY DEF Place
  <2> HIDE DEF upto
  <2> QED
    BY <2>1, <2>2, FS_Subset
<1> HIDE DEF upto
<1>4. Cardinality(upto) # 0
  BY <1>2, <1>3, FS_EmptySet
<1>5. Place(cs, as, c) \in Nat
  BY PlaceType
<1>6. Place(cs, as, c) # 0
  BY <1>3, <1>4
<1>7. \A n \in Nat : n # 0 => n > 0
  OBVIOUS
<1> QED
  BY <1>5, <1>6, <1>7, Zenon

\* A list that is being read, of which no command has moved: what was visible
\* ever since is, and is still to come or was seen; when the rows are read it
\* is in the range of the total.
PagesOf(x, cs) ==
  x \in BrowseType /\ ~x.moved =>
    /\ x.stage # "done" =>
         /\ x.steady \subseteq Visible(cs, x.as)
         /\ \A c \in x.steady \ x.seen : Place(cs, x.as, c) > (x.page - 1) * PageSize
    /\ x.stage = "rows" => \A c \in x.steady : Place(cs, x.as, c) <= x.total
    /\ x.stage = "done" => x.steady \subseteq x.seen

PageInv == \A q \in Request : PagesOf(req[q], cmds)

LEMMA PagesStart ==
  ASSUME GoodInv, NEW y, StartsBrowse(y)
  PROVE  PagesOf(y, cmds)
<1>1. /\ y.stage = "count" /\ y.page = 1 /\ y.steady = Visible(cmds, y.as)
      /\ cmds \in [Command -> {Absent} \cup EntryType]
  BY DEF StartsBrowse, GoodInv, Tables
<1>2. (y.page - 1) * PageSize = 0
  BY <1>1, BoundsAssumption
<1>3. \A c \in Visible(cmds, y.as) : Place(cmds, y.as, c) > 0
  BY <1>1, PlaceOfVisible
<1> QED
  BY <1>1, <1>2, <1>3 DEF PagesOf

LEMMA PagesCount ==
  ASSUME NEW x, NEW y, PagesOf(x, cmds), Counts(x, y)
  PROVE  PagesOf(y, cmds)
<1>1. /\ x \in BrowseType /\ x.stage = "count"
      /\ y.as = x.as /\ y.steady = x.steady /\ y.moved = x.moved
      /\ y.page = x.page /\ y.stage = "rows" /\ y.seen = x.seen
      /\ y.total = Cardinality(Visible(cmds, x.as))
  BY CountsGood DEF Counts
<1>2. \A c : Place(cmds, y.as, c) <= y.total
  BY <1>1, PlaceType
<1> QED
  BY <1>1, <1>2 DEF PagesOf

\* A row that a page does not show is before it or after it.
LEMMA NotOnPage ==
  ASSUME NEW page \in Nat \ {0}, NEW place \in Nat, ~OnPage(page, place),
         place > (page - 1) * PageSize
  PROVE  place > page * PageSize
<1> DEFINE from == (page - 1) * PageSize
           to == page * PageSize
<1>1. from \in Int /\ to \in Int
  BY BoundsAssumption
<1>2. ~(place - 1 \in from..(to - 1))
  BY DEF OnPage
<1>3. place > from
  OBVIOUS
<1> HIDE DEF from, to
<1>4. place > to
  BY <1>1, <1>2, <1>3
<1> QED
  BY <1>4 DEF to

LEMMA PagesShow ==
  ASSUME NEW x, NEW y, PagesOf(x, cmds), Shows(x, y), x.page <= Cardinality(Command)
  PROVE  PagesOf(y, cmds)
<1> DEFINE shown == {c \in Visible(cmds, x.as) : OnPage(x.page, Place(cmds, x.as, c))}
           to == x.page * PageSize
<1>1. /\ x \in BrowseType /\ x.stage = "rows"
      /\ y.as = x.as /\ y.steady = x.steady /\ y.moved = x.moved
      /\ y.page = x.page + 1 /\ y.seen = x.seen \cup shown
      /\ y.stage = IF to < x.total THEN "count" ELSE "done"
  <2>1. x \in BrowseType /\ x.stage = "rows"
    BY DEF Shows
  <2> QED
    BY <2>1, ShowsGood, Zenon
<1> SUFFICES ASSUME ~x.moved PROVE PagesOf(y, cmds)
  BY <1>1 DEF PagesOf
<1>2. /\ x.steady \subseteq Visible(cmds, x.as)
      /\ \A c \in x.steady \ x.seen : Place(cmds, x.as, c) > (x.page - 1) * PageSize
      /\ \A c \in x.steady : Place(cmds, x.as, c) <= x.total
  BY <1>1 DEF PagesOf
<1>3. x.page \in Nat \ {0} /\ x.total \in Nat /\ to \in Nat /\ (y.page - 1) * PageSize = to
  <2>1. x.page \in Nat \ {0} /\ x.total \in Nat
    BY <1>1, VisibleSize DEF BrowseType
  <2>2. y.page - 1 = x.page
    BY <1>1, <2>1
  <2> QED
    BY <2>1, <2>2, BoundsAssumption
<1>4. \A c \in x.steady \ y.seen : Place(cmds, x.as, c) > to
  <2> TAKE c \in x.steady \ y.seen
  <2>1. c \notin x.seen /\ ~OnPage(x.page, Place(cmds, x.as, c))
    BY <1>1, <1>2
  <2>2. Place(cmds, x.as, c) \in Nat /\ Place(cmds, x.as, c) > (x.page - 1) * PageSize
    BY <1>2, <2>1, PlaceType
  <2> QED
    BY <1>3, <2>1, <2>2, NotOnPage
<1> HIDE DEF to, shown
<1>5. CASE to < x.total
  <2>1. y.stage = "count"
    BY <1>1, <1>5
  <2>2. \A c \in y.steady \ y.seen : Place(cmds, y.as, c) > (y.page - 1) * PageSize
    BY <1>1, <1>3, <1>4, Zenon
  <2>3. y.steady \subseteq Visible(cmds, y.as)
    BY <1>1, <1>2, Zenon
  <2> QED
    BY <2>1, <2>2, <2>3 DEF PagesOf
<1>6. CASE ~(to < x.total)
  <2>1. x.steady \subseteq y.seen
    <3> SUFFICES ASSUME NEW c \in x.steady, c \notin y.seen PROVE FALSE
      OBVIOUS
    <3> DEFINE place == Place(cmds, x.as, c)
    <3>1. place > to /\ place <= x.total /\ place \in Nat
      BY <1>2, <1>4, PlaceType
    <3> HIDE DEF place
    <3> QED
      BY <1>3, <1>6, <3>1
  <2> QED
    BY <1>1, <1>6, <2>1 DEF PagesOf
<1> QED
  BY <1>5, <1>6

\* A write does not take a command from those to come, unless it moves it.
LEMMA PagesNote ==
  ASSUME NEW x \in BrowseType, PagesOf(x, cmds), NEW what, NEW c, NEW cs
  PROVE  PagesOf(Note(x, what, c, cs), cs)
<1> DEFINE y == Note(x, what, c, cs)
<1>1. /\ y.stage = x.stage /\ y.as = x.as /\ y.page = x.page /\ y.total = x.total
      /\ y.seen = x.seen
      /\ x.stage = "done" => y = x
      /\ x.stage # "done" =>
           /\ y.steady = x.steady \cap Visible(cs, x.as)
           /\ ~y.moved => /\ ~x.moved
                          /\ \A d \in y.steady :
                               LET move == Place(cs, x.as, d) - Place(cmds, x.as, d)
                               IN ~(move < 0) /\ (x.stage = "rows" => ~(move > 0))
  BY NoteBrowse
<1> HIDE DEF y
<1>2. CASE x.stage = "done"
  <2>1. ~x.moved => x.steady \subseteq x.seen
    BY <1>2, Zenon DEF PagesOf
  <2>2. PagesOf(x, cs)
    BY <1>2, <2>1 DEF PagesOf
  <2> QED
    BY <1>1, <1>2, <2>2, Zenon DEF y
<1>3. CASE x.stage # "done"
  <2> SUFFICES ASSUME ~y.moved
               PROVE  /\ y.steady \subseteq Visible(cs, y.as)
                      /\ \A d \in y.steady \ y.seen : Place(cs, y.as, d) > (y.page - 1) * PageSize
                      /\ y.stage = "rows" => \A d \in y.steady : Place(cs, y.as, d) <= y.total
    <3>1. y.stage # "done"
      BY <1>1, <1>3, Zenon
    <3> HIDE DEF y
    <3>2. ASSUME ~y.moved => /\ y.steady \subseteq Visible(cs, y.as)
                             /\ \A d \in y.steady \ y.seen : Place(cs, y.as, d) > (y.page - 1) * PageSize
                             /\ y.stage = "rows" => \A d \in y.steady : Place(cs, y.as, d) <= y.total
          PROVE  PagesOf(y, cs)
      BY <3>1, <3>2, Zenon DEF PagesOf
    <3> QED
      BY <3>2 DEF y
  <2> DEFINE from == (x.page - 1) * PageSize
  <2>1. /\ \A d \in x.steady \ x.seen : Place(cmds, x.as, d) > from
        /\ x.stage = "rows" => \A d \in x.steady : Place(cmds, x.as, d) <= x.total
    BY <1>1, <1>3 DEF PagesOf
  <2>2. from \in Int /\ x.total \in Int
    BY BoundsAssumption, VisibleSize DEF BrowseType
  <2>3. (y.page - 1) * PageSize = from
    BY <1>1
  <2> HIDE DEF from
  <2>4. \A d \in y.steady :
          /\ d \in x.steady
          /\ Place(cs, x.as, d) >= Place(cmds, x.as, d)
          /\ x.stage = "rows" => Place(cs, x.as, d) <= Place(cmds, x.as, d)
    <3> TAKE d \in y.steady
    <3> DEFINE new == Place(cs, x.as, d)
               old == Place(cmds, x.as, d)
    <3>1. new \in Nat /\ old \in Nat
      BY PlaceType
    <3>2. d \in x.steady /\ ~(new - old < 0) /\ (x.stage = "rows" => ~(new - old > 0))
      BY <1>1, <1>3
    <3> HIDE DEF new, old
    <3>3. new >= old /\ (x.stage = "rows" => new <= old)
      BY <3>1, <3>2
    <3> QED
      BY <3>2, <3>3 DEF new, old
  <2>5. \A d \in y.steady \ y.seen : Place(cs, y.as, d) > from
    <3> TAKE d \in y.steady \ y.seen
    <3> DEFINE new == Place(cs, x.as, d)
               old == Place(cmds, x.as, d)
    <3>1. new \in Nat /\ old \in Nat
      BY PlaceType
    <3>2. new >= old /\ old > from
      BY <1>1, <2>1, <2>4
    <3>3. new > from
      <4> HIDE DEF new, old
      <4> QED
        BY <2>2, <3>1, <3>2
    <3> QED
      BY <1>1, <3>3
  <2>6. y.stage = "rows" => \A d \in y.steady : Place(cs, y.as, d) <= y.total
    <3> SUFFICES ASSUME y.stage = "rows", NEW d \in y.steady PROVE Place(cs, y.as, d) <= y.total
      OBVIOUS
    <3> DEFINE new == Place(cs, x.as, d)
               old == Place(cmds, x.as, d)
    <3>1. new \in Nat /\ old \in Nat
      BY PlaceType
    <3>2. new <= old /\ old <= x.total
      BY <1>1, <2>1, <2>4
    <3>3. new <= x.total
      <4> HIDE DEF new, old
      <4> QED
        BY <2>2, <3>1, <3>2
    <3> QED
      BY <1>1, <3>3
  <2> QED
    BY <1>1, <1>3, <2>3, <2>5, <2>6
<1> QED
  BY <1>2, <1>3 DEF y

LEMMA PageStep ==
  ASSUME GoodInv, PageInv, Next
  PROVE  PageInv'
<1>1. ASSUME NEW q \in Request, Local(q) PROVE PageInv'
  <2>1. PICK y : Turns(req[q], y) /\ req' = [req EXCEPT ![q] = y]
    BY <1>1 DEF Local
  <2>2. UNCHANGED cmds
    BY <1>1 DEF Local
  <2> DEFINE x == req[q]
  <2>3. PagesOf(x, cmds) /\ Good(x, cmds, writes)
    BY DEF PageInv, GoodInv
  <2>4. Turns(x, y)
    BY <2>1
  <2>5. PagesOf(y, cmds)
    <3> HIDE DEF x
    <3> SUFFICES ASSUME y \in BrowseType PROVE PagesOf(y, cmds)
      BY DEF PagesOf
    <3>1. CASE StartsBrowse(y)
      BY <3>1, PagesStart
    <3>2. CASE Counts(x, y)
      BY <2>3, <3>2, PagesCount
    <3>3. CASE Shows(x, y)
      <4>1. x.page <= Cardinality(Command)
        BY <2>3, <3>3, GoodKinds DEF Shows
      <4> QED
        BY <2>3, <3>3, <4>1, PagesShow
    <3> QED
      BY <2>4, <3>1, <3>2, <3>3, TurnKinds
  <2>6. \A p \in Request : PagesOf(req'[p], cmds)
    BY <2>1, <2>5 DEF PageInv, GoodInv
  <2> QED
    BY <2>2, <2>6 DEF PageInv
<1>2. ASSUME NEW p \in Request, NEW what \in {"update", "deactivate"}, NEW c \in Command,
             req'[p] = Note(req[p], what, c, cmds')
      PROVE  PagesOf(req'[p], cmds')
  <2> DEFINE x == req[p]
             y == req'[p]
  <2>1. x \in RequestType /\ PagesOf(x, cmds)
    BY DEF GoodInv, PageInv
  <2> SUFFICES ASSUME y \in BrowseType PROVE PagesOf(y, cmds')
    BY DEF PagesOf
  <2>2. y = Note(x, what, c, cmds')
    BY <1>2
  <2> HIDE DEF x, y
  <2>3. x \in BrowseType
    BY <2>1, <2>2, NoteKinds
  <2> QED
    BY <2>1, <2>2, <2>3, PagesNote
<1>3. ASSUME NEW q \in Request, NEW c \in Command, Stores(q, c, req[q].entry) PROVE PageInv'
  <2>1. \A p \in Request : req'[p] = IF p = q THEN Idle ELSE Note(req[p], "update", c, cmds')
    BY <1>3, Transaction
  <2>2. PagesOf(Idle, cmds')
    BY DEF PagesOf, Idle, BrowseType
  <2>3. \A p \in Request : PagesOf(req'[p], cmds')
    BY <1>2, <2>1, <2>2
  <2> QED
    BY <2>3 DEF PageInv
<1>4. ASSUME NEW c \in Command, DeactivateCommand(c) PROVE PageInv'
  <2>1. \A p \in Request : req'[p] = Note(req[p], "deactivate", c, cmds')
    BY <1>4, Deactivated
  <2>2. \A p \in Request : PagesOf(req'[p], cmds')
    BY <1>2, <2>1
  <2> QED
    BY <2>2 DEF PageInv
<1> QED
  BY <1>1, <1>3, <1>4, Moves

\* Whoever reads all pages of the list has seen every command that was visible
\* all the time and was not moved.
THEOREM PagesComplete == Spec => []PagesShowAll
<1>1. ASSUME Init PROVE PageInv
  BY <1>1 DEF Init, PageInv, PagesOf, Idle, BrowseType
<1>2. ASSUME GoodInv, PageInv, [Next]_vars PROVE PageInv'
  <2>1. CASE UNCHANGED vars
    BY <1>2, <2>1 DEF vars, PageInv
  <2>2. CASE Next
    BY <1>2, <2>2, PageStep
  <2> QED
    BY <1>2, <2>1, <2>2
<1>3. ASSUME GoodInv, PageInv PROVE PagesShowAll
  <2> SUFFICES ASSUME NEW q \in Request, req[q].op = "browse", req[q].stage = "done", ~req[q].moved
               PROVE  req[q].steady \subseteq req[q].seen
    BY DEF PagesShowAll
  <2>1. req[q] \in BrowseType
    BY <1>3, RequestKinds DEF GoodInv
  <2> QED
    BY <1>3, <2>1 DEF PageInv, PagesOf
<1> QED
  BY <1>1, <1>2, <1>3, GoodAlways, PTL DEF Spec

=============================================================================
