------------------------------ MODULE Catalog ------------------------------
(***************************************************************************)
(* The command catalog, internal/catalog: commands and their allowed roles *)
(* are created, updated and deactivated by administrators, listed page by  *)
(* page, and read by the handler that executes them                        *)
(* (internal/executor/handlers.go).                                        *)
(*                                                                         *)
(* A write is one transaction, but a command is read by two statements,    *)
(* its row and its roles, and an update writes the whole of what it read,  *)
(* with its changes, in a transaction of its own.                          *)
(***************************************************************************)
EXTENDS FiniteSets, Integers

CONSTANTS
  Command,    \* ids
  Request,    \* slots for requests, used again and again
  Name,       \* names, numbered in their order
  Role,
  Proposal,   \* the commands that are asked for
  Edit,       \* the partial updates that are asked for
  MaxTimeout,
  PageSize,
  MaxWrites   \* bound on committed writes

\* What a request may say of a command; the other texts and lists are not
\* looked at.  The mode create stands for every one that is neither exec nor
\* logs, as validation and executor take it.
Fields ==
  [name |-> Name, roles |-> SUBSET Role, mode |-> {"create", "exec", "logs"},
   command |-> BOOLEAN, image |-> BOOLEAN, target |-> BOOLEAN,
   timeout |-> Int, tail |-> Int]

ASSUME NameAssumption == Name \subseteq Nat
ASSUME CommandAssumption == IsFiniteSet(Command)
ASSUME ProposalAssumption ==
  \A e \in Proposal : DOMAIN e = DOMAIN Fields /\ \A f \in DOMAIN e : e[f] \in Fields[f]
ASSUME EditAssumption ==
  \A d \in Edit : DOMAIN d \subseteq DOMAIN Fields /\ \A f \in DOMAIN d : d[f] \in Fields[f]
ASSUME BoundsAssumption == PageSize \in Nat \ {0} /\ MaxTimeout \in Nat /\ MaxWrites \in Nat

VARIABLES
  cmds,       \* tables command_entries and command_roles
  req,        \* the request in each slot
  published,  \* history: what was stored under each id
  overwritten, \* history: commands updated from a copy that was out of date
  writes

vars == <<cmds, req, published, overwritten, writes>>

Absent == [version |-> 0]
Stored(c) == cmds[c].version > 0
Named(n) == {c \in Command : Stored(c) /\ cmds[c].name = n}

Idle == [op |-> "none"]
End(q) == [req EXCEPT ![q] = Idle]

\* The process has been started with an empty catalog.
Init ==
  /\ cmds = [c \in Command |-> Absent]
  /\ req = [q \in Request |-> Idle]
  /\ published = [c \in Command |-> {}]
  /\ overwritten = {} /\ writes = 0

\* A command without whether it is active, as published keeps it.
Content(e) == [e EXCEPT !.active = TRUE]

\* validateCommandFields: command, image and target say whether there is one.
Valid(e) ==
  /\ CASE e.mode = "logs" -> e.target /\ e.tail >= 0
       [] e.mode = "exec" -> e.target /\ e.command
       [] OTHER -> e.command /\ e.image
  /\ e.timeout \in 0..MaxTimeout

-----------------------------------------------------------------------------
(* Browsing *)

\* The commands that List shows to someone with the roles in as; without any
\* there is no condition on them.
Visible(cs, as) ==
  {c \in Command : /\ cs[c].version > 0 /\ cs[c].active
                   /\ as = {} \/ cs[c].roles \cap as # {}}

\* The place of a command in the list, which is in the order of the names.
Place(cs, as, c) == Cardinality({d \in Visible(cs, as) : cs[d].name <= cs[c].name})

\* Someone starts to read the list, from the first page to the last.  steady:
\* the commands that have been visible ever since; moved: one of them changed
\* its place in a way that may hide it.
Browse(q) ==
  /\ req[q] = Idle
  /\ \E as \in SUBSET Role :
       /\ Visible(cmds, as) # {}
       /\ req' = [req EXCEPT ![q] =
            [op |-> "browse", stage |-> "count", as |-> as, page |-> 1, total |-> 0,
             seen |-> {}, steady |-> Visible(cmds, as), moved |-> FALSE]]
  /\ UNCHANGED <<cmds, published, overwritten, writes>>

\* ListCommands: the count.
Count(q) ==
  /\ req[q].op = "browse" /\ req[q].stage = "count"
  /\ req' = [req EXCEPT ![q].stage = "rows",
                        ![q].total = Cardinality(Visible(cmds, req[q].as))]
  /\ UNCHANGED <<cmds, published, overwritten, writes>>

\* Mutant of OnPage: the offset of a page is off by one row.
OnPage_Shifted(page, place) == place - 2 \in (page - 1) * PageSize .. page * PageSize - 1

\* LIMIT and OFFSET.
OnPage(page, place) == place - 1 \in (page - 1) * PageSize .. page * PageSize - 1

\* ListCommands: the rows of the page; the total tells whether it is the last.
Rows(q) ==
  /\ req[q].op = "browse" /\ req[q].stage = "rows"
  /\ LET r == req[q]
         shown == {c \in Visible(cmds, r.as) : OnPage(r.page, Place(cmds, r.as, c))}
     IN req' = [req EXCEPT ![q].seen = @ \cup shown, ![q].page = @ + 1,
                  ![q].stage = IF r.page * PageSize < r.total THEN "count" ELSE "done"]
  /\ UNCHANGED <<cmds, published, overwritten, writes>>

-----------------------------------------------------------------------------
(* Writing *)

\* What a write of what, on c, that makes the tables cs means for the requests
\* in r: some have missed it, in some lists a command moves.
Noted(r, what, c, cs) ==
  [p \in Request |->
     CASE r[p].op = "update" \/ (r[p].op = "execute" /\ r[p].stage = "roles") ->
            IF r[p].on = c THEN [r[p] EXCEPT !.missed = @ \cup {what}] ELSE r[p]
       [] r[p].op = "browse" /\ r[p].stage # "done" ->
            LET steady == r[p].steady \cap Visible(cs, r[p].as)
                move(d) == Place(cs, r[p].as, d) - Place(cmds, r[p].as, d)
            IN [r[p] EXCEPT !.steady = steady, !.moved = @ \/ \E d \in steady :
                  move(d) < 0 \/ (r[p].stage = "rows" /\ move(d) > 0)]
       [] OTHER -> r[p]]

\* Mutant of Replaced: the roles that were there stay.
Replaced_Merged(c, e) ==
  IF Stored(c) THEN [e EXCEPT !.roles = @ \cup cmds[c].roles] ELSE e

\* What a transaction leaves of a command: all of the copy, its roles instead
\* of those that were there.
Replaced(c, e) == e

\* The transaction of q that stores e under c.
Store(q, c, e) ==
  /\ writes < MaxWrites /\ writes' = writes + 1
  /\ cmds' = [cmds EXCEPT ![c] = Replaced(c, e)]
  /\ published' = [published EXCEPT ![c] = @ \cup {Content(e)}]
  /\ req' = Noted(End(q), "update", c, cmds')

Fresh(e) ==
  [f \in DOMAIN e \cup {"active", "version"} |->
     CASE f = "active" -> TRUE [] f = "version" -> 1 [] OTHER -> e[f]]

\* CreateCommand, up to the transaction: the name is free, as far as this
\* request can see, and the fields are in order.
CreateCommand(q) ==
  /\ req[q] = Idle
  /\ \E e \in Proposal :
       /\ e.roles # {} /\ Named(e.name) = {} /\ Valid(e)
       /\ req' = [req EXCEPT ![q] = [op |-> "create", entry |-> Fresh(e)]]
  /\ UNCHANGED <<cmds, published, overwritten, writes>>

\* repo.Create.  The table accepts a name once: the second of two requests is
\* rolled back.
Insert(q) ==
  /\ req[q].op = "create"
  /\ IF Named(req[q].entry.name) # {}
     THEN req' = End(q) /\ UNCHANGED <<cmds, published, writes>>
     ELSE \E c \in Command : ~Stored(c) /\ Store(q, c, req[q].entry)
  /\ UNCHANGED overwritten

\* A row as it is read, which has no roles.
CommandEntry(c) == [cmds[c] EXCEPT !.roles = {}]

\* UpdateCommand, and GetByID's first statement: the row, without its roles.
UpdateCommand(q, c) ==
  /\ req[q] = Idle /\ Stored(c)
  /\ \E d \in Edit :
       req' = [req EXCEPT ![q] = [op |-> "update", stage |-> "roles", on |-> c, edit |-> d,
                 entry |-> CommandEntry(c), missed |-> {}]]
  /\ UNCHANGED <<cmds, published, overwritten, writes>>

\* GetByID's second statement, for an update and for an execution; whoever
\* executes a command must have one of its roles.
ReadRoles(q) ==
  /\ req[q].op \in {"update", "execute"} /\ req[q].stage = "roles"
  /\ LET roles == cmds[req[q].on].roles
     IN req' = IF req[q].op = "execute" /\ req[q].as \cap roles = {} THEN End(q)
               ELSE [req EXCEPT ![q].entry.roles = roles, ![q].stage = "ready"]
  /\ UNCHANGED <<cmds, published, overwritten, writes>>

\* The fields that d names replace those of e.
Amended(e, d) == [f \in DOMAIN e |-> IF f \in DOMAIN d THEN d[f] ELSE e[f]]

\* Mutant of Applied: the version is not incremented.
Applied_SameVersion(r) == Amended(r.entry, r.edit)

\* Mutant of Applied: an update makes the command active.
Applied_Active(r) == Amended([r.entry EXCEPT !.version = @ + 1, !.active = TRUE], r.edit)

\* The copy that was read, with the fields that the request names.
Applied(r) == Amended([r.entry EXCEPT !.version = @ + 1], r.edit)

\* Mutant of Accepts: the fields are validated as they were read.
Accepts_Read(r) == Valid(r.entry)

\* A new name is free and the fields are in order.
Accepts(r) ==
  /\ Applied(r).name = r.entry.name \/ Named(Applied(r).name) = {}
  /\ Applied(r).roles # {} /\ Valid(Applied(r))

\* UpdateCommand, what it does with what it read.
Apply(q) ==
  /\ req[q].op = "update" /\ req[q].stage = "ready"
  /\ req' = IF Accepts(req[q])
            THEN [req EXCEPT ![q].stage = "write", ![q].entry = Applied(req[q])] ELSE End(q)
  /\ UNCHANGED <<cmds, published, overwritten, writes>>

\* repo.Update: all fields, is_active and version among them, and the roles.
Write(q) ==
  /\ req[q].op = "update" /\ req[q].stage = "write"
  /\ LET r == req[q]
     IN IF Named(r.entry.name) \ {r.on} # {}
        THEN req' = End(q) /\ UNCHANGED <<cmds, published, overwritten, writes>>
        ELSE /\ Store(q, r.on, r.entry)
             /\ overwritten' = overwritten \cup IF "update" \in r.missed THEN {r.on} ELSE {}

\* DeactivateCommand: one statement.
DeactivateCommand(c) ==
  /\ Stored(c)
  /\ writes < MaxWrites /\ writes' = writes + 1
  /\ cmds' = [cmds EXCEPT ![c].active = FALSE]
  /\ req' = Noted(req, "deactivate", c, cmds')
  /\ UNCHANGED <<published, overwritten>>

\* A statement fails, or the client goes away: nothing of the request is stored.
Fail(q) ==
  /\ req[q] # Idle
  /\ req' = End(q)
  /\ UNCHANGED <<cmds, published, overwritten, writes>>

-----------------------------------------------------------------------------
(* Executing *)

\* ExecuteCommand of the executor's handler: GetCommand's first statement,
\* which takes an inactive command like any other.
ExecuteCommand(q, c) ==
  /\ req[q] = Idle /\ Stored(c)
  /\ \E as \in SUBSET Role :
       req' = [req EXCEPT ![q] = [op |-> "execute", stage |-> "roles", on |-> c, as |-> as,
                 entry |-> CommandEntry(c), missed |-> {}]]
  /\ UNCHANGED <<cmds, published, overwritten, writes>>

\* The executor has its copy of the command; what it does is in Executor.
HandOver(q) ==
  /\ req[q].op = "execute" /\ req[q].stage = "ready"
  /\ req' = End(q)
  /\ UNCHANGED <<cmds, published, overwritten, writes>>

-----------------------------------------------------------------------------
ListCommands(q) == Browse(q) \/ Count(q) \/ Rows(q)

\* The requests that administrators make.
Administer(q) ==
  \/ CreateCommand(q) \/ Insert(q)
  \/ (\E c \in Command : UpdateCommand(q, c)) \/ Apply(q) \/ Write(q)

Next ==
  \/ \E q \in Request :
       \/ ListCommands(q) \/ Administer(q) \/ ReadRoles(q)
       \/ (\E c \in Command : ExecuteCommand(q, c)) \/ HandOver(q) \/ Fail(q)
  \/ \E c \in Command : DeactivateCommand(c)

Spec == Init /\ [][Next]_vars

=============================================================================
