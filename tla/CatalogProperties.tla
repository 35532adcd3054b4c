------------------------- MODULE CatalogProperties -------------------------
(* What the catalog keeps while requests interleave. *)
EXTENDS Catalog

\* What the executor needs of a command in each mode.
Runnable(e) ==
  /\ e.mode \in {"create", "exec"} => e.command
  /\ e.mode \in {"exec", "logs"} => e.target
  /\ e.mode = "create" => e.image
  /\ e.timeout \in 0..MaxTimeout

EntryType ==
  [name : Name, roles : SUBSET Role, mode : {"create", "exec", "logs"},
   command : BOOLEAN, image : BOOLEAN, target : BOOLEAN, timeout : Int, tail : Int,
   active : BOOLEAN, version : 1..(MaxWrites + 1)]

CreateType == [op : {"create"}, entry : EntryType]

UpdateType ==
  [op : {"update"}, stage : {"roles", "ready", "write"}, on : Command, edit : Edit,
   entry : EntryType, missed : SUBSET {"update", "deactivate"}]

ExecuteType ==
  [op : {"execute"}, stage : {"roles", "ready"}, on : Command, as : SUBSET Role,
   entry : EntryType, missed : SUBSET {"update", "deactivate"}]

BrowseType ==
  [op : {"browse"}, stage : {"count", "rows", "done"}, as : SUBSET Role,
   page : 1..(Cardinality(Command) + 1), total : 0..Cardinality(Command),
   seen : SUBSET Command, steady : SUBSET Command, moved : BOOLEAN]

RequestType == {Idle} \cup CreateType \cup UpdateType \cup ExecuteType \cup BrowseType

\* Besides the types: a stored command has a name of its own and at least one
\* role, and the executor can run it in its mode, though updates change single
\* fields of copies that other updates have made.
TypeOK ==
  /\ \A c \in Command : cmds[c] = Absent \/ cmds[c] \in EntryType
  /\ \A q \in Request : req[q] \in RequestType
  /\ writes \in 0..MaxWrites /\ overwritten \subseteq Command
  /\ \A c \in Command :
       Stored(c) => Named(cmds[c].name) = {c} /\ cmds[c].roles # {} /\ Runnable(cmds[c])

-----------------------------------------------------------------------------
(* Safety *)

\* A version names one content of a command: the versions stored under an id
\* are 1, 2, ... up to the one in the table, each of them once, unless an
\* update was written from a copy that another update had made out of date.
VersionsTell ==
  \A c \in Command :
    c \notin overwritten /\ Stored(c) =>
      /\ {e.version : e \in published[c]} = 1..cmds[c].version
      /\ Cardinality(published[c]) = cmds[c].version
      /\ Content(cmds[c]) \in published[c]

\* A command that was deactivated becomes active only by an update from a copy
\* read before the deactivation, or before an update that was itself written
\* from a copy out of date and so put an older deactivation back: no operation
\* activates a command, whatever it changes.
DeactivationStands ==
  [][\A c \in Command :
       Stored(c) /\ ~cmds[c].active /\ cmds'[c].active
         => \E q \in Request :
              /\ req[q].op = "update" /\ req[q].stage = "write" /\ req[q].on = c
              /\ \/ "deactivate" \in req[q].missed
                 \/ "update" \in req[q].missed /\ c \in overwritten]_vars

\* What the executor is handed was stored as a whole, fields and roles, though
\* it is read by two statements: whoever executes a command has a role of that
\* version of it.  Only an update between the two statements makes it
\* otherwise.
RunsWhatWasPublished ==
  \A q \in Request :
    req[q].op = "execute" /\ req[q].stage = "ready" =>
      \/ Content(req[q].entry) \in published[req[q].on] /\ req[q].as \cap req[q].entry.roles # {}
      \/ "update" \in req[q].missed

\* Whoever reads the list from its first page to its last has seen every
\* command that was visible all the time, unless one of these moved up, or
\* moved down between the two statements of a page: commands that are created
\* in between show one twice, and hide none.
PagesShowAll ==
  \A q \in Request :
    req[q].op = "browse" /\ req[q].stage = "done" /\ ~req[q].moved
      => req[q].steady \subseteq req[q].seen

=============================================================================
