# Kariz: a verification development

TLA+ models of the KARIZ command dashboard, the TLC configurations that
model-check them and the theorems that TLAPS proves about them. Kariz is a Go
server that runs approved commands in sibling Docker containers: users (or
schedules) request an execution, a background goroutine runs it through the
Docker daemon, stores its record in PostgreSQL, publishes its output to
browsers over server-sent events (SSE), and notifies the user.

Paths below are relative to `src/`; `service.go` alone is
`internal/executor/service.go`, `manager.go` alone `internal/stream/manager.go`.

## 1. Inventory

### Components, their state and their operations

| Component | State it keeps | Operations that change state | What makes it correct |
|---|---|---|---|
| Executor (`internal/executor/service.go`) | `runningCancels` and `ownedContainers` (sync.Map), one goroutine and one context per execution | `ExecuteCommand`, `runCreateMode`, `runExecMode`, `runLogsMode`, `CancelExecution` | every accepted execution ends in one terminal status, tells it once, completes its stream, removes its container and releases the lock of its command |
| Execution records (`repository.go`, migration 5) | table `execution_records` | `Create`, `Update` (overwrites every mutable column), reads `GetByID`, `CountRunning`, `List` | columns of a row agree; a stored verdict stays |
| Docker manager (`internal/docker`) | none; one goroutine (`demuxStream`) per attachment | container and exec calls, demultiplexing into a channel of 64 chunks | output is delivered in order, the goroutine ends |
| Stream manager and SSE handler (`internal/stream`) | map of streams; per stream a buffer of at most 10 000 events, next id, done flag, subscribers with channels of 256 | `Publish`, `Complete`, `Subscribe`, `Cleanup`, unsubscribe | no send on a closed channel, order without duplicates, nobody waits for an ended stream |
| Execution page (`web/src/pages/ExecutionDetailPage.tsx`) | lines shown, event source | connect, reconnect, receive | shows what was published, in order, up to the end |
| Scheduler (`internal/scheduler`) | table `schedules`, one polling goroutine and the list it works off | tick, trigger, create, update, enable, disable, delete, shutdown | a due time starts one execution; a disabled or deleted schedule starts none; a due one is not starved |
| Authentication (`internal/auth`) | tables `users`, `user_roles`, `sessions` | login, logout, middleware lookup, expiry, cleanup every 15 minutes | no session outlives what it was granted for |
| User administration (`internal/api/admin_handlers.go`) | `users`, `user_roles`, `sessions` | create, update, change roles, deactivate | an active administrator remains; a demoted user's sessions end; nobody comes back unasked |
| Catalog (`internal/catalog`) | tables `command_entries`, `command_roles` | create, update, deactivate; list, read for an execution | a version names one content; a deactivated entry stays so; what is executed was published; pages hide nothing |
| Notifications (`internal/notification`) | table `notifications` | notify, mark read, mark all read | one per execution, to its user |
| Artifacts (`internal/artifact`) | files of the local store, table `execution_artifacts` | copy, extract, store, record, download | a stored record points to a whole file, and a download sends it; one failure does not hide the others |
| Env resolver, parameter validator | none (pure) | resolve, validate, build arguments | a command runs with what the schema allows; a refusal has a cause |
| HTTP handlers, health endpoint, configuration, models | none of their own | | |

### How they interact

* A request calls `ExecuteCommand`, which resolves and validates parameters,
  asks the database for the concurrency lock, inserts the row and starts the
  worker. The scheduler's loop calls the same function.
* The worker talks to the daemon, reads `demuxStream`'s channel in
  `captureOutput`, which calls `Publish`; ends with `updateRecord`,
  `notifyCompletion` and `signalStreamComplete`, in this order; then its
  deferred calls remove the container and unregister it.
* `CancelExecution` shares with the worker: the row (both write all of it),
  `ownedContainers`, `runningCancels`, the context, the container, the stream.
* A schedule's row is shared by the loop, which triggers from the list it read,
  and by the requests that edit it; each writes from the row it read before.
* A session carries the roles that its login read. The middleware looks at the
  session alone, so a change of a user deletes the sessions afterwards.
* The handler that executes a command hands the executor a copy of it, read by
  two statements; the worker copies its artifacts when its process has ended.
* SSE sessions share a stream with the worker and the cancel requests.
* `main`'s shutdown stops the HTTP server and the scheduler; the workers have
  contexts derived from `context.Background()` and are neither cancelled nor
  awaited.

### What is hard here

Two writers of one row without a transaction; a lock that is a count of rows;
a silent return that relies on another goroutine finishing its work; reads of
an attached connection that no context interrupts; mutexes held over a channel
send; channels closed by three callers; buffers at their limits; processes that
end between two statements; a list of due schedules that is triggered while
requests edit them; edits that write back a row read before; sessions that keep
roles while the roles change; a guard that counts in one statement what another
one changes; a command read by two statements; pages numbered over a table that
moves; one deadline for several files; files named after the end of their path
only, and rewritten while they are being sent. `PROJECT.json` lists these as
hazards, each at its line and with the properties aimed at it. Where the code
itself does what the hazard names, a property that forbade it would be refuted:
those that hold except it, and the hazard's note says so and where the code and
a document part over it (section 3).

## 2. Modules

| Module | Models |
|---|---|
| `Executor` | `service.go` entire; the record statements, daemon calls and notifications it makes; `main`'s shutdown |
| `ExecutionLifecycle` | abstract: what the executor promises of one execution: row status, notification, stream |
| `StreamManager` | `manager.go`, `internal/stream/handler.go` and the page's event source |
| `StreamLog` | abstract: viewers of one log that grows and is sealed |
| `Scheduler` | `internal/scheduler/service.go` and the statements of its repository; shutdown, crash and start |
| `Accounts` | login, logout, middleware and cleanup of `internal/auth`; the four handlers of `internal/api/admin_handlers.go` that write |
| `Catalog` | `internal/catalog`: service, validation, repository; the part of the executor's handler that reads a command |
| `Artifacts` | `internal/artifact`: copier, local store, records, downloads |
| `Parameters` | `internal/envvar/resolver.go`, `internal/validator/validator.go`, in the order in which `ExecuteCommand` calls them |
| `...Properties` | the properties of each, the refinement mappings, and statements of the documents |
| `...Proofs` | theorems and proofs: `ExecutorProofs` and, on what an execution leaves behind, `ExecutorOutcomeProofs`; `StreamProofs`, `SchedulerProofs`, `AccountsProofs`, `CatalogProofs`, `ArtifactsProofs`, `ParametersProofs` |
| `MC...` | the instances that TLC checks |

**Executor.** `pc[e]` names the call that the handler or the worker of `e` makes
next, and an action is that call: everything up to the next statement that
another goroutine could observe. `rec[e]` is the worker's record, `db[e]` its
row; the worker never reads the row again, which is the point of keeping both.
`cpc[c]` and `snap[c]` are a cancel request and the row it read. `ctx[e]` is
`execCtx`; a call made with it fails once it is done (`Refusable`).
`process`/`code` are the daemon's; `output` is the demultiplexer's channel.
`Faults` chooses what the environment may do wrong: refuse calls, lose answers,
break connections, refuse removals, fail statements, lose the client of a
request. `Restart` ends the process: everything in memory goes, the database and
the daemon stay. Data is abstracted to what properties tell apart: statuses, an
exit code up to zero, and set-or-not for the other columns.

**StreamManager.** Every call is two steps, as in the code: get the stream under
the manager's mutex (`GetOrCreateStream`), work under the stream's own. Between
the steps the stream may be completed or discarded, so streams are a sequence
and callers hold indices. Both mutexes are free between steps except where the
code keeps one for ever: a `Subscribe` whose replay is longer than its channel,
a `Subscribe` that panicked on the nil map of a discarded stream, a `Cleanup`
waiting behind either; `held` is the set of those. A page (`Client`) makes its
requests one after the other, but the handler of a lost one may still run when
the next arrives, so a page has several slots (`Session`).

**Scheduler.** One action per statement. `rows` is the table; `loop` is the
polling goroutine with its stage, the `list` that `GetDueSchedules` returned and
the schedule in hand; a trigger computes the next run from the entry of the
list, never from the row of now. `req[q]` is a request that edits: it keeps the
timing it read (`GetByID`), and writes in the order of the code: `EnableSchedule`
stores the next run before `setEnabled` reads again, and all of them end with
`repo.Update` and `UpdateNextRunAt`. Times are `null`, `future` or `due`;
`Written` allows a time that was in the future when it was computed to be due
when it is stored. The column `is_enabled` is left out, because only the INSERT
ever writes it: being disabled is having no next run. `served`, `late` and
`quiet` are history: executions since a next run was written, executions after
the deletion, schedules disabled while nobody else was at work on them.

**Accounts.** One action per statement, again, and one operator per handler
(`UpdateUser`, `UpdateUserRoles`, ...) that says which statements it has.
`req[q]` holds what the request has read: a login the roles that go into the
session, an update the `is_active` that it writes back. `UpdateRoles` is a
transaction of a DELETE and INSERTs under read committed, so two of them that
overlap merge their roles or collide in the UNIQUE constraint (`merges`).
`overtaken`, `raced`, `blind` and `unrevoked` are history: something was written
since this request read, the sessions were deleted while this login was on its
way, who was written by an overtaken request, whose sessions nobody deleted
because the request failed.

**Catalog.** A write is one transaction and one action; reading a command is
two statements (`GetCommand`), and so is a page of the list (`Count`, `Rows`),
and other requests write in between. An update keeps the whole entry it read and
stores it with its edit and a version one higher. `published` remembers every
content stored under an id, `overwritten` which ones were updated from a copy
out of date, `missed` what was written since a request read.

**Artifacts.** The worker copies one declared file after the other: ask the
daemon, extract the first file of the archive, create the file, write it block
by block, record. `expired` is the one deadline of all of them: a call made with
that context fails, the record of the failure included. A file is a sequence of
blocks, each known by its artifact, its entry of the archive and its place.
`files` has the blocks that are on disk at each path; `CreateFile` empties that
sequence for whoever has the file open, as `os.Create` truncates an existing file
and makes no new one. A download looks its row up (`DownloadArtifact`), opens the
file and announces the length that it has then (`OpenFile`), sends block after
block of what the file has by then (`SendBlock`) and stops at the announced
length or where the file ends (`EndOfFile`); each is a step, and the worker and
other downloads may act in between. So an answer may begin with one artifact and
go on with a later one of the same base name, or be cut short, and
`DownloadsAreWhole` says exactly when: not before `created`, which remembers what
`os.Create` has made, has such an artifact. Requests for a range or under a
condition are left out: every download is of the whole file.

**Parameters.** One request: `ResolveParam` for one parameter after the other,
`Validate`, `BuildCommandArgs`. A value is its JSON kind, its text and its size;
a definition has a type, rules, a default and possibly a variable of a
container. The instance enumerates schemas, requests and environments, and the
properties state the outcome independently of how the code computes it.

Definitions named `X_...` with a comment "Mutant of X" are plausible bugs of the
code, each breaking a property of a run; no behaviour uses them.

## 3. Runs

All were checked to completion, on instances chosen so that every action and
every disjunct of the next-state relations occurs.

| Run | Instance | States | Checks |
|---|---|---|---|
| `create` | create mode, one execution with a timeout, two cancel requests, refused calls and broken connections, fair, commands end | 85 553 | a worker that is gone left a terminal row, a completed stream, no container, and it does go; the lock is released |
| `exec_logs` | one exec and one logs execution with timeouts, a cancel request on the second, refused calls, lost answers, broken connections, fair | 87 768 | verdict, notification and stream of the other modes agree; their workers end |
| `faults` | create mode, one cancel request, every fault, one restart | 47 279 | rows consistent, one notification, a verdict gives way to a cancellation only |
| `lock` | two requests for one command, refused calls | 21 609 | the lock is held while a worker works; the detailed module implements `ExecutionLifecycle` |
| `stream_serve` | one page with two slots, capacity 2, buffer 2, three chunks, one lost connection, one reopened event source, one cleanup, a cancel request | 1 983 895 | channels, buffers, order, nothing lost while it fits |
| `stream_ends` | the same with two chunks and two lost connections, fair | 35 800 | the page finishes; implements `StreamLog` |
| `schedule` | two schedules, the command of one unreadable; two requests that edit the other; one failed statement, one shutdown or crash; fair loop | 771 668 | one execution per due time, one at most after a deletion, none of a disabled schedule; a due one is triggered |
| `accounts` | two users, one role, one session at a time, two request slots used again and again, one failing request | 8 705 610 | sessions agree with users; an administrator remains; nobody comes back |
| `catalog` | two commands, three proposals, three edits, two roles, two slots, pages of one, five writes | 4 036 962 | versions, what an execution is handed, pages, deactivation |
| `artifacts` | three declared files, two with one base name, seven kinds of archive with files of one or two blocks, two downloads, two faults, the deadline, a crash | 1 914 280 | downloads are whole; every artifact is recorded or told |
| `parameters` | two parameters over 80 definitions, six values and null, two environments, four command strings | 7 388 168 | arguments are justified; refusals have a cause, and a cause is refused |
| `one_instance` | two requests for one command | | a statement of the documents that does not hold: below |

**Bounds.** Two cancel requests are enough for two writers besides the worker;
two executions of one command for the lock; a third would repeat a pair. One
restart shows every point at which the process may end. Capacity 2 and buffer 2
stand for 256 and 10 000: with three chunks and the complete event the channel
fills, the buffer is trimmed, and a replay can be longer than a channel, which
are the only three comparisons the code makes with these numbers
(`manager.go:99-115`, `153`, `157`). `ChanCap <= MaxBuffered` is assumed, as in
the code. `MaxChunks`, `MaxDrops`, `MaxReopens`, `MaxCleanups` and `MaxCrashes`
bound what the environment may repeat. `create` leaves out lost answers:
a container whose creation was answered to nobody stays behind, since the worker
has no id to remove. In `schedule` two requests on one
schedule give every pair of operations, an edit against the loop, and three
writers of one row; the second schedule shows that one that cannot be executed
keeps no other from its turn. In `accounts` two users are the administrator who
acts and the one acted on, in either role; two slots are a writer that overtakes
another one or a login; slots and sessions are reused without a bound, and only
failures are counted. The single role is the administrator's: a second one would
be granted and lost in the same way. In `catalog` four writes are a creation,
two updates and a deactivation of one command, or creations and renamings that
move a page. The fifth is for a deactivation that comes back: a command is created,
deactivated, activated by an update from a copy read before, deactivated once
more by an update from a copy read between these two, and activated by an update
that missed the last one only. The three
edits move a command on the page and between roles, and break and mend its mode.
Pages of one element have a boundary at every place. In `artifacts`
three files are needed for two with one name and one between; two blocks have a
beginning and a rest, so that an answer can be mixed, be cut short, and be opened
when only a part is written, all of which occur. In `parameters`
two parameters suffice since the code treats each by itself and joins them in
the list of errors and in a token; values lie on and beyond every bound.
Runs that set `CHECK_DEADLOCK FALSE` do so because the modelled system really
comes to rest when its requests are served, a copy has ended or, in `accounts`,
the last administrator has been lost to an overtaken request.

**Fairness.** Weak, per goroutine: one that can take its next step takes it
(Go's scheduler), timers fire, calls to the daemon and the database return,
an ended stream is read to its end, and the body of a logs request is closed
with its context, since the Docker client binds it to it. No fairness for
requests, user actions, faults, or for a process to write or to end: a silent
process is a legal one. `EndingSpec` adds that processes end, and is used where
the question is about the server (`create`, `exec_logs`). `PagesFinish` allows
for a stream mutex held for ever. In `Scheduler` the ticker ticks and the loop's
goroutine takes its next step; nothing makes a request go on, a statement
succeed or time pass. The other modules state safety only: their requests
promise no more than to end.

### Where the code and its documents part

`one_instance` is a run that ends with a counterexample: two requests for one
command count running rows before either is running, and both execute, against
`requirements.md:62`.

These are stated in the properties modules, and TLC refutes them too; they have
no run of their own:

* `CancelSticks`, `OutputIsKept` - the worker overwrites a
  cancelled row it never reads, and a cancel request writes back the row it
  read before the worker stored verdict and output.
* `TimeoutTerminates` - a silent process outlives its deadline: the
  demultiplexer looks at its context only between two frames.
* `ShutdownEndsExecutions` - rows of the workers lost with the process stay
  `running`, and the lock of their command with them.
* `PublishReturns` - a `Subscribe` with more than 256 events to replay
  keeps the stream's mutex and stops the worker's `Publish`.
* `DisabledStaysDisabled` (`requirements.md:188`) - a schedule that is disabled
  while it is in the loop's list is executed once more, and the trigger writes
  it a next run: it is enabled again.
* `LastAdminStays` (`admin_handlers.go:353`) - two administrators who demote
  each other at the same time both pass the guard.
* `FileIsServed` (`requirements.md:160`) - the download of an artifact sends, in
  whole or in part, the file of a later one with the same base name.
* `FailuresAreRecorded` (`copier.go:38`) - after the deadline the record of the
  failure is made with the expired context, and fails.

Others met while modelling:

* Executor: the comment at `service.go:267` says the status is already set when
  a worker returns silently, while `CancelFunc` comes before `Update` (558, 565);
  a cancel request that comes before `ownedContainers.Store` stops no container
  (548); a create-mode run is completed with exit code zero whatever the process
  returned (486); an exec-mode timeout leaves the process running (473); a
  deadline during create, start or attach is recorded as `failed` (223).
* Streams: a full channel leaves a gap nothing fills (`manager.go:161`), so
  `StreamLog` lets a viewer skip events; a reconnect by the page sends no
  position and shows everything again (`ExecutionDetailPage.tsx:145`), so
  `ShownInOrder` is stated per event source; a page that subscribes after a
  restart waits for a stream that nobody completes; `Cleanup`, which
  `.kiro/specs/kariz-command-dashboard/tasks.md` wants after a retention period,
  is called by tests only.
* Scheduler: `repo.Update` does not write `is_enabled`, so that the next update
  of a disabled schedule arms it again; a command that cannot be read is tried
  again at every tick; the notification of a failed trigger names an execution
  without a row, and the foreign key refuses it.
* Administration: an update that names only an e-mail address writes the
  `is_active` it read, and may undo a deactivation that overtook it; a login
  that overlaps a deletion of sessions keeps what it has read.
* Catalog: no operation activates a command again, though the page sends
  `is_active` (`CommandManagementPage.tsx:297`); a deactivated one is still
  executed by id and by schedules; an update written from an old copy may repeat
  or lower a version (`requirements.md:36`); a user without roles is shown
  everything, because the filter is left out; the web pages ask for the first
  page of twenty only.
* Artifacts: the later of two files with the same base name takes the place of the
  earlier one under its record (`local_store.go:36`), also while this is being
  sent (`handlers.go:114`): the answer is then made of both, or shorter than the
  length it announced.
* Parameters: a number or boolean that is mapped to a variable is always refused,
  since a container's values are strings; a missing variable refuses a request in
  spite of a default; defaults are not validated; a user's null prints as
  `<nil>`.

## 4. Proofs

`ExecutorProofs` proves for any commands, executions, cancel requests and modes:

| Theorem | Assumes | Argument |
|---|---|---|
| `TypeCorrect` | nothing | `TypeInv` adds `VerdictReady` to `TypeOK`: at `persist`, `notify` and `signal` the worker's record holds a verdict. Without it `Notify` and `Signal` could store a status outside their types. |
| `FinishedTerminal` | no failing statement, no lost client, no restart (`Reliable`) | `LeftTerminal` extends the property to every point from which the worker returns without another write. A worker returns silently only if its context was cancelled, only `CancelFire` cancels it, and a request that has fired has its `Update` left to do. |
| `StreamCompleted` | `Reliable` | `StreamLeft`, the same for the stream, one step further: the request still has to write and then to signal. |
| `LockHeld` | no failing statement | `LockInv`: from `MarkRunning` to `Persist` the row and the worker's record are both `running`, unless a cancel request wrote the row; a restart leaves no worker behind. |
| `VerdictFinal` | nothing: every fault and restart | `FinalInv`: a verdict in the row implies a worker past `Persist`, which never calls `updateRecord` again; `KeepsVerdict` is the step. |
| `NotifiedOnce` | nothing | `FinalInv`: notifications are stored only past `notify`, which is passed once. |

`ExecutorOutcomeProofs` goes on to what an execution leaves behind:

| Theorem | Assumes | Argument |
|---|---|---|
| `RowConsistent` | nothing: every fault and restart | `RowInv`: not only the rows are consistent but also what is about to be written over them, the worker's record (`RecordFits`, call by call) and the row that each cancel request has read. |
| `NoContainerLeft` | no lost answer, no refused removal | `ContainerInv`: a container exists only between `ContainerCreate` and the deferred removal, which is deferred from `Own` on; a restart leaves the worker `lost`. |
| `VerdictsAgree` | no failing statement, no restart | `VerdictInv`: unless a cancel request touched the execution, `Persist`, `Notify` and `Signal` write one value, in this order, each once. |
| `LifecycleImplemented` | no cancel requests, no failing statement, no restart | `LifeInv` and the invariants above; every action maps to one of `ExecutionLifecycle` or a stutter. |

What these theorems assume of `Faults`, `MaxCrashes` and `Canceller` the code
needs: without any one of the assumptions TLC finds the property violated. A container whose
creation was answered to nobody is never removed; a failed `Update` leaves the
row behind what was told; a cancel request tells its own verdict.

Each proof has the same layout: initial states, one step per action, a helper
lemma for each operator that changes a record, and a temporal conclusion.

`StreamProofs` proves for any pages, slots, cancel requests and capacities,
with lost connections, reopened event sources and cleanups (assuming only
`ClientsAssumption` and `BoundsAssumption`):

| Theorem | Argument |
|---|---|
| `StreamTypeCorrect` | `TypeOK` is inductive: whoever works on a stream holds an index of one that exists, and no buffer outgrows its channel. |
| `ChannelsAreOpen` | `OpenInv` adds `FreshAreOpen` (the channel of a request not yet subscribed is open), as `Subscribe` registers that channel. A session is in the set of at most one stream, so that closing the channels of a set closes none of another. |
| `NobodyForgotten` | the other half of `OpenInv`: `Complete` and `Cleanup` empty a set only with closing its channels. |
| `BuffersAreTails` | `StreamSteps`: each call leaves its stream well numbered, one that is done as it was, and the others alone. The lemmas on `Trimmed` need `MaxBuffered` positive. |
| `FinishedLast` | `LastInv` (a complete event still in a channel is the last of its stream) carries the fact from `Complete` or a replay to `Serve`; `OneStream` says that before the first `Cleanup` there is one stream for it to be about. |
| `PagesInOrder` | `ShowInv`: a page has one connection at a time, whose channel holds, in order, only events behind the last one shown. A replay puts the events after `from` there, and `from` is what the page was shown last. |
| `NothingLost` | `FitInv`: while the log fits into a channel, what was shown and what the channel holds are together the whole log; `AllInv`: its buffer has not been trimmed. No channel is full, so that no event is dropped. |
| `LogImplemented` | with neither a second event source nor a cleanup (`MaxReopens = 0`, `MaxCleanups = 0`), every action maps to one of `StreamLog` or a stutter; a page shows an event that its log has, behind those it has shown, by `ShowInv`. |

`ShownInOrder` and `NothingLostWhileItFits` say themselves that they hold until a page makes
a second event source, which starts over, or the stream is cleaned up.

`SchedulerProofs` proves for any schedules, unreadable commands, requests and
bounds, every interleaving, failed statement, shutdown and crash (assuming
`SchedulesAssumption` and `BoundsAssumption`):

| Theorem | Argument |
|---|---|
| `SchedulerTypes` | `TypeOK` is inductive: the list is empty and nothing is in hand except in the stages of a trigger. |
| `ServedOnce` | `ServedInv`: what a schedule was served is covered by faults and stops, and one more execution is allowed only between `ExecuteCommand` and `UpdateNextRunAt`. `LoopInv` says that the list has a schedule once, and not while it is in hand. |
| `DeletedOnce` | `LateInv`: what the loop has of a deleted schedule it read before the deletion, and no later query returns it, so that one executed late is not waiting to be executed. |
| `QuietWhenDisabled` | `QuietInv`: a schedule becomes quiet when nobody else is in the middle of work on it; from then on a writer has first to read it, which ends the quiet. So no request at work on it holds a time, and no list has it. |

`AccountsProofs` proves for any users, roles, sessions and slots, with failures
(`RolesAssumption`, `BoundsAssumption`):

| Theorem | Argument |
|---|---|
| `AccountsTypes` | `TypeOK`, with: a request under way is about one user. |
| `AnAdminRemains` | `ViewInv`, of each request `Knows`: one that nobody has overtaken still knows what it read. The guard's count is then true at the write, and another active administrator stays. |
| `NobodyComesBack` | the same: an `is_active` that was left out is the one in the table. |
| `SessionsCurrent` | `CurrentInv`: what is claimed of a session is also claimed of every login under way (`LoginHolds`), which becomes one, and an update that was not overtaken writes the `is_active` that is there (`Sure`). A write of a user puts its request where it owes the deletion (`Owed`), and the deletion takes the excuse away together with the sessions, marking the logins that it missed. |

`CatalogProofs` proves for any commands, requests, roles, proposals, edits, page
sizes and bounds (`CommandAssumption`: finitely many commands; what
proposals and edits may contain: `ProposalAssumption`, `EditAssumption`):

| Theorem | Argument |
|---|---|
| `TypeCorrect` | `GoodInv`: what a request is going to write is in order too, but for its name, which `Write` checks against the table. |
| `VersionsNameContents` | `VersionInv`: the version of a copy that missed no update is the one in the table, so that what is written has the next one; a command's history then has as many contents as versions. |
| `PublishedIsRun` | `ReadInv`: a row read without its roles is in the table unless an update was missed, and with them it is a published content. |
| `DeactivationsStand` | `ActiveInv`: a copy that missed neither an update nor a deactivation is active exactly when the command is. |
| `PagesComplete` | `PageInv`: what was visible all the time and is not yet seen is on a later page; the lemmas on `Place`, by cardinalities, say that commands which come before it can only push it back. |

The attempt to prove `DeactivationStands` as it was stated before, without the
case of a command in `overwritten`, failed in a state TLC had not reached with
four writes: an update from an old copy may put a deactivation back that another
stale update had undone, and then an update that missed no deactivation, only that
update, activates the command. The property now names this case, and the run goes
far enough to meet it.

`ArtifactsProofs` (any declarations, archives, readers and faults):
`WholeDownloads`, by three invariants. `FilesInv`: the artifact under way has in its
file the beginning of its content, and a row says stored only of a file that is
whole and of its own artifact, unless `os.Create` has made it for a later one.
`BlocksInv`: a file has blocks only of the last artifact that it was made for, each
at its place. `DownloadInv`: what was announced and sent is the beginning of the
file, unless that has been taken over since; a block sent next is then of the
newest artifact, so none is older than the one before. `ToldOfAll`, by
`ToldInv`: every artifact before the worker's has its row or is lost.
`ParametersProofs` (any definitions, values, environments and command strings):
`RightArguments` and `RefusedWithCause`, from `ParametersInv`, which says of each
parameter what has been found for it so far, and of a request that ended without a
variable at which parameter it did.

The constants' assumptions are named, in the modules that declare them, and TLC
evaluates them in the runs.

Every invariant and action property that a run checks is a theorem, and so are both
refinements, as far as their safety goes, which is all that the abstract modules
state. Only model-checked is liveness (`WorkerEnds`, `LockIsReleased`,
`PagesFinish`, `DueIsTriggered`): it rests on fairness and ENABLED, which TLAPS
does not handle.

## 5. Not modelled, and the plan

Planned, in order:

1. Proofs: weaker assumptions where the code allows them (the life cycle of
   the executions that nobody cancels, in the presence of cancel requests for
   others), and the safety that the liveness properties rest on: which worker may
   still wait, and for what.
2. The output pipeline: `demuxStream`, `captureOutput` and `Publish` composed,
   and `Executor` with `StreamManager` over a restart.

Not modelled, and why:

* the S3 store and the factory (`main` wires the local store), and the
  `Delete` operations of the artifacts, which nothing calls;
* notifications other than storing one: listing, counting and marking as read
  are one statement on one row each; e-mail is an external service whose result
  is only logged;
* the health endpoint and the listings of executions, schedules and users,
  which only read; search and categories of the catalog are conditions like the
  roles, which are modelled;
* tokens, password hashes and cookies: a session is found or not;
* wiring, configuration, migrations and JSON conversions, which keep no state
  that changes; layout and wording; the web pages other than the event source,
  which send requests and show answers.
