------------------------------ MODULE Executor ------------------------------
(***************************************************************************)
(* The execution engine, internal/executor/service.go: the handler of      *)
(* ExecuteCommand, the background goroutine it launches in one of three    *)
(* modes, and the handler of CancelExecution, over the execution_records   *)
(* table, the two sync.Maps of the service, the context of each goroutine, *)
(* the Docker daemon and the goroutine that demultiplexes its output.      *)
(*                                                                         *)
(* One action is one call that another goroutine can observe: a statement  *)
(* of the database, a call to the daemon, an access to a sync.Map, a       *)
(* notification, the completion of the output stream.  The record that a   *)
(* worker carries from one call to the next is its own (rec).              *)
(*                                                                         *)
(* Abstracted: a row keeps its status, its exit code up to zero, and for   *)
(* each other mutable column whether it is set; the output is one value,   *)
(* captured or not; parameters, error texts and times are left out.        *)
(***************************************************************************)
EXTENDS Naturals, Sequences, FiniteSets

CONSTANTS
  Command,          \* catalog entries
  Execution,        \* execute requests, each an execution once it is accepted
  Canceller,        \* cancel requests
  CommandOf,        \* the catalog entry an execute request names
  TargetOf,         \* the execution a cancel request names
  ModeOf,           \* execution_mode of a catalog entry
  AllowConcurrent,  \* the entries with allow_concurrent
  TimeLimited,      \* the entries with timeout_seconds > 0
  Faults,           \* what the environment may do wrong
  MaxCrashes        \* how often the server process may end and start again

Modes == {"create", "exec", "logs"}

\* "docker": a call to the daemon is refused.  "reply": the daemon does what it
\* is asked and the answer is lost.  "stream": the output connection breaks.
\* "remove": RemoveContainer is refused.  "database": a statement fails.
\* "disconnect": the client of a request goes away before its last statement.
FaultKinds == {"docker", "reply", "stream", "remove", "database", "disconnect"}

ASSUME CommandsAssumption ==
  /\ CommandOf \in [Execution -> Command]
  /\ TargetOf \in [Canceller -> Execution]
  /\ ModeOf \in [Command -> Modes]
  /\ AllowConcurrent \subseteq Command
  /\ TimeLimited \subseteq Command

ASSUME FaultsAssumption == Faults \subseteq FaultKinds /\ MaxCrashes \in Nat

VARIABLES
  db,         \* the row of an execution in execution_records
  rec,        \* the worker's *models.ExecutionRecord
  pc,         \* the call an execution's handler or worker makes next
  ctx,        \* execCtx
  cancels,    \* the keys of runningCancels
  owned,      \* the keys of ownedContainers
  process,    \* the ephemeral container (create) or the exec instance (exec)
  code,       \* the exit code the process left
  output,     \* the channel that demuxStream fills
  stream,     \* the output stream of the stream manager: open, or its final status
  notices,    \* the notifications stored for an execution, oldest first
  cpc,        \* the call a cancel request makes next
  snap,       \* the row a cancel request has read
  crashes     \* how often the server process has ended

workerVars == <<rec, pc, ctx>>
dockerVars == <<process, code, output>>
maps       == <<cancels, owned>>
cancelVars == <<cpc, snap>>
outVars    == <<stream, notices>>
vars == <<db, rec, pc, ctx, cancels, owned, process, code, output, stream,
          notices, cpc, snap, crashes>>

-----------------------------------------------------------------------------
(* Rows *)

Verdict  == {"completed", "failed", "timed_out"}   \* what a worker may conclude
Terminal == Verdict \cup {"cancelled"}
Status   == {"queued", "running"} \cup Terminal

Row == [status       : Status \cup {"none"},       \* "none": there is no row
        exit_code    : {"null", "zero", "nonzero"},
        output       : BOOLEAN,                    \* stdout and stderr captured
        container_id : BOOLEAN,
        started_at   : BOOLEAN,
        completed_at : BOOLEAN]

NoRow == [status |-> "none", exit_code |-> "null", output |-> FALSE,
          container_id |-> FALSE, started_at |-> FALSE, completed_at |-> FALSE]

\* Mutant of QueuedRow: the record is inserted as running.
QueuedRow_Running == [NoRow EXCEPT !.status = "running"]

QueuedRow == [NoRow EXCEPT !.status = "queued"]

Concluded(r, status) == [r EXCEPT !.status = status, !.completed_at = TRUE]

-----------------------------------------------------------------------------
(* Executions *)

Mode(e) == ModeOf[CommandOf[e]]

\* Mutant of Answered: the calls get a context of their own.
Answered_Detached(e) == ctx[e] # "none"

\* A call with the worker's context fails once that context is done.
Answered(e)  == ctx[e] = "live"
Refusable(e) == ctx[e] # "live" \/ "docker" \in Faults

CtxStates     == {"none", "live", "canceled", "deadline", "ended"}
ProcessStates == {"none", "created", "running", "exited", "removed"}
OutputStates  == {"none", "open", "closed"}
PCs == {"new", "checked", "rejected", "launched", "mark", "create", "record",
        "own", "start", "attach", "abort", "exec", "attach_exec", "logs",
        "capture", "expire", "inspect", "artifacts", "persist", "notify",
        "signal", "remove", "disown", "unregister", "done", "lost"}
CPCs == {"idle", "loaded", "stopped", "fired", "wrote", "done", "refused",
         "failed", "lost"}

TypeOK ==
  /\ db \in [Execution -> Row]
  /\ rec \in [Execution -> Row]
  /\ pc \in [Execution -> PCs]
  /\ ctx \in [Execution -> CtxStates]
  /\ cancels \subseteq Execution
  /\ owned \subseteq Execution
  /\ process \in [Execution -> ProcessStates]
  /\ code \in [Execution -> {"null", "zero", "nonzero"}]
  /\ output \in [Execution -> OutputStates]
  /\ stream \in [Execution -> {"open"} \cup Terminal]
  /\ notices \in [Execution -> Seq(Verdict)]
  /\ cpc \in [Canceller -> CPCs]
  /\ snap \in [Canceller -> Row]
  /\ crashes \in Nat

Init ==
  /\ db = [e \in Execution |-> NoRow]
  /\ rec = [e \in Execution |-> NoRow]
  /\ pc = [e \in Execution |-> "new"]
  /\ ctx = [e \in Execution |-> "none"]
  /\ cancels = {}
  /\ owned = {}
  /\ process = [e \in Execution |-> "none"]
  /\ code = [e \in Execution |-> "null"]
  /\ output = [e \in Execution |-> "none"]
  /\ stream = [e \in Execution |-> "open"]
  /\ notices = [e \in Execution |-> <<>>]
  /\ cpc = [c \in Canceller |-> "idle"]
  /\ snap = [c \in Canceller |-> NoRow]
  /\ crashes = 0

Goto(e, next) == pc' = [pc EXCEPT ![e] = next]
Step(e, here, next) == pc[e] = here /\ Goto(e, next)

\* Mutant of Save: only a verdict is stored.
Save_VerdictOnly(e, r) ==
  IF r.completed_at THEN db' = [db EXCEPT ![e] = r] ELSE UNCHANGED db

\* updateRecord: an error of the database is logged and forgotten.
Save(e, r) ==
  \/ db' = [db EXCEPT ![e] = r]
  \/ "database" \in Faults /\ UNCHANGED db

\* The verdict a worker is about to store, tell and publish.
Conclude(e, r) == rec' = [rec EXCEPT ![e] = r] /\ Goto(e, "persist")
\* Mutant of Fail: the status is not set.
Fail_NoStatus(e) == Conclude(e, rec[e])

Fail(e) == Conclude(e, Concluded(rec[e], "failed"))

\* StopContainer: without effect on a container that is not running.
Stop(e) ==
  \/ /\ process[e] = "running"
     /\ process' = [process EXCEPT ![e] = "exited"]
     /\ \E x \in {"zero", "nonzero"} : code' = [code EXCEPT ![e] = x]
  \/ /\ process[e] # "running" \/ "docker" \in Faults
     /\ UNCHANGED <<process, code>>

-----------------------------------------------------------------------------
(* ExecuteCommand *)

\* checkConcurrencyLock.
LockFree(e) ==
  CommandOf[e] \in AllowConcurrent
    \/ \A f \in Execution : CommandOf[f] = CommandOf[e] => db[f].status # "running"

\* The parameters are valid: the lock decides.
Check(e) ==
  /\ pc[e] = "new"
  /\ \/ LockFree(e) /\ Goto(e, "checked")
     \/ ~LockFree(e) /\ Goto(e, "rejected")
  /\ UNCHANGED <<db, rec, ctx, dockerVars, maps, cancelVars, outVars, crashes>>

\* Parameters that do not resolve or validate, or a count that fails.
Reject(e) ==
  /\ Step(e, "new", "rejected")
  /\ UNCHANGED <<db, rec, ctx, dockerVars, maps, cancelVars, outVars, crashes>>

\* repo.Create, then the go statement; an insert that fails ends the request.
Launch(e) ==
  /\ pc[e] = "checked"
  /\ \/ /\ db' = [db EXCEPT ![e] = QueuedRow]
        /\ rec' = [rec EXCEPT ![e] = QueuedRow]
        /\ Goto(e, "launched")
     \/ /\ Faults \cap {"database", "disconnect"} # {}
        /\ Goto(e, "rejected")
        /\ UNCHANGED <<db, rec>>
  /\ UNCHANGED <<ctx, dockerVars, maps, cancelVars, outVars, crashes>>

-----------------------------------------------------------------------------
(* The worker, common to the three modes *)

\* newExecutionContext and runningCancels.Store.
Register(e) ==
  /\ Step(e, "launched", "mark")
  /\ ctx' = [ctx EXCEPT ![e] = "live"]
  /\ cancels' = cancels \cup {e}
  /\ UNCHANGED <<db, rec, dockerVars, owned, cancelVars, outVars, crashes>>

MarkRunning(e) ==
  LET r == [rec[e] EXCEPT !.status = "running", !.started_at = TRUE,
                          !.container_id = (Mode(e) # "create")]
  IN  /\ Step(e, "mark", Mode(e))
      /\ rec' = [rec EXCEPT ![e] = r]
      /\ Save(e, r)
      /\ UNCHANGED <<ctx, dockerVars, maps, cancelVars, outVars, crashes>>

\* The output channel is closed: captureOutput returns and the worker looks at
\* its context.
Capture(e) ==
  LET r == [rec[e] EXCEPT !.output = TRUE]
  IN  /\ pc[e] = "capture"
      /\ output[e] = "closed"
      /\ \/ /\ ctx[e] = "deadline" /\ Mode(e) = "create"
            /\ rec' = [rec EXCEPT ![e] = r]
            /\ Goto(e, "expire")
         \/ /\ ctx[e] = "deadline" /\ Mode(e) # "create"
            /\ Conclude(e, Concluded(r, "timed_out"))
         \/ /\ ctx[e] = "canceled"
            /\ rec' = [rec EXCEPT ![e] = r]
            /\ Goto(e, IF e \in owned THEN "remove" ELSE "unregister")
         \/ /\ ctx[e] = "live" /\ Mode(e) = "create"
            /\ rec' = [rec EXCEPT ![e] = r]
            /\ Goto(e, "artifacts")
         \/ /\ ctx[e] = "live" /\ Mode(e) = "exec"
            /\ rec' = [rec EXCEPT ![e] = r]
            /\ Goto(e, "inspect")
         \/ /\ ctx[e] = "live" /\ Mode(e) = "logs"
            /\ Conclude(e, Concluded([r EXCEPT !.exit_code = "zero"], "completed"))
      /\ UNCHANGED <<db, ctx, dockerVars, maps, cancelVars, outVars, crashes>>

\* The artifacts, if any, are copied, and the record is completed: the exit
\* code of a create-mode run is always zero.
CopyArtifacts(e) ==
  /\ pc[e] = "artifacts"
  /\ \/ /\ Mode(e) = "create"
        /\ Conclude(e, Concluded([rec[e] EXCEPT !.exit_code = "zero"], "completed"))
     \/ /\ Mode(e) = "exec"
        /\ Conclude(e, [rec[e] EXCEPT !.completed_at = TRUE])
  /\ UNCHANGED <<db, ctx, dockerVars, maps, cancelVars, outVars, crashes>>

Persist(e) ==
  /\ Step(e, "persist", "notify")
  /\ Save(e, rec[e])
  /\ UNCHANGED <<rec, ctx, dockerVars, maps, cancelVars, outVars, crashes>>

\* Mutant of Notify: a timeout has no notification type.
Notify_NotTimedOut(e) ==
  /\ Step(e, "notify", "signal")
  /\ notices' = IF rec[e].status = "timed_out" THEN notices
                ELSE [notices EXCEPT ![e] = Append(@, rec[e].status)]
  /\ UNCHANGED <<db, rec, ctx, dockerVars, maps, cancelVars, stream, crashes>>

\* Mutant of Notify: after an error that came too late, it is sent again.
Notify_Retried(e) ==
  /\ pc[e] = "notify" /\ Len(notices[e]) < 2
  /\ notices' = [notices EXCEPT ![e] = Append(@, rec[e].status)]
  /\ Goto(e, "signal") \/ UNCHANGED pc
  /\ UNCHANGED <<db, rec, ctx, dockerVars, maps, cancelVars, stream, crashes>>

\* notifyCompletion; NotifyExecutionComplete stores one notification for each
\* verdict, and an error is logged and forgotten.
Notify(e) ==
  /\ Step(e, "notify", "signal")
  /\ \/ notices' = [notices EXCEPT ![e] = Append(@, rec[e].status)]
     \/ "database" \in Faults /\ UNCHANGED notices
  /\ UNCHANGED <<db, rec, ctx, dockerVars, maps, cancelVars, stream, crashes>>

\* Mutant of Complete: a cancellation does not complete the stream.
Complete_NotCancelled(e, status) ==
  stream' = [stream EXCEPT ![e] = IF @ = "open" /\ status # "cancelled" THEN status ELSE @]

\* The first Complete of a stream wins.
Complete(e, status) ==
  stream' = [stream EXCEPT ![e] = IF @ = "open" THEN status ELSE @]

\* Mutant of Signal: the deferred calls of create mode are not made.
Signal_NoCleanup(e) ==
  /\ Step(e, "signal", "unregister")
  /\ Complete(e, rec[e].status)
  /\ UNCHANGED <<db, rec, ctx, dockerVars, maps, cancelVars, notices, crashes>>

\* signalStreamComplete is the last call before the deferred ones.
Signal(e) ==
  /\ Step(e, "signal", IF e \in owned THEN "remove" ELSE "unregister")
  /\ Complete(e, rec[e].status)
  /\ UNCHANGED <<db, rec, ctx, dockerVars, maps, cancelVars, notices, crashes>>

\* Mutant of Remove: a container that cannot be removed fails the execution.
Remove_Fails(e) ==
  /\ Step(e, "remove", "disown")
  /\ \/ process' = [process EXCEPT ![e] = "removed"] /\ UNCHANGED db
     \/ "remove" \in Faults /\ db' = [db EXCEPT ![e].status = "failed"] /\ UNCHANGED process
  /\ UNCHANGED <<rec, ctx, code, output, maps, cancelVars, outVars, crashes>>

\* The deferred calls, last first.
Remove(e) ==
  /\ Step(e, "remove", "disown")
  /\ \/ process' = [process EXCEPT ![e] = "removed"]
     \/ "remove" \in Faults /\ UNCHANGED process
  /\ UNCHANGED <<db, rec, ctx, code, output, maps, cancelVars, outVars, crashes>>

Disown(e) ==
  /\ Step(e, "disown", "unregister")
  /\ owned' = owned \ {e}
  /\ UNCHANGED <<db, rec, ctx, dockerVars, cancels, cancelVars, outVars, crashes>>

Unregister(e) ==
  /\ Step(e, "unregister", "done")
  /\ cancels' = cancels \ {e}
  /\ ctx' = [ctx EXCEPT ![e] = "ended"]
  /\ UNCHANGED <<db, rec, dockerVars, owned, cancelVars, outVars, crashes>>

-----------------------------------------------------------------------------
(* Create mode *)

CreateContainer(e) ==
  /\ pc[e] = "create"
  /\ \/ /\ Answered(e)
        /\ process' = [process EXCEPT ![e] = "created"]
        /\ rec' = [rec EXCEPT ![e].container_id = TRUE]
        /\ Goto(e, "record")
     \/ /\ Refusable(e) /\ Fail(e)
        /\ UNCHANGED process
     \/ /\ "reply" \in Faults /\ Fail(e)
        /\ process' = [process EXCEPT ![e] = "created"]
  /\ UNCHANGED <<db, ctx, code, output, maps, cancelVars, outVars, crashes>>

RecordContainer(e) ==
  /\ Step(e, "record", "own")
  /\ Save(e, rec[e])
  /\ UNCHANGED <<rec, ctx, dockerVars, maps, cancelVars, outVars, crashes>>

\* ownedContainers.Store, and the deferred Delete and RemoveContainer.
Own(e) ==
  /\ Step(e, "own", "start")
  /\ owned' = owned \cup {e}
  /\ UNCHANGED <<db, rec, ctx, dockerVars, cancels, cancelVars, outVars, crashes>>

StartContainer(e) ==
  /\ pc[e] = "start"
  /\ \/ /\ Answered(e)
        /\ process' = [process EXCEPT ![e] = "running"]
        /\ Goto(e, "attach")
        /\ UNCHANGED rec
     \/ /\ Refusable(e) /\ Fail(e)
        /\ UNCHANGED process
     \/ /\ "reply" \in Faults /\ Fail(e)
        /\ process' = [process EXCEPT ![e] = "running"]
  /\ UNCHANGED <<db, ctx, code, output, maps, cancelVars, outVars, crashes>>

AttachStream(e) ==
  /\ pc[e] = "attach"
  /\ \/ /\ Answered(e)
        /\ output' = [output EXCEPT ![e] = "open"]
        /\ Goto(e, "capture")
     \/ /\ Refusable(e)
        /\ Goto(e, "abort")
        /\ UNCHANGED output
  /\ UNCHANGED <<db, rec, ctx, process, code, maps, cancelVars, outVars, crashes>>

\* stopAndFail.
Abort(e) ==
  /\ pc[e] = "abort"
  /\ Stop(e)
  /\ Fail(e)
  /\ UNCHANGED <<db, ctx, output, maps, cancelVars, outVars, crashes>>

\* timeoutExecution.
Expire(e) ==
  /\ pc[e] = "expire"
  /\ Stop(e)
  /\ Conclude(e, Concluded(rec[e], "timed_out"))
  /\ UNCHANGED <<db, ctx, output, maps, cancelVars, outVars, crashes>>

-----------------------------------------------------------------------------
(* Exec and logs modes *)

ExecInContainer(e) ==
  /\ pc[e] = "exec"
  /\ \/ /\ Answered(e)
        /\ process' = [process EXCEPT ![e] = "created"]
        /\ Goto(e, "attach_exec")
        /\ UNCHANGED rec
     \/ /\ Refusable(e) /\ Fail(e)
        /\ UNCHANGED process
  /\ UNCHANGED <<db, ctx, code, output, maps, cancelVars, outVars, crashes>>

\* The attachment starts the exec instance.
AttachExecStream(e) ==
  /\ pc[e] = "attach_exec"
  /\ \/ /\ Answered(e)
        /\ process' = [process EXCEPT ![e] = "running"]
        /\ output' = [output EXCEPT ![e] = "open"]
        /\ Goto(e, "capture")
        /\ UNCHANGED rec
     \/ /\ Refusable(e) /\ Fail(e)
        /\ UNCHANGED <<process, output>>
     \/ /\ "reply" \in Faults /\ Fail(e)
        /\ process' = [process EXCEPT ![e] = "running"]
        /\ UNCHANGED output
  /\ UNCHANGED <<db, ctx, code, maps, cancelVars, outVars, crashes>>

\* InspectExec has a context of its own.  An exec that is still running has
\* no exit code yet: the daemon reports zero.
InspectExec(e) ==
  /\ pc[e] = "inspect"
  /\ \/ /\ rec' = [rec EXCEPT
              ![e].exit_code = IF code[e] = "nonzero" THEN "nonzero" ELSE "zero",
              ![e].status    = IF code[e] = "nonzero" THEN "failed" ELSE "completed"]
        /\ Goto(e, "artifacts")
     \/ "docker" \in Faults /\ Fail(e)
  /\ UNCHANGED <<db, ctx, dockerVars, maps, cancelVars, outVars, crashes>>

ContainerLogs(e) ==
  /\ pc[e] = "logs"
  /\ \/ /\ Answered(e)
        /\ output' = [output EXCEPT ![e] = "open"]
        /\ Goto(e, "capture")
        /\ UNCHANGED rec
     \/ /\ Refusable(e) /\ Fail(e)
        /\ UNCHANGED output
  /\ UNCHANGED <<db, ctx, process, code, maps, cancelVars, outVars, crashes>>

-----------------------------------------------------------------------------
(* The daemon, the timer and the demultiplexer *)

Deadline(e) ==
  /\ ctx[e] = "live"
  /\ CommandOf[e] \in TimeLimited
  /\ ctx' = [ctx EXCEPT ![e] = "deadline"]
  /\ UNCHANGED <<db, rec, pc, dockerVars, maps, cancelVars, outVars, crashes>>

ProcessExit(e) ==
  /\ process[e] = "running"
  /\ process' = [process EXCEPT ![e] = "exited"]
  /\ \E x \in {"zero", "nonzero"} : code' = [code EXCEPT ![e] = x]
  /\ UNCHANGED <<db, workerVars, output, maps, cancelVars, outVars, crashes>>

\* Mutant of CloseOutput: the demultiplexer returns and the channel stays open.
CloseOutput_Never(e) == output[e] = "open" /\ UNCHANGED vars

CloseOutput(e) ==
  /\ output[e] = "open"
  /\ output' = [output EXCEPT ![e] = "closed"]
  /\ UNCHANGED <<db, workerVars, process, code, maps, cancelVars, outVars, crashes>>

\* demuxStream returns at the end of the stream ...
StreamEnd(e) ==
  /\ Mode(e) = "logs" \/ process[e] # "running" \/ "stream" \in Faults
  /\ CloseOutput(e)

\* Mutant of DemuxCancelled: the deadline of the context is not looked at.
DemuxCancelled_NotAtDeadline(e) == ctx[e] = "canceled" /\ CloseOutput(e)

\* ... or when it finds its context done between two frames.  Only the body of
\* a logs request is bound to the context; the read of an attached stream waits
\* for the process to write.
DemuxCancelled(e) ==
  /\ ctx[e] \in {"canceled", "deadline"}
  /\ CloseOutput(e)

-----------------------------------------------------------------------------
(* CancelExecution *)

\* Mutant of CancelLoad: the status is not tested.
CancelLoad_AnyStatus(c) ==
  /\ cpc[c] = "idle"
  /\ db[TargetOf[c]].status # "none"
  /\ cpc' = [cpc EXCEPT ![c] = "loaded"]
  /\ snap' = [snap EXCEPT ![c] = db[TargetOf[c]]]
  /\ UNCHANGED <<db, workerVars, dockerVars, maps, outVars, crashes>>

\* GetByID, and the test of the status it returned.
CancelLoad(c) ==
  LET row == db[TargetOf[c]]
  IN  /\ cpc[c] = "idle"
      /\ row.status # "none"
      /\ \/ /\ row.status \in {"queued", "running"}
            /\ cpc' = [cpc EXCEPT ![c] = "loaded"]
            /\ snap' = [snap EXCEPT ![c] = row]
         \/ /\ row.status \notin {"queued", "running"}
            /\ cpc' = [cpc EXCEPT ![c] = "refused"]
            /\ UNCHANGED snap
      /\ UNCHANGED <<db, workerVars, dockerVars, maps, outVars, crashes>>

\* Only a container of ownedContainers is stopped.
CancelStop(c) ==
  /\ cpc[c] = "loaded"
  /\ \/ TargetOf[c] \in owned /\ Stop(TargetOf[c])
     \/ TargetOf[c] \notin owned /\ UNCHANGED <<process, code>>
  /\ cpc' = [cpc EXCEPT ![c] = "stopped"]
  /\ UNCHANGED <<db, workerVars, output, maps, snap, outVars, crashes>>

\* The CancelFunc of runningCancels, if there is one.
CancelFire(c) ==
  LET e == TargetOf[c]
  IN  /\ cpc[c] = "stopped"
      /\ \/ /\ e \in cancels /\ ctx[e] = "live"
            /\ ctx' = [ctx EXCEPT ![e] = "canceled"]
         \/ /\ e \notin cancels \/ ctx[e] # "live"
            /\ UNCHANGED ctx
      /\ cpc' = [cpc EXCEPT ![c] = "fired"]
      /\ UNCHANGED <<db, rec, pc, dockerVars, maps, snap, outVars, crashes>>

\* repo.Update with the row read by GetByID, under the context of the request.
CancelWrite(c) ==
  /\ cpc[c] = "fired"
  /\ \/ /\ db' = [db EXCEPT ![TargetOf[c]] = Concluded(snap[c], "cancelled")]
        /\ cpc' = [cpc EXCEPT ![c] = "wrote"]
     \/ /\ Faults \cap {"database", "disconnect"} # {}
        /\ cpc' = [cpc EXCEPT ![c] = "failed"]
        /\ UNCHANGED db
  /\ UNCHANGED <<workerVars, dockerVars, maps, snap, outVars, crashes>>

CancelSignal(c) ==
  /\ cpc[c] = "wrote"
  /\ Complete(TargetOf[c], "cancelled")
  /\ cpc' = [cpc EXCEPT ![c] = "done"]
  /\ UNCHANGED <<db, workerVars, dockerVars, maps, snap, notices, crashes>>

-----------------------------------------------------------------------------
(* The end of the server process *)

Idle == {"new", "rejected", "done", "lost"}

\* A crash, or the shutdown of main: neither cancels or awaits a worker, and
\* the start that follows looks at no execution.  The database and the
\* containers stay as they are; everything in memory is gone.
Restart ==
  /\ crashes < MaxCrashes
  /\ crashes' = crashes + 1
  /\ pc' = [e \in Execution |-> IF pc[e] \in Idle THEN pc[e] ELSE "lost"]
  /\ cpc' = [c \in Canceller |->
               IF cpc[c] \in {"loaded", "stopped", "fired", "wrote"} THEN "lost" ELSE cpc[c]]
  /\ ctx' = [e \in Execution |-> "none"]
  /\ cancels' = {}
  /\ owned' = {}
  /\ output' = [e \in Execution |-> IF output[e] = "open" THEN "closed" ELSE output[e]]
  /\ stream' = [e \in Execution |-> "open"]
  /\ UNCHANGED <<db, rec, process, code, notices, snap>>

-----------------------------------------------------------------------------

Handler(e) == Check(e) \/ Reject(e) \/ Launch(e)

Worker(e) ==
  \/ Register(e) \/ MarkRunning(e) \/ Capture(e) \/ CopyArtifacts(e)
  \/ Persist(e) \/ Notify(e) \/ Signal(e)
  \/ Remove(e) \/ Disown(e) \/ Unregister(e)
  \/ CreateContainer(e) \/ RecordContainer(e) \/ Own(e)
  \/ StartContainer(e) \/ AttachStream(e) \/ Abort(e) \/ Expire(e)
  \/ ExecInContainer(e) \/ AttachExecStream(e) \/ InspectExec(e)
  \/ ContainerLogs(e)

Environment(e) ==
  Deadline(e) \/ ProcessExit(e) \/ StreamEnd(e) \/ DemuxCancelled(e)

Cancel(c) ==
  CancelLoad(c) \/ CancelStop(c) \/ CancelFire(c) \/ CancelWrite(c) \/ CancelSignal(c)

Next ==
  \/ \E e \in Execution : Handler(e) \/ Worker(e) \/ Environment(e)
  \/ \E c \in Canceller : Cancel(c)
  \/ Restart

Spec == Init /\ [][Next]_vars

\* Goroutines are scheduled, timers fire, calls to the daemon and the database
\* return, an ended stream is read to its end, and the body of a logs request
\* is closed with its context.  Nothing makes a request arrive, and nothing
\* makes a process that stays silent write or end.
FairSpec ==
  /\ Spec
  /\ \A e \in Execution :
       /\ WF_vars(Launch(e)) /\ WF_vars(Worker(e)) /\ WF_vars(Deadline(e))
       /\ WF_vars(Mode(e) # "logs" /\ process[e] # "running" /\ StreamEnd(e))
       /\ WF_vars(Mode(e) = "logs" /\ DemuxCancelled(e))
  /\ \A c \in Canceller : WF_vars(cpc[c] # "idle" /\ Cancel(c))

\* As FairSpec, for commands that end by themselves.
EndingSpec == FairSpec /\ \A e \in Execution : WF_vars(ProcessExit(e))

=============================================================================
