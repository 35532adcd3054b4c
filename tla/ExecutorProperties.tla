------------------------- MODULE ExecutorProperties -------------------------
(* What the execution engine keeps, and what the documents say it keeps. *)
EXTENDS Executor

Firing(e)      == \E c \in Canceller : TargetOf[c] = e /\ cpc[c] = "fired"
Overwritten(e) == \E c \in Canceller : TargetOf[c] = e /\ cpc[c] \in {"wrote", "done"}
Touched(e)     == \E c \in Canceller :
                    TargetOf[c] = e /\ cpc[c] \in {"stopped", "fired", "wrote", "done", "failed"}

\* From the "running" write to the write of the verdict.
Working == {"create", "record", "own", "start", "attach", "abort", "exec",
            "attach_exec", "logs", "capture", "expire", "inspect", "artifacts",
            "persist"}

\* A worker that is gone has left a terminal status, or a cancel request is
\* about to write one: no execution holds the concurrency lock for ever.  The
\* silent return of the run*Mode functions on context.Canceled relies on it.
FinishedIsTerminal ==
  \A e \in Execution :
    pc[e] = "done" /\ db[e].status \notin Terminal => Firing(e)

\* A worker that is gone has completed its output stream, or a cancel request is
\* about to: no subscriber waits for an execution that has ended.
StreamIsCompleted ==
  \A e \in Execution :
    pc[e] = "done" /\ stream[e] = "open" =>
      \E c \in Canceller : TargetOf[c] = e /\ cpc[c] \in {"fired", "wrote"}

\* A create-mode worker that is gone leaves no container behind, whichever call
\* failed and whoever stopped the container: the deferred RemoveContainer.
NoContainerLeak ==
  \A e \in Execution :
    pc[e] = "done" /\ Mode(e) = "create" => process[e] \in {"none", "removed"}

\* An execution that no cancel request touched ends with one notification, a
\* stream and a row that agree on its verdict.
VerdictAgrees ==
  \A e \in Execution :
    pc[e] = "done" /\ ~Touched(e) =>
      /\ notices[e] = <<db[e].status>>
      /\ stream[e] = db[e].status

\* The columns of a row agree with each other although two writers overwrite
\* the whole row: completed_at with the status, a verdict with started_at, an
\* exit code with a verdict it can accompany, and "completed" with its output.
RowIsConsistent ==
  \A e \in Execution :
    LET row == db[e]
    IN  /\ row.completed_at <=> row.status \in Terminal
        /\ row.status \in Verdict => row.started_at
        /\ row.exit_code # "null" => row.status \in {"completed", "failed"} /\ row.output
        /\ row.status = "completed" => row.exit_code = "zero" /\ row.container_id

\* While a worker works and no cancel request has written its row, the row is
\* "running": checkConcurrencyLock refuses every new request for the command.
LockIsHeld ==
  \A e \in Execution :
    pc[e] \in Working /\ ~Overwritten(e) => db[e].status = "running"

\* However the requests and the failures interleave, the user gets at most one
\* notification for an execution.
NotifiedAtMostOnce == \A e \in Execution : Len(notices[e]) <= 1

\* A stored verdict is replaced by nothing but a cancellation: updateRecord is
\* never called again after the final write.
VerdictIsFinal ==
  [][\A e \in Execution :
       db[e].status \in Verdict /\ db'[e].status # db[e].status
         => db'[e].status = "cancelled"]_vars

\* Every execution that was accepted ends, and its deferred calls have run.
WorkerEnds == \A e \in Execution : pc[e] = "launched" ~> pc[e] = "done"

\* The concurrency lock taken by a "running" row is released.
LockIsReleased ==
  \A e \in Execution : db[e].status = "running" ~> db[e].status # "running"

\* The life cycle that the engine promises of an execution.
Lifecycle == INSTANCE ExecutionLifecycle WITH
  status <- [e \in Execution |-> db[e].status],
  told   <- notices,
  closed <- stream

\* Without cancel requests and restarts, the row, the notification and the
\* stream that a worker leaves are those of the promised life cycle.
ImplementsLifecycle == Lifecycle!Spec

-----------------------------------------------------------------------------
(* What the documents say of the program *)

\* requirements.md, 3.6: only one instance of a command executes at a time.
OneInstanceAtATime ==
  \A e, f \in Execution :
    e # f /\ CommandOf[e] = CommandOf[f] /\ CommandOf[e] \notin AllowConcurrent
      => ~(pc[e] \in Working /\ pc[f] \in Working)

\* tasks.md, 7.5: CancelExecution updates the status to "cancelled".
CancelSticks ==
  \A c \in Canceller : cpc[c] = "done" => db[TargetOf[c]].status = "cancelled"

\* requirements.md, 3.4: the output is stored with the record.
OutputIsKept == [][\A e \in Execution : db[e].output => db'[e].output]_vars

\* requirements.md, 3.5: a command that exceeds its timeout is terminated.
TimeoutTerminates ==
  \A e \in Execution : ctx[e] = "deadline" ~> process[e] # "running"

\* design.md, Graceful Shutdown: all running execution contexts are cancelled.
ShutdownEndsExecutions ==
  \A e \in Execution : pc[e] = "lost" => db[e].status # "running"

=============================================================================
