----------------------- MODULE ExecutorOutcomeProofs -----------------------
(* Theorems about what an execution leaves behind: its row, its container,  *)
(* its verdict, and the life cycle that the three of them tell.             *)
EXTENDS ExecutorProofs

-----------------------------------------------------------------------------
(* The columns of a row agree *)

\* RowIsConsistent, of one row.
Consistent(row) ==
  /\ row.completed_at <=> row.status \in Terminal
  /\ row.status \in Verdict => row.started_at
  /\ row.exit_code # "null" => row.status \in {"completed", "failed"} /\ row.output
  /\ row.status = "completed" => row.exit_code = "zero" /\ row.container_id

\* A worker has begun and not concluded.
Begun(r) == r.status = "running" /\ r.started_at /\ ~r.completed_at /\ r.exit_code = "null"

\* The calls of a worker that has not concluded.
Open == {"create", "record", "own", "start", "attach", "abort", "exec",
         "attach_exec", "logs", "capture", "expire", "inspect"}

\* The record that the exec mode stores, with the status InspectExec gave it.
Completed(r) == [r EXCEPT !.completed_at = TRUE]

\* What a worker's record holds at each call.
RecordFits(e, at, r) ==
  /\ at \in {"launched", "mark"} => r = QueuedRow
  /\ at \in Open \/ (at = "artifacts" /\ Mode(e) = "create") => Begun(r)
  /\ at \in (Open \ {"create"}) \cup {"artifacts"} => r.container_id
  /\ at \in {"inspect", "artifacts"} => r.output
  /\ at = "inspect" => Mode(e) = "exec"
  /\ at = "artifacts" /\ Mode(e) # "create" => Consistent(Completed(r))
  /\ at = "persist" => Consistent(r)

\* The rows are consistent, and so is what a worker and a cancel request, each
\* with a copy of its own, are about to write over them.
RowInv ==
  /\ \A e \in Execution : Consistent(db[e]) /\ RecordFits(e, pc[e], rec[e])
  /\ \A c \in Canceller : cpc[c] \in {"loaded", "stopped", "fired"} =>
       Consistent(snap[c]) /\ snap[c].status \in {"queued", "running"}

LEMMA NewRows == Consistent(NoRow) /\ Consistent(QueuedRow)
BY DEF Consistent, NoRow, QueuedRow, Terminal, Verdict

LEMMA BegunRow ==
  ASSUME NEW r \in Row, Begun(r)
  PROVE  Consistent(r)
BY DEF Begun, Consistent, Terminal, Verdict

LEMMA StoppedRow ==
  ASSUME NEW r \in Row, Begun(r), NEW s \in {"failed", "timed_out"}
  PROVE  Consistent(Concluded(r, s))
BY DEF Begun, Consistent, Concluded, Row, Terminal, Verdict

LEMMA SucceededRow ==
  ASSUME NEW r \in Row, Begun(r), r.output, r.container_id
  PROVE  Consistent(Concluded([r EXCEPT !.exit_code = "zero"], "completed"))
BY DEF Begun, Consistent, Concluded, Row, Terminal, Verdict

LEMMA InspectedRow ==
  ASSUME NEW r \in Row, Begun(r), r.output, r.container_id,
         NEW s, s = [r EXCEPT !.exit_code = "zero", !.status = "completed"]
                \/ s = [r EXCEPT !.exit_code = "nonzero", !.status = "failed"]
  PROVE  Consistent(Completed(s)) /\ s.output /\ s.container_id
BY DEF Begun, Consistent, Completed, Row, Terminal, Verdict

LEMMA CancelledRow ==
  ASSUME NEW r \in Row, Consistent(r), r.status \in {"queued", "running"}
  PROVE  Consistent(Concluded(r, "cancelled"))
BY DEF Consistent, Concluded, Row, Terminal, Verdict

LEMMA MarkedRow ==
  ASSUME NEW b \in BOOLEAN, NEW r,
         r = [QueuedRow EXCEPT !.status = "running", !.started_at = TRUE, !.container_id = b]
  PROVE  Begun(r) /\ r.container_id = b
BY DEF Begun, QueuedRow, NoRow

\* The capture and the daemon's id of the container leave the rest of the record as it is.
LEMMA GrownRow ==
  ASSUME NEW r \in Row, Begun(r)
  PROVE  /\ LET s == [r EXCEPT !.output = TRUE]
            IN  s \in Row /\ Begun(s) /\ s.output /\ s.container_id = r.container_id
         /\ LET s == [r EXCEPT !.container_id = TRUE]
            IN  s \in Row /\ Begun(s) /\ s.container_id
BY DEF Begun, Row

\* One execution's row and record change.
LEMMA RowMoves ==
  ASSUME RowInv, NEW e \in Execution, UNCHANGED <<cpc, snap>>,
         \A f \in Execution \ {e} : db'[f] = db[f] /\ rec'[f] = rec[f] /\ pc'[f] = pc[f],
         Consistent(db'[e]), RecordFits(e, pc'[e], rec'[e])
  PROVE  RowInv'
BY DEF RowInv, RecordFits, Mode

\* A worker concludes with a consistent record, whatever the failure.
LEMMA ConcludeFits ==
  ASSUME TypeOK, NEW e \in Execution, NEW r, Consistent(r), Conclude(e, r)
  PROVE  /\ RecordFits(e, pc'[e], rec'[e])
         /\ \A f \in Execution \ {e} : rec'[f] = rec[f] /\ pc'[f] = pc[f]
<1>1. rec' = [rec EXCEPT ![e] = r] /\ pc' = [pc EXCEPT ![e] = "persist"]
  BY DEF Conclude, Goto
<1>2. rec'[e] = r /\ pc'[e] = "persist"
  BY <1>1 DEF TypeOK
<1> QED
  BY <1>1, <1>2 DEF RecordFits, Open

LEMMA FailFits ==
  ASSUME TypeOK, NEW e \in Execution, Begun(rec[e]), Fail(e)
  PROVE  /\ RecordFits(e, pc'[e], rec'[e])
         /\ \A f \in Execution \ {e} : rec'[f] = rec[f] /\ pc'[f] = pc[f]
<1>1. Consistent(Concluded(rec[e], "failed"))
  BY StoppedRow DEF TypeOK
<1> QED
  BY <1>1, ConcludeFits DEF Fail

\* A worker goes from one call to another with its record.
LEMMA GotoFits ==
  ASSUME TypeOK, NEW e \in Execution, NEW next, RecordFits(e, pc[e], rec[e]),
         UNCHANGED rec, Goto(e, next),
         \/ pc[e] \in Open \ {"create"} /\ next \in Open \ {"create", "inspect"}
         \/ next \notin Open \cup {"launched", "mark", "artifacts", "persist"}
  PROVE  /\ RecordFits(e, pc'[e], rec'[e])
         /\ \A f \in Execution \ {e} : rec'[f] = rec[f] /\ pc'[f] = pc[f]
<1>1. rec' = rec /\ pc' = [pc EXCEPT ![e] = next] /\ pc'[e] = next
  BY DEF Goto, TypeOK
<1> QED
  BY <1>1 DEF RecordFits, Open

LEMMA RowStep == TypeInv /\ RowInv /\ [Next]_vars => RowInv'
<1> SUFFICES ASSUME TypeInv, RowInv, [Next]_vars PROVE RowInv'
  OBVIOUS
<1>t. /\ TypeOK /\ db \in [Execution -> Row] /\ rec \in [Execution -> Row]
      /\ pc \in [Execution -> PCs] /\ cpc \in [Canceller -> CPCs] /\ snap \in [Canceller -> Row]
      /\ TargetOf \in [Canceller -> Execution]
  BY CommandsAssumption DEF TypeInv, TypeOK
<1>f. \A e \in Execution : Consistent(db[e]) /\ RecordFits(e, pc[e], rec[e])
  BY DEF RowInv
<1>0. ASSUME UNCHANGED <<db, rec, pc, cpc, snap>> PROVE RowInv'
  BY <1>0 DEF RowInv, RecordFits, Mode
<1>a. ASSUME NEW e \in Execution, UNCHANGED <<db, rec, cpc, snap>>, NEW next, Goto(e, next),
             \/ pc[e] \in Open \ {"create"} /\ next \in Open \ {"create", "inspect"}
             \/ next \notin Open \cup {"launched", "mark", "artifacts", "persist"}
      PROVE  RowInv'
  BY <1>a, <1>t, <1>f, GotoFits, RowMoves
<1>b. ASSUME NEW e \in Execution, UNCHANGED <<db, cpc, snap>>, NEW r, Consistent(r), Conclude(e, r)
      PROVE  RowInv'
  BY <1>b, <1>t, <1>f, ConcludeFits, RowMoves
<1>c. ASSUME NEW e \in Execution, UNCHANGED <<db, cpc, snap>>, pc[e] \in Open, Fail(e)
      PROVE  RowInv'
  <2>1. Begun(rec[e])
    BY <1>c, <1>f DEF RecordFits
  <2> QED
    BY <1>c, <2>1, <1>t, <1>f, FailFits, RowMoves
<1> USE DEF workerVars, dockerVars, maps, cancelVars, outVars
<1>1. ASSUME NEW e \in Execution, Check(e) PROVE RowInv'
  BY <1>1, <1>a DEF Check, Open
<1>2. ASSUME NEW e \in Execution, Reject(e) PROVE RowInv'
  BY <1>2, <1>a DEF Reject, Step, Open
<1>3. ASSUME NEW e \in Execution, Launch(e) PROVE RowInv'
  <2>1. CASE UNCHANGED <<db, rec>> /\ Goto(e, "rejected")
    BY <1>3, <1>a, <2>1 DEF Launch, Open
  <2>2. CASE /\ db' = [db EXCEPT ![e] = QueuedRow] /\ rec' = [rec EXCEPT ![e] = QueuedRow]
             /\ Goto(e, "launched")
    <3>1. db'[e] = QueuedRow /\ rec'[e] = QueuedRow /\ pc'[e] = "launched"
      BY <2>2, <1>t DEF Goto
    <3>2. \A f \in Execution \ {e} : db'[f] = db[f] /\ rec'[f] = rec[f] /\ pc'[f] = pc[f]
      BY <2>2, <1>t DEF Goto
    <3>3. Consistent(db'[e]) /\ RecordFits(e, pc'[e], rec'[e])
      BY <3>1, NewRows DEF RecordFits, Open
    <3> QED
      BY <1>3, <3>2, <3>3, RowMoves DEF Launch
  <2> QED
    BY <1>3, <2>1, <2>2 DEF Launch
<1>4. ASSUME NEW e \in Execution, Register(e) PROVE RowInv'
  <2>1. pc[e] = "launched" /\ pc' = [pc EXCEPT ![e] = "mark"] /\ UNCHANGED <<db, rec, cpc, snap>>
    BY <1>4 DEF Register, Step, Goto
  <2>2. RecordFits(e, pc'[e], rec'[e])
    BY <2>1, <1>t, <1>f DEF RecordFits, Open
  <2> QED
    BY <2>1, <2>2, <1>t, <1>f, RowMoves
<1>5. ASSUME NEW e \in Execution, MarkRunning(e) PROVE RowInv'
  <2> DEFINE r == [rec[e] EXCEPT !.status = "running", !.started_at = TRUE,
                                 !.container_id = (Mode(e) # "create")]
  <2>1. /\ pc[e] = "mark" /\ pc' = [pc EXCEPT ![e] = Mode(e)] /\ rec' = [rec EXCEPT ![e] = r]
        /\ (db' = [db EXCEPT ![e] = r]) \/ UNCHANGED db
        /\ UNCHANGED <<cpc, snap>>
    BY <1>5 DEF MarkRunning, Step, Goto, Save
  <2>2. Mode(e) \in Modes
    BY CommandsAssumption DEF Mode
  <2>3. r = [QueuedRow EXCEPT !.status = "running", !.started_at = TRUE,
                              !.container_id = (Mode(e) # "create")]
    BY <2>1, <1>f DEF RecordFits
  <2>4. r \in Row /\ Begun(r) /\ r.container_id = (Mode(e) # "create")
    <3>1. r \in Row
      BY <1>t, RunningRow
    <3> HIDE DEF r
    <3> QED
      BY <3>1, <2>3, MarkedRow
  <2> HIDE DEF r
  <2>5. Consistent(r) /\ RecordFits(e, Mode(e), r)
    BY <2>2, <2>4, BegunRow DEF RecordFits, Modes, Open
  <2>6. /\ db'[e] \in {r, db[e]} /\ rec'[e] = r /\ pc'[e] = Mode(e)
        /\ \A f \in Execution \ {e} : db'[f] = db[f] /\ rec'[f] = rec[f] /\ pc'[f] = pc[f]
    BY <2>1, <1>t
  <2> QED
    BY <2>1, <2>5, <2>6, <1>f, RowMoves
<1>6. ASSUME NEW e \in Execution, Capture(e) PROVE RowInv'
  <2> DEFINE r == [rec[e] EXCEPT !.output = TRUE]
             z == [r EXCEPT !.exit_code = "zero"]
  <2>1. Begun(rec[e]) /\ rec[e].container_id /\ UNCHANGED <<db, cpc, snap>>
    BY <1>6, <1>f DEF Capture, RecordFits, Open
  <2>2. r \in Row /\ Begun(r) /\ r.output /\ r.container_id
    BY <1>t, <2>1, GrownRow
  <2>3. \/ Conclude(e, Concluded(r, "timed_out")) \/ Conclude(e, Concluded(z, "completed"))
        \/ rec' = [rec EXCEPT ![e] = r] /\ Goto(e, "artifacts") /\ Mode(e) = "create"
        \/ rec' = [rec EXCEPT ![e] = r] /\ Goto(e, "inspect") /\ Mode(e) = "exec"
        \/ \E next \in {"expire", "remove", "unregister"} :
             rec' = [rec EXCEPT ![e] = r] /\ Goto(e, next)
    BY <1>6 DEF Capture
  <2>4. Consistent(Concluded(r, "timed_out")) /\ Consistent(Concluded(z, "completed"))
    <3> HIDE DEF r
    <3> QED
      BY <2>2, StoppedRow, SucceededRow
  <2> HIDE DEF r, z
  <2>5. CASE \E next \in {"artifacts", "inspect", "expire", "remove", "unregister"} :
               /\ rec' = [rec EXCEPT ![e] = r] /\ Goto(e, next)
               /\ next = "artifacts" => Mode(e) = "create"
               /\ next = "inspect" => Mode(e) = "exec"
    <3>1. PICK next \in {"artifacts", "inspect", "expire", "remove", "unregister"} :
               /\ rec' = [rec EXCEPT ![e] = r] /\ Goto(e, next)
               /\ next = "artifacts" => Mode(e) = "create"
               /\ next = "inspect" => Mode(e) = "exec"
      BY <2>5
    <3>2. /\ rec'[e] = r /\ pc'[e] = next
          /\ \A f \in Execution \ {e} : rec'[f] = rec[f] /\ pc'[f] = pc[f]
      BY <3>1, <1>t DEF Goto
    <3>3. RecordFits(e, next, r)
      BY <3>1, <2>2 DEF RecordFits, Open
    <3> QED
      BY <2>1, <3>2, <3>3, <1>f, RowMoves
  <2> QED
    BY <2>1, <2>3, <2>4, <2>5, <1>b
<1>7. ASSUME NEW e \in Execution, CopyArtifacts(e) PROVE RowInv'
  <2>1. CASE /\ Mode(e) = "create"
             /\ Conclude(e, Concluded([rec[e] EXCEPT !.exit_code = "zero"], "completed"))
    <3>1. Begun(rec[e]) /\ rec[e].output /\ rec[e].container_id
      BY <1>7, <2>1, <1>f DEF CopyArtifacts, RecordFits
    <3>2. Consistent(Concluded([rec[e] EXCEPT !.exit_code = "zero"], "completed"))
      BY <3>1, <1>t, SucceededRow
    <3> QED
      BY <1>7, <2>1, <3>2, <1>b DEF CopyArtifacts
  <2>2. CASE Mode(e) = "exec" /\ Conclude(e, Completed(rec[e]))
    <3>1. Consistent(Completed(rec[e]))
      BY <1>7, <2>2, <1>f DEF CopyArtifacts, RecordFits
    <3> QED
      BY <1>7, <2>2, <3>1, <1>b DEF CopyArtifacts
  <2> QED
    BY <1>7, <2>1, <2>2 DEF CopyArtifacts, Completed
<1>8. ASSUME NEW e \in Execution, Persist(e) PROVE RowInv'
  <2>1. /\ pc[e] = "persist" /\ pc' = [pc EXCEPT ![e] = "notify"]
        /\ (db' = [db EXCEPT ![e] = rec[e]]) \/ UNCHANGED db
        /\ UNCHANGED <<rec, cpc, snap>>
    BY <1>8 DEF Persist, Step, Goto, Save
  <2>2. Consistent(rec[e])
    BY <2>1, <1>f DEF RecordFits
  <2>3. Consistent(db'[e]) /\ RecordFits(e, pc'[e], rec'[e])
    BY <2>1, <2>2, <1>t, <1>f DEF RecordFits, Open
  <2>4. \A f \in Execution \ {e} : db'[f] = db[f] /\ rec'[f] = rec[f] /\ pc'[f] = pc[f]
    BY <2>1, <1>t
  <2> QED
    BY <2>1, <2>3, <2>4, RowMoves
<1>9. ASSUME NEW e \in Execution, Notify(e) PROVE RowInv'
  BY <1>9, <1>a DEF Notify, Step, Open
<1>10. ASSUME NEW e \in Execution, Signal(e) PROVE RowInv'
  BY <1>10, <1>a DEF Signal, Step, Open
<1>11. ASSUME NEW e \in Execution, Remove(e) PROVE RowInv'
  BY <1>11, <1>a DEF Remove, Step, Open
<1>12. ASSUME NEW e \in Execution, Disown(e) PROVE RowInv'
  BY <1>12, <1>a DEF Disown, Step, Open
<1>13. ASSUME NEW e \in Execution, Unregister(e) PROVE RowInv'
  BY <1>13, <1>a DEF Unregister, Step, Open
<1>14. ASSUME NEW e \in Execution, CreateContainer(e) PROVE RowInv'
  <2>1. CASE Fail(e)
    BY <1>14, <2>1, <1>c DEF CreateContainer, Open
  <2>2. CASE rec' = [rec EXCEPT ![e].container_id = TRUE] /\ Goto(e, "record")
    <3>1. Begun(rec[e])
      BY <1>14, <1>f DEF CreateContainer, RecordFits, Open
    <3>2. /\ rec'[e] = [rec[e] EXCEPT !.container_id = TRUE] /\ pc'[e] = "record"
          /\ \A f \in Execution \ {e} : rec'[f] = rec[f] /\ pc'[f] = pc[f]
      BY <2>2, <1>t DEF Goto
    <3>3. Begun(rec'[e]) /\ rec'[e].container_id
      BY <3>1, <3>2, <1>t, GrownRow
    <3>4. RecordFits(e, pc'[e], rec'[e])
      BY <3>2, <3>3 DEF RecordFits, Open
    <3> QED
      BY <1>14, <3>2, <3>4, <1>f, RowMoves DEF CreateContainer
  <2> QED
    BY <1>14, <2>1, <2>2 DEF CreateContainer
<1>15. ASSUME NEW e \in Execution, RecordContainer(e) PROVE RowInv'
  <2>1. /\ pc[e] = "record" /\ Goto(e, "own") /\ UNCHANGED <<rec, cpc, snap>>
        /\ (db' = [db EXCEPT ![e] = rec[e]]) \/ UNCHANGED db
    BY <1>15 DEF RecordContainer, Step, Save
  <2>2. Consistent(rec[e])
    BY <2>1, <1>t, <1>f, BegunRow DEF RecordFits, Open
  <2>3. /\ Consistent(db'[e])
        /\ \A f \in Execution \ {e} : db'[f] = db[f]
    BY <2>1, <2>2, <1>t, <1>f
  <2>4. /\ RecordFits(e, pc'[e], rec'[e])
        /\ \A f \in Execution \ {e} : rec'[f] = rec[f] /\ pc'[f] = pc[f]
    BY <2>1, <1>t, <1>f, GotoFits DEF Open
  <2> QED
    BY <2>1, <2>3, <2>4, RowMoves
<1>16. ASSUME NEW e \in Execution, Own(e) PROVE RowInv'
  BY <1>16, <1>a DEF Own, Step, Open
<1>17. ASSUME NEW e \in Execution, StartContainer(e) PROVE RowInv'
  BY <1>17, <1>a, <1>c DEF StartContainer, Open
<1>18. ASSUME NEW e \in Execution, AttachStream(e) PROVE RowInv'
  BY <1>18, <1>a DEF AttachStream, Open
<1>19. ASSUME NEW e \in Execution, Abort(e) PROVE RowInv'
  BY <1>19, <1>c DEF Abort, Open
<1>20. ASSUME NEW e \in Execution, Expire(e) PROVE RowInv'
  <2>1. Begun(rec[e]) /\ rec[e] \in Row
    BY <1>20, <1>t, <1>f DEF Expire, RecordFits, Open
  <2>2. Consistent(Concluded(rec[e], "timed_out"))
    BY <2>1, StoppedRow
  <2> QED
    BY <1>20, <2>2, <1>b DEF Expire
<1>21. ASSUME NEW e \in Execution, ExecInContainer(e) PROVE RowInv'
  BY <1>21, <1>a, <1>c DEF ExecInContainer, Open
<1>22. ASSUME NEW e \in Execution, AttachExecStream(e) PROVE RowInv'
  BY <1>22, <1>a, <1>c DEF AttachExecStream, Open
<1>23. ASSUME NEW e \in Execution, InspectExec(e) PROVE RowInv'
  <2>1. CASE Fail(e)
    BY <1>23, <2>1, <1>c DEF InspectExec, Open
  <2>2. CASE /\ rec' = [rec EXCEPT
                   ![e].exit_code = IF code[e] = "nonzero" THEN "nonzero" ELSE "zero",
                   ![e].status    = IF code[e] = "nonzero" THEN "failed" ELSE "completed"]
             /\ Goto(e, "artifacts")
    <3>1. rec[e] \in Row /\ Begun(rec[e]) /\ rec[e].output /\ rec[e].container_id /\ Mode(e) = "exec"
      BY <1>23, <1>t, <1>f DEF InspectExec, RecordFits, Open
    <3>2. /\ \/ rec'[e] = [rec[e] EXCEPT !.exit_code = "zero", !.status = "completed"]
             \/ rec'[e] = [rec[e] EXCEPT !.exit_code = "nonzero", !.status = "failed"]
          /\ pc'[e] = "artifacts"
          /\ \A f \in Execution \ {e} : rec'[f] = rec[f] /\ pc'[f] = pc[f]
      BY <2>2, <1>t DEF Goto
    <3>3. Consistent(Completed(rec'[e])) /\ rec'[e].output /\ rec'[e].container_id
      BY <3>1, <3>2, InspectedRow
    <3>4. RecordFits(e, pc'[e], rec'[e])
      BY <3>1, <3>2, <3>3 DEF RecordFits, Open
    <3> QED
      BY <1>23, <3>2, <3>4, <1>f, RowMoves DEF InspectExec
  <2> QED
    BY <1>23, <2>1, <2>2 DEF InspectExec
<1>24. ASSUME NEW e \in Execution, ContainerLogs(e) PROVE RowInv'
  BY <1>24, <1>a, <1>c DEF ContainerLogs, Open
<1>25. ASSUME NEW e \in Execution, Deadline(e) PROVE RowInv'
  BY <1>25, <1>0 DEF Deadline
<1>26. ASSUME NEW e \in Execution, ProcessExit(e) PROVE RowInv'
  BY <1>26, <1>0 DEF ProcessExit
<1>27. ASSUME NEW e \in Execution, StreamEnd(e) PROVE RowInv'
  BY <1>27, <1>0 DEF StreamEnd, CloseOutput
<1>28. ASSUME NEW e \in Execution, DemuxCancelled(e) PROVE RowInv'
  BY <1>28, <1>0 DEF DemuxCancelled, CloseOutput
<1>29. ASSUME NEW c \in Canceller, CancelLoad(c) PROVE RowInv'
  <2>1. /\ UNCHANGED <<db, rec, pc>> /\ \A d \in Canceller \ {c} : cpc'[d] = cpc[d] /\ snap'[d] = snap[d]
        /\ \/ cpc'[c] = "refused"
           \/ /\ cpc'[c] = "loaded" /\ snap'[c] = db[TargetOf[c]]
              /\ db[TargetOf[c]].status \in {"queued", "running"}
    BY <1>29, <1>t DEF CancelLoad
  <2> QED
    BY <2>1, <1>t DEF RowInv, RecordFits, Mode
<1>30. ASSUME NEW c \in Canceller, CancelStop(c) PROVE RowInv'
  <2>1. /\ UNCHANGED <<db, rec, pc, snap>> /\ \A d \in Canceller \ {c} : cpc'[d] = cpc[d]
        /\ cpc[c] = "loaded"
    BY <1>30, <1>t DEF CancelStop
  <2> QED
    BY <2>1 DEF RowInv, RecordFits, Mode
<1>31. ASSUME NEW c \in Canceller, CancelFire(c) PROVE RowInv'
  <2>1. /\ UNCHANGED <<db, rec, pc, snap>> /\ \A d \in Canceller \ {c} : cpc'[d] = cpc[d]
        /\ cpc[c] = "stopped"
    BY <1>31, <1>t DEF CancelFire
  <2> QED
    BY <2>1 DEF RowInv, RecordFits, Mode
<1>32. ASSUME NEW c \in Canceller, CancelWrite(c) PROVE RowInv'
  <2>1. /\ UNCHANGED <<rec, pc, snap>> /\ cpc[c] = "fired" /\ cpc'[c] \in {"wrote", "failed"}
        /\ \A d \in Canceller \ {c} : cpc'[d] = cpc[d]
        /\ (db' = [db EXCEPT ![TargetOf[c]] = Concluded(snap[c], "cancelled")]) \/ UNCHANGED db
    BY <1>32, <1>t DEF CancelWrite
  <2>2. Consistent(Concluded(snap[c], "cancelled"))
    BY <2>1, <1>t, CancelledRow DEF RowInv
  <2>3. \A e \in Execution : Consistent(db'[e])
    BY <2>1, <2>2, <1>t, <1>f
  <2> QED
    BY <2>1, <2>3, <1>t DEF RowInv, RecordFits, Mode
<1>33. ASSUME NEW c \in Canceller, CancelSignal(c) PROVE RowInv'
  <2>1. /\ UNCHANGED <<db, rec, pc, snap>> /\ \A d \in Canceller \ {c} : cpc'[d] = cpc[d]
        /\ cpc'[c] = "done"
    BY <1>33, <1>t DEF CancelSignal
  <2> QED
    BY <2>1 DEF RowInv, RecordFits, Mode
<1>34. CASE Restart
  <2>1. /\ UNCHANGED <<db, rec, snap>>
        /\ \A e \in Execution : pc'[e] = "lost" \/ pc'[e] = pc[e]
        /\ \A c \in Canceller : cpc'[c] = "lost" \/ cpc'[c] = cpc[c]
    BY <1>34 DEF Restart
  <2> QED
    BY <2>1 DEF RowInv, RecordFits, Mode, Open
<1>35. CASE UNCHANGED vars
  BY <1>35, <1>0 DEF vars
<1> QED
  BY <1>1, <1>2, <1>3, <1>4, <1>5, <1>6, <1>7, <1>8, <1>9, <1>10,
     <1>11, <1>12, <1>13, <1>14, <1>15, <1>16, <1>17, <1>18, <1>19, <1>20,
     <1>21, <1>22, <1>23, <1>24, <1>25, <1>26, <1>27, <1>28, <1>29, <1>30,
     <1>31, <1>32, <1>33, <1>34, <1>35
  DEF Next, Handler, Worker, Environment, Cancel

\* The columns of a row agree with each other whatever fails and even over a
\* restart, although the worker and the cancel requests each overwrite the whole
\* row with a copy of their own.
THEOREM RowConsistent == Spec => []RowIsConsistent
<1>1. Init => RowInv
  BY NewRows DEF Init, RowInv, RecordFits, Open
<1>2. RowInv => RowIsConsistent
  BY DEF RowInv, RowIsConsistent, Consistent
<1> QED
  BY TypeInit, TypeStep, RowStep, <1>1, <1>2, PTL DEF Spec

-----------------------------------------------------------------------------
(* No container is left behind *)

\* The calls a create-mode worker makes between ownedContainers.Store and Delete.
Owning == {"start", "attach", "abort", "capture", "expire", "artifacts", "remove", "disown"}

\* A container exists only between ContainerCreate and the deferred removal, and
\* from Own on the removal is deferred.
ContainerInv ==
  \A e \in Execution : Mode(e) = "create" =>
    /\ pc[e] \notin {"exec", "attach_exec", "logs", "inspect"}
    /\ e \in owned => pc[e] \in Owning \cup {"persist", "notify", "signal"}
    /\ pc[e] \in Owning => e \in owned
    /\ (e \notin owned /\ pc[e] \notin {"record", "own", "lost"}) \/ pc[e] = "disown"
         => process[e] \in {"none", "removed"}

LEMMA ContainerStep ==
  Faults \cap {"reply", "remove"} = {} /\ TypeInv /\ ContainerInv /\ [Next]_vars => ContainerInv'
<1> SUFFICES ASSUME Faults \cap {"reply", "remove"} = {}, TypeInv, ContainerInv, [Next]_vars
             PROVE  ContainerInv'
  OBVIOUS
<1>t. /\ pc \in [Execution -> PCs] /\ process \in [Execution -> ProcessStates]
      /\ TargetOf \in [Canceller -> Execution]
  BY CommandsAssumption DEF TypeInv, TypeOK
<1> USE <1>t DEF workerVars, dockerVars, maps, cancelVars, outVars, Owning
<1>1. ASSUME NEW e \in Execution, Check(e) PROVE ContainerInv'
  BY <1>1 DEF Check, Step, Goto, ContainerInv
<1>2. ASSUME NEW e \in Execution, Reject(e) PROVE ContainerInv'
  BY <1>2 DEF Reject, Step, Goto, ContainerInv
<1>3. ASSUME NEW e \in Execution, Launch(e) PROVE ContainerInv'
  BY <1>3 DEF Launch, Step, Goto, ContainerInv
<1>4. ASSUME NEW e \in Execution, Register(e) PROVE ContainerInv'
  BY <1>4 DEF Register, Step, Goto, ContainerInv
<1>5. ASSUME NEW e \in Execution, MarkRunning(e) PROVE ContainerInv'
  BY CommandsAssumption, <1>5 DEF MarkRunning, Step, Goto, Mode, Modes, ContainerInv
<1>6. ASSUME NEW e \in Execution, Capture(e) PROVE ContainerInv'
  BY <1>6 DEF Capture, Step, Goto, Conclude, ContainerInv
<1>7. ASSUME NEW e \in Execution, CopyArtifacts(e) PROVE ContainerInv'
  BY <1>7 DEF CopyArtifacts, Step, Goto, Conclude, ContainerInv
<1>8. ASSUME NEW e \in Execution, Persist(e) PROVE ContainerInv'
  BY <1>8 DEF Persist, Step, Goto, ContainerInv
<1>9. ASSUME NEW e \in Execution, Notify(e) PROVE ContainerInv'
  BY <1>9 DEF Notify, Step, Goto, ContainerInv
<1>10. ASSUME NEW e \in Execution, Signal(e) PROVE ContainerInv'
  BY <1>10 DEF Signal, Step, Goto, ContainerInv
<1>11. ASSUME NEW e \in Execution, Remove(e) PROVE ContainerInv'
  BY <1>11 DEF Remove, Step, Goto, ContainerInv
<1>12. ASSUME NEW e \in Execution, Disown(e) PROVE ContainerInv'
  BY <1>12 DEF Disown, Step, Goto, ContainerInv
<1>13. ASSUME NEW e \in Execution, Unregister(e) PROVE ContainerInv'
  BY <1>13 DEF Unregister, Step, Goto, ContainerInv
<1>14. ASSUME NEW e \in Execution, CreateContainer(e) PROVE ContainerInv'
  BY <1>14 DEF CreateContainer, Step, Goto, Fail, Conclude, ContainerInv
<1>15. ASSUME NEW e \in Execution, RecordContainer(e) PROVE ContainerInv'
  BY <1>15 DEF RecordContainer, Step, Goto, ContainerInv
<1>16. ASSUME NEW e \in Execution, Own(e) PROVE ContainerInv'
  BY <1>16 DEF Own, Step, Goto, ContainerInv
<1>17. ASSUME NEW e \in Execution, StartContainer(e) PROVE ContainerInv'
  BY <1>17 DEF StartContainer, Step, Goto, Fail, Conclude, ContainerInv
<1>18. ASSUME NEW e \in Execution, AttachStream(e) PROVE ContainerInv'
  BY <1>18 DEF AttachStream, Step, Goto, ContainerInv
<1>19. ASSUME NEW e \in Execution, Abort(e) PROVE ContainerInv'
  BY <1>19 DEF Abort, Step, Goto, Fail, Conclude, Stop, ContainerInv
<1>20. ASSUME NEW e \in Execution, Expire(e) PROVE ContainerInv'
  BY <1>20 DEF Expire, Step, Goto, Conclude, Stop, ContainerInv
<1>21. ASSUME NEW e \in Execution, ExecInContainer(e) PROVE ContainerInv'
  BY <1>21 DEF ExecInContainer, Step, Goto, Fail, Conclude, ContainerInv
<1>22. ASSUME NEW e \in Execution, AttachExecStream(e) PROVE ContainerInv'
  BY <1>22 DEF AttachExecStream, Step, Goto, Fail, Conclude, ContainerInv
<1>23. ASSUME NEW e \in Execution, InspectExec(e) PROVE ContainerInv'
  BY <1>23 DEF InspectExec, Step, Goto, Fail, Conclude, ContainerInv
<1>24. ASSUME NEW e \in Execution, ContainerLogs(e) PROVE ContainerInv'
  BY <1>24 DEF ContainerLogs, Step, Goto, Fail, Conclude, ContainerInv
<1>25. ASSUME NEW e \in Execution, Deadline(e) PROVE ContainerInv'
  BY <1>25 DEF Deadline, Step, Goto, ContainerInv
<1>26. ASSUME NEW e \in Execution, ProcessExit(e) PROVE ContainerInv'
  BY <1>26 DEF ProcessExit, Step, Goto, ContainerInv
<1>27. ASSUME NEW e \in Execution, StreamEnd(e) PROVE ContainerInv'
  BY <1>27 DEF StreamEnd, Step, Goto, CloseOutput, ContainerInv
<1>28. ASSUME NEW e \in Execution, DemuxCancelled(e) PROVE ContainerInv'
  BY <1>28 DEF DemuxCancelled, Step, Goto, CloseOutput, ContainerInv
<1>29. ASSUME NEW c \in Canceller, CancelLoad(c) PROVE ContainerInv'
  BY <1>29 DEF CancelLoad, Step, Goto, ContainerInv
<1>30. ASSUME NEW c \in Canceller, CancelStop(c) PROVE ContainerInv'
  BY <1>30 DEF CancelStop, Step, Goto, Stop, ContainerInv
<1>31. ASSUME NEW c \in Canceller, CancelFire(c) PROVE ContainerInv'
  BY <1>31 DEF CancelFire, Step, Goto, ContainerInv
<1>32. ASSUME NEW c \in Canceller, CancelWrite(c) PROVE ContainerInv'
  BY <1>32 DEF CancelWrite, Step, Goto, ContainerInv
<1>33. ASSUME NEW c \in Canceller, CancelSignal(c) PROVE ContainerInv'
  BY <1>33 DEF CancelSignal, Step, Goto, ContainerInv
<1>34. CASE Restart
  BY <1>34 DEF Restart, Step, Goto, Idle, ContainerInv
<1>35. CASE UNCHANGED vars
  BY <1>35 DEF vars, Step, Goto, ContainerInv
<1> QED
  BY <1>1, <1>2, <1>3, <1>4, <1>5, <1>6, <1>7, <1>8, <1>9, <1>10,
     <1>11, <1>12, <1>13, <1>14, <1>15, <1>16, <1>17, <1>18, <1>19, <1>20,
     <1>21, <1>22, <1>23, <1>24, <1>25, <1>26, <1>27, <1>28, <1>29, <1>30,
     <1>31, <1>32, <1>33, <1>34, <1>35
  DEF Next, Handler, Worker, Environment, Cancel

\* Unless an answer of the daemon is lost or the removal itself is refused, a
\* create-mode worker that has returned has left no container: on every failing
\* call, deadline, cancellation and restart the deferred RemoveContainer covers
\* what ContainerCreate made.
THEOREM NoContainerLeft ==
  ASSUME Faults \cap {"reply", "remove"} = {}
  PROVE  Spec => []NoContainerLeak
<1>1. Init => ContainerInv
  BY DEF Init, ContainerInv, Owning
<1>2. TypeInv /\ ContainerInv /\ [Next]_vars => ContainerInv'
  BY ContainerStep
<1>3. ContainerInv => NoContainerLeak
  BY DEF ContainerInv, NoContainerLeak, Owning
<1> QED
  BY TypeInit, TypeStep, <1>1, <1>2, <1>3, PTL DEF Spec

-----------------------------------------------------------------------------
(* One verdict: the row, the notification, the stream *)

\* The worker has told the user.
Settled == {"signal", "remove", "disown", "unregister", "done"}

\* Without a cancel request the three writes of the verdict are of one value, in
\* the order Persist, Notify, Signal, and none is made twice or left out.
VerdictInv ==
  \A e \in Execution : ~Touched(e) =>
    /\ ctx[e] # "canceled"
    /\ pc[e] \in {"notify"} \cup Settled => db[e].status \in Verdict
    /\ pc[e] \in {"notify", "signal"} => db[e] = rec[e]
    /\ notices[e] = IF pc[e] \in Settled THEN <<db[e].status>> ELSE <<>>
    /\ stream[e] = IF pc[e] \in Settled \ {"signal"} THEN db[e].status ELSE "open"

LEMMA VerdictStep ==
  "database" \notin Faults /\ MaxCrashes = 0 /\ TypeInv /\ VerdictInv /\ [Next]_vars => VerdictInv'
<1> SUFFICES ASSUME "database" \notin Faults, MaxCrashes = 0, TypeInv, VerdictInv, [Next]_vars
             PROVE  VerdictInv'
  OBVIOUS
<1>t. /\ pc \in [Execution -> PCs] /\ db \in [Execution -> Row] /\ rec \in [Execution -> Row]
      /\ ctx \in [Execution -> CtxStates] /\ stream \in [Execution -> {"open"} \cup Terminal]
      /\ cpc \in [Canceller -> CPCs] /\ crashes \in Nat
      /\ TargetOf \in [Canceller -> Execution]
      /\ VerdictReady
  BY CommandsAssumption DEF TypeInv, TypeOK
<1> USE <1>t DEF workerVars, dockerVars, maps, cancelVars, outVars
<1>1. ASSUME NEW e \in Execution, Check(e) PROVE VerdictInv'
  BY <1>1 DEF Check, Step, Goto, VerdictInv, Touched, Settled
<1>2. ASSUME NEW e \in Execution, Reject(e) PROVE VerdictInv'
  BY <1>2 DEF Reject, Step, Goto, VerdictInv, Touched, Settled
<1>3. ASSUME NEW e \in Execution, Launch(e) PROVE VerdictInv'
  <2>1. /\ UNCHANGED <<ctx, notices, stream, cpc>> /\ pc[e] = "checked"
        /\ pc'[e] \in {"launched", "rejected"}
        /\ \A f \in Execution \ {e} : db'[f] = db[f] /\ rec'[f] = rec[f] /\ pc'[f] = pc[f]
    BY <1>3 DEF Launch, Goto
  <2> QED
    BY <2>1 DEF VerdictInv, Touched, Settled
<1>4. ASSUME NEW e \in Execution, Register(e) PROVE VerdictInv'
  BY <1>4 DEF Register, Step, Goto, VerdictInv, Touched, Settled
<1>5. ASSUME NEW e \in Execution, MarkRunning(e) PROVE VerdictInv'
  <2>1. pc[e] = "mark" /\ pc' = [pc EXCEPT ![e] = Mode(e)] /\ Mode(e) \in Modes
    BY <1>5, CommandsAssumption DEF MarkRunning, Step, Goto, Mode
  <2>2. /\ UNCHANGED <<ctx, notices, stream, cpc>>
        /\ \A f \in Execution \ {e} : db'[f] = db[f] /\ rec'[f] = rec[f]
    BY <1>5 DEF MarkRunning, Save
  <2>3. pc'[e] \in Modes /\ \A f \in Execution \ {e} : pc'[f] = pc[f]
    BY <2>1
  <2> DEFINE Held(f) == ~Touched(f)' =>
        /\ ctx'[f] # "canceled"
        /\ pc'[f] \in {"notify"} \cup Settled => db'[f].status \in Verdict
        /\ pc'[f] \in {"notify", "signal"} => db'[f] = rec'[f]
        /\ notices'[f] = IF pc'[f] \in Settled THEN <<db'[f].status>> ELSE <<>>
        /\ stream'[f] = IF pc'[f] \in Settled \ {"signal"} THEN db'[f].status ELSE "open"
  <2>4. \A f \in Execution \ {e} : Held(f)
    BY <2>2, <2>3 DEF VerdictInv, Touched
  <2>5. Held(e)
    BY <2>1, <2>2, <2>3 DEF VerdictInv, Touched, Settled, Modes
  <2> QED
    BY <2>4, <2>5 DEF VerdictInv
<1>6. ASSUME NEW e \in Execution, Capture(e) PROVE VerdictInv'
  <2>1. /\ UNCHANGED <<db, ctx, notices, stream, cpc>> /\ pc[e] = "capture"
        /\ \A f \in Execution \ {e} : rec'[f] = rec[f] /\ pc'[f] = pc[f]
    BY <1>6 DEF Capture, Conclude, Goto
  <2>2. pc'[e] \in {"expire", "persist", "artifacts", "inspect"} \/ ctx[e] = "canceled"
    BY <1>6 DEF Capture, Conclude, Goto
  <2> QED
    BY <2>1, <2>2 DEF VerdictInv, Touched, Settled
<1>7. ASSUME NEW e \in Execution, CopyArtifacts(e) PROVE VerdictInv'
  BY <1>7 DEF CopyArtifacts, Step, Goto, Conclude, VerdictInv, Touched, Settled
<1>8. ASSUME NEW e \in Execution, Persist(e) PROVE VerdictInv'
  <2>1. pc[e] = "persist" /\ pc' = [pc EXCEPT ![e] = "notify"] /\ rec[e].status \in Verdict
    BY <1>8 DEF Persist, Step, Goto, VerdictReady
  <2>2. UNCHANGED <<rec, ctx, notices, stream, cpc>> /\ db' = [db EXCEPT ![e] = rec[e]]
    BY <1>8 DEF Persist, Save
  <2> QED
    BY <2>1, <2>2 DEF VerdictInv, Touched, Settled
<1>9. ASSUME NEW e \in Execution, Notify(e) PROVE VerdictInv'
  <2>1. pc[e] = "notify" /\ rec[e].status \in Verdict /\ UNCHANGED <<db, rec, ctx, cpc, stream>>
    BY <1>9 DEF Notify, Step, VerdictReady
  <2>2. pc' = [pc EXCEPT ![e] = "signal"]
    BY <1>9 DEF Notify, Step, Goto
  <2>3. ~Touched(e) => notices[e] = <<>> /\ db[e] = rec[e]
    BY <2>1 DEF VerdictInv, Settled
  <2>4. notices \in [Execution -> Seq(Verdict)] /\ notices' = [notices EXCEPT ![e] = Append(notices[e], rec[e].status)]
    BY <1>9 DEF Notify, TypeInv, TypeOK
  <2>5. ~Touched(e) => notices'[e] = <<rec[e].status>>
    BY <2>3, <2>4
  <2>6. \A f \in Execution \ {e} : notices'[f] = notices[f]
    BY <2>4
  <2> QED
    BY <2>1, <2>2, <2>3, <2>5, <2>6 DEF VerdictInv, Touched, Settled
<1>10. ASSUME NEW e \in Execution, Signal(e) PROVE VerdictInv'
  BY <1>10 DEF Signal, Step, Goto, Complete, VerdictInv, Touched, Settled
<1>11. ASSUME NEW e \in Execution, Remove(e) PROVE VerdictInv'
  BY <1>11 DEF Remove, Step, Goto, VerdictInv, Touched, Settled
<1>12. ASSUME NEW e \in Execution, Disown(e) PROVE VerdictInv'
  BY <1>12 DEF Disown, Step, Goto, VerdictInv, Touched, Settled
<1>13. ASSUME NEW e \in Execution, Unregister(e) PROVE VerdictInv'
  BY <1>13 DEF Unregister, Step, Goto, VerdictInv, Touched, Settled
<1>14. ASSUME NEW e \in Execution, CreateContainer(e) PROVE VerdictInv'
  <2>1. /\ UNCHANGED <<db, ctx, notices, stream, cpc>> /\ pc[e] = "create"
        /\ pc'[e] \in {"record", "persist"}
        /\ \A f \in Execution \ {e} : rec'[f] = rec[f] /\ pc'[f] = pc[f]
    BY <1>14 DEF CreateContainer, Step, Goto, Fail, Conclude
  <2> QED
    BY <2>1 DEF VerdictInv, Touched, Settled
<1>15. ASSUME NEW e \in Execution, RecordContainer(e) PROVE VerdictInv'
  BY <1>15 DEF RecordContainer, Step, Goto, Save, VerdictInv, Touched, Settled
<1>16. ASSUME NEW e \in Execution, Own(e) PROVE VerdictInv'
  BY <1>16 DEF Own, Step, Goto, VerdictInv, Touched, Settled
<1>17. ASSUME NEW e \in Execution, StartContainer(e) PROVE VerdictInv'
  BY <1>17 DEF StartContainer, Step, Goto, Fail, Conclude, VerdictInv, Touched, Settled
<1>18. ASSUME NEW e \in Execution, AttachStream(e) PROVE VerdictInv'
  BY <1>18 DEF AttachStream, Step, Goto, VerdictInv, Touched, Settled
<1>19. ASSUME NEW e \in Execution, Abort(e) PROVE VerdictInv'
  BY <1>19 DEF Abort, Step, Goto, Fail, Conclude, Stop, VerdictInv, Touched, Settled
<1>20. ASSUME NEW e \in Execution, Expire(e) PROVE VerdictInv'
  BY <1>20 DEF Expire, Step, Goto, Conclude, Stop, VerdictInv, Touched, Settled
<1>21. ASSUME NEW e \in Execution, ExecInContainer(e) PROVE VerdictInv'
  BY <1>21 DEF ExecInContainer, Step, Goto, Fail, Conclude, VerdictInv, Touched, Settled
<1>22. ASSUME NEW e \in Execution, AttachExecStream(e) PROVE VerdictInv'
  BY <1>22 DEF AttachExecStream, Step, Goto, Fail, Conclude, VerdictInv, Touched, Settled
<1>23. ASSUME NEW e \in Execution, InspectExec(e) PROVE VerdictInv'
  BY <1>23 DEF InspectExec, Step, Goto, Fail, Conclude, VerdictInv, Touched, Settled
<1>24. ASSUME NEW e \in Execution, ContainerLogs(e) PROVE VerdictInv'
  BY <1>24 DEF ContainerLogs, Step, Goto, Fail, Conclude, VerdictInv, Touched, Settled
<1>25. ASSUME NEW e \in Execution, Deadline(e) PROVE VerdictInv'
  BY <1>25 DEF Deadline, Step, Goto, VerdictInv, Touched, Settled
<1>26. ASSUME NEW e \in Execution, ProcessExit(e) PROVE VerdictInv'
  BY <1>26 DEF ProcessExit, Step, Goto, VerdictInv, Touched, Settled
<1>27. ASSUME NEW e \in Execution, StreamEnd(e) PROVE VerdictInv'
  BY <1>27 DEF StreamEnd, Step, Goto, CloseOutput, VerdictInv, Touched, Settled
<1>28. ASSUME NEW e \in Execution, DemuxCancelled(e) PROVE VerdictInv'
  BY <1>28 DEF DemuxCancelled, Step, Goto, CloseOutput, VerdictInv, Touched, Settled
<1>29. ASSUME NEW c \in Canceller, CancelLoad(c) PROVE VerdictInv'
  BY <1>29 DEF CancelLoad, Step, Goto, VerdictInv, Touched, Settled
<1>30. ASSUME NEW c \in Canceller, CancelStop(c) PROVE VerdictInv'
  BY <1>30 DEF CancelStop, Step, Goto, Stop, VerdictInv, Touched, Settled
<1>31. ASSUME NEW c \in Canceller, CancelFire(c) PROVE VerdictInv'
  BY <1>31 DEF CancelFire, Step, Goto, VerdictInv, Touched, Settled
<1>32. ASSUME NEW c \in Canceller, CancelWrite(c) PROVE VerdictInv'
  BY <1>32 DEF CancelWrite, Step, Goto, VerdictInv, Touched, Settled
<1>33. ASSUME NEW c \in Canceller, CancelSignal(c) PROVE VerdictInv'
  BY <1>33 DEF CancelSignal, Step, Goto, Complete, VerdictInv, Touched, Settled
<1>34. CASE Restart
  BY <1>34 DEF Restart, Step, Goto, Idle, VerdictInv, Touched, Settled
<1>35. CASE UNCHANGED vars
  BY <1>35 DEF vars, Step, Goto, VerdictInv, Touched, Settled
<1> QED
  BY <1>1, <1>2, <1>3, <1>4, <1>5, <1>6, <1>7, <1>8, <1>9, <1>10,
     <1>11, <1>12, <1>13, <1>14, <1>15, <1>16, <1>17, <1>18, <1>19, <1>20,
     <1>21, <1>22, <1>23, <1>24, <1>25, <1>26, <1>27, <1>28, <1>29, <1>30,
     <1>31, <1>32, <1>33, <1>34, <1>35
  DEF Next, Handler, Worker, Environment, Cancel

\* The row, the one notification and the stream that a worker leaves tell the
\* same verdict, on every path of the three modes, whichever call to the daemon
\* fails: nothing but a cancel request can make them differ.
THEOREM VerdictsAgree ==
  ASSUME "database" \notin Faults, MaxCrashes = 0
  PROVE  Spec => []VerdictAgrees
<1>1. Init => VerdictInv
  BY DEF Init, VerdictInv, Settled
<1>2. TypeInv /\ VerdictInv /\ [Next]_vars => VerdictInv'
  BY VerdictStep
<1>3. VerdictInv => VerdictAgrees
  BY DEF VerdictInv, VerdictAgrees, Settled
<1> QED
  BY TypeInit, TypeStep, <1>1, <1>2, <1>3, PTL DEF Spec

-----------------------------------------------------------------------------
(* The engine implements the life cycle *)

\* The row before the worker has written it.
LifeInv ==
  \A e \in Execution :
    /\ pc[e] \in {"new", "checked", "rejected"} => db[e].status = "none"
    /\ pc[e] \in {"launched", "mark"} => db[e].status = "queued"

\* The calls before the first write of the worker.
Early == {"new", "checked", "rejected", "launched", "mark"}

\* A step of the promised life cycle, or a stutter.
Lives == Lifecycle!Next \/ UNCHANGED Lifecycle!lifecycle

LEMMA LifeStep ==
  /\ Canceller = {} /\ "database" \notin Faults /\ MaxCrashes = 0
  /\ TypeInv /\ LockInv /\ VerdictInv /\ LifeInv /\ [Next]_vars
  => LifeInv' /\ Lives
<1> SUFFICES ASSUME Canceller = {}, "database" \notin Faults, MaxCrashes = 0,
                    TypeInv, LockInv, VerdictInv, LifeInv, [Next]_vars
             PROVE  LifeInv' /\ Lives
  OBVIOUS
<1>t. /\ pc \in [Execution -> PCs] /\ db \in [Execution -> Row] /\ rec \in [Execution -> Row]
      /\ stream = [f \in Execution |-> stream[f]]
      /\ notices = [f \in Execution |-> notices[f]]
      /\ crashes \in Nat /\ MaxCrashes = 0 /\ VerdictReady
  BY DEF TypeInv, TypeOK
<1>r. /\ Canceller = {} /\ "database" \notin Faults /\ LockInv /\ VerdictInv
      /\ \A e \in Execution : ~Touched(e) /\ ~Overwritten(e)
  BY DEF Touched, Overwritten
<1>0. ASSUME UNCHANGED <<notices, stream>>,
             \A f \in Execution :
               /\ db'[f].status = db[f].status
               /\ pc'[f] # pc[f] /\ pc'[f] \in Early =>
                    \/ pc[f] \in {"new", "checked"} /\ pc'[f] \in {"checked", "rejected"}
                    \/ pc[f] = "launched" /\ pc'[f] = "mark"
      PROVE  LifeInv' /\ Lives
  <2>1. UNCHANGED Lifecycle!lifecycle
    BY <1>0 DEF Lifecycle!lifecycle
  <2>2. LifeInv'
    BY <1>0 DEF LifeInv, Early
  <2> QED
    BY <2>1, <2>2 DEF Lives
<1> USE <1>r DEF workerVars, dockerVars, maps, cancelVars, outVars
<1>1. ASSUME NEW e \in Execution, Check(e) PROVE LifeInv' /\ Lives
  BY <1>1, <1>t, <1>0 DEF Check, Step, Goto, Early
<1>2. ASSUME NEW e \in Execution, Reject(e) PROVE LifeInv' /\ Lives
  BY <1>2, <1>t, <1>0 DEF Reject, Step, Goto, Early
<1>3. ASSUME NEW e \in Execution, Launch(e) PROVE LifeInv' /\ Lives
  <2>1. CASE /\ db' = [db EXCEPT ![e] = QueuedRow] /\ Goto(e, "launched")
             /\ UNCHANGED <<notices, stream>>
    <3>1. pc[e] = "checked" /\ db[e].status = "none" /\ pc' = [pc EXCEPT ![e] = "launched"]
      BY <1>3, <2>1 DEF Launch, Goto, LifeInv
    <3>2. Lifecycle!Submit(e)
      BY <2>1, <3>1, <1>t DEF Lifecycle!Submit, QueuedRow, NoRow
    <3>3. LifeInv'
      BY <2>1, <3>1, <1>t DEF LifeInv, QueuedRow, NoRow
    <3> QED
      BY <3>2, <3>3 DEF Lives, Lifecycle!Next
  <2>2. CASE UNCHANGED <<db, notices, stream>> /\ Goto(e, "rejected") /\ pc[e] = "checked"
    BY <2>2, <1>t, <1>0 DEF Goto, Early
  <2> QED
    BY <1>3, <2>1, <2>2 DEF Launch
<1>4. ASSUME NEW e \in Execution, Register(e) PROVE LifeInv' /\ Lives
  BY <1>4, <1>t, <1>0 DEF Register, Step, Goto, Early
<1>5. ASSUME NEW e \in Execution, MarkRunning(e) PROVE LifeInv' /\ Lives
  <2> DEFINE r == [rec[e] EXCEPT !.status = "running", !.started_at = TRUE,
                                 !.container_id = (Mode(e) # "create")]
  <2>1. /\ pc[e] = "mark" /\ pc' = [pc EXCEPT ![e] = Mode(e)]
        /\ db' = [db EXCEPT ![e] = r] /\ UNCHANGED <<notices, stream>>
    BY <1>5 DEF MarkRunning, Step, Goto, Save
  <2>2. r.status = "running" /\ db[e].status = "queued" /\ Mode(e) \in Modes
    BY <2>1, <1>t, CommandsAssumption DEF Row, LifeInv, Mode
  <2> HIDE DEF r
  <2>3. Lifecycle!Run(e)
    BY <2>1, <2>2, <1>t DEF Lifecycle!Run
  <2>4. LifeInv'
    BY <2>1, <2>2, <1>t DEF LifeInv, Modes
  <2> QED
    BY <2>3, <2>4 DEF Lives, Lifecycle!Next
<1>6. ASSUME NEW e \in Execution, Capture(e) PROVE LifeInv' /\ Lives
  BY <1>6, <1>t, <1>0 DEF Capture, Step, Goto, Conclude, Early
<1>7. ASSUME NEW e \in Execution, CopyArtifacts(e) PROVE LifeInv' /\ Lives
  BY <1>7, <1>t, <1>0 DEF CopyArtifacts, Step, Goto, Conclude, Early
<1>8. ASSUME NEW e \in Execution, Persist(e) PROVE LifeInv' /\ Lives
  <2>1. pc[e] = "persist" /\ pc' = [pc EXCEPT ![e] = "notify"] /\ db' = [db EXCEPT ![e] = rec[e]]
        /\ UNCHANGED <<notices, stream>>
    BY <1>8 DEF Persist, Step, Goto, Save
  <2>2. rec[e].status \in Verdict /\ db[e].status = "running"
    BY <2>1, <1>t, <1>r DEF VerdictReady, LockInv, Working
  <2>3. Lifecycle!Decide(e)
    BY <2>1, <2>2, <1>t DEF Lifecycle!Decide, Lifecycle!Verdicts, Verdict
  <2>4. LifeInv'
    BY <2>1, <1>t DEF LifeInv
  <2> QED
    BY <2>3, <2>4 DEF Lives, Lifecycle!Next
<1>9. ASSUME NEW e \in Execution, Notify(e) PROVE LifeInv' /\ Lives
  <2>1. pc[e] = "notify" /\ pc' = [pc EXCEPT ![e] = "signal"] /\ UNCHANGED <<db, stream>>
        /\ notices' = [notices EXCEPT ![e] = Append(notices[e], rec[e].status)]
    BY <1>9 DEF Notify, Step, Goto
  <2>2. notices[e] = <<>> /\ db[e].status \in Verdict /\ rec[e].status = db[e].status
    BY <2>1, <1>r DEF VerdictInv, Settled
  <2>3. notices' = [notices EXCEPT ![e] = <<db[e].status>>]
    BY <2>1, <2>2
  <2>4. Lifecycle!Tell(e)
    BY <2>1, <2>2, <2>3, <1>t DEF Lifecycle!Tell, Lifecycle!Verdicts, Verdict
  <2>5. LifeInv'
    BY <2>1, <1>t DEF LifeInv
  <2> QED
    BY <2>4, <2>5 DEF Lives, Lifecycle!Next
<1>10. ASSUME NEW e \in Execution, Signal(e) PROVE LifeInv' /\ Lives
  <2>1. /\ pc[e] = "signal" /\ UNCHANGED <<db, notices>>
        /\ \E next \in {"remove", "unregister"} : pc' = [pc EXCEPT ![e] = next]
        /\ stream' = [stream EXCEPT ![e] = IF stream[e] = "open" THEN rec[e].status ELSE stream[e]]
    BY <1>10 DEF Signal, Step, Goto, Complete
  <2>2. stream[e] = "open" /\ notices[e] = <<db[e].status>> /\ rec[e].status = db[e].status
    BY <2>1, <1>r DEF VerdictInv, Settled
  <2>3. stream' = [stream EXCEPT ![e] = db[e].status] /\ notices[e] # <<>>
    BY <2>1, <2>2
  <2>4. Lifecycle!Close(e)
    BY <2>1, <2>2, <2>3, <1>t DEF Lifecycle!Close
  <2>5. LifeInv'
    BY <2>1, <1>t DEF LifeInv
  <2> QED
    BY <2>4, <2>5 DEF Lives, Lifecycle!Next
<1>11. ASSUME NEW e \in Execution, Remove(e) PROVE LifeInv' /\ Lives
  BY <1>11, <1>t, <1>0 DEF Remove, Step, Goto, Early
<1>12. ASSUME NEW e \in Execution, Disown(e) PROVE LifeInv' /\ Lives
  BY <1>12, <1>t, <1>0 DEF Disown, Step, Goto, Early
<1>13. ASSUME NEW e \in Execution, Unregister(e) PROVE LifeInv' /\ Lives
  BY <1>13, <1>t, <1>0 DEF Unregister, Step, Goto, Early
<1>14. ASSUME NEW e \in Execution, CreateContainer(e) PROVE LifeInv' /\ Lives
  BY <1>14, <1>t, <1>0 DEF CreateContainer, Step, Goto, Fail, Conclude, Early
<1>15. ASSUME NEW e \in Execution, RecordContainer(e) PROVE LifeInv' /\ Lives
  <2>1. pc[e] = "record" /\ pc' = [pc EXCEPT ![e] = "own"] /\ db' = [db EXCEPT ![e] = rec[e]]
        /\ UNCHANGED <<notices, stream>>
    BY <1>15 DEF RecordContainer, Step, Goto, Save
  <2>2. rec[e].status = "running" /\ db[e].status = "running"
    BY <2>1, <1>r DEF LockInv, Working
  <2> QED
    BY <2>1, <2>2, <1>t, <1>0 DEF Early
<1>16. ASSUME NEW e \in Execution, Own(e) PROVE LifeInv' /\ Lives
  BY <1>16, <1>t, <1>0 DEF Own, Step, Goto, Early
<1>17. ASSUME NEW e \in Execution, StartContainer(e) PROVE LifeInv' /\ Lives
  BY <1>17, <1>t, <1>0 DEF StartContainer, Step, Goto, Fail, Conclude, Early
<1>18. ASSUME NEW e \in Execution, AttachStream(e) PROVE LifeInv' /\ Lives
  BY <1>18, <1>t, <1>0 DEF AttachStream, Step, Goto, Early
<1>19. ASSUME NEW e \in Execution, Abort(e) PROVE LifeInv' /\ Lives
  BY <1>19, <1>t, <1>0 DEF Abort, Step, Goto, Fail, Conclude, Early
<1>20. ASSUME NEW e \in Execution, Expire(e) PROVE LifeInv' /\ Lives
  BY <1>20, <1>t, <1>0 DEF Expire, Step, Goto, Conclude, Early
<1>21. ASSUME NEW e \in Execution, ExecInContainer(e) PROVE LifeInv' /\ Lives
  BY <1>21, <1>t, <1>0 DEF ExecInContainer, Step, Goto, Fail, Conclude, Early
<1>22. ASSUME NEW e \in Execution, AttachExecStream(e) PROVE LifeInv' /\ Lives
  BY <1>22, <1>t, <1>0 DEF AttachExecStream, Step, Goto, Fail, Conclude, Early
<1>23. ASSUME NEW e \in Execution, InspectExec(e) PROVE LifeInv' /\ Lives
  BY <1>23, <1>t, <1>0 DEF InspectExec, Step, Goto, Fail, Conclude, Early
<1>24. ASSUME NEW e \in Execution, ContainerLogs(e) PROVE LifeInv' /\ Lives
  BY <1>24, <1>t, <1>0 DEF ContainerLogs, Step, Goto, Fail, Conclude, Early
<1>25. ASSUME NEW e \in Execution, Deadline(e) PROVE LifeInv' /\ Lives
  BY <1>25, <1>t, <1>0 DEF Deadline, Step, Goto, Early
<1>26. ASSUME NEW e \in Execution, ProcessExit(e) PROVE LifeInv' /\ Lives
  BY <1>26, <1>t, <1>0 DEF ProcessExit, Step, Goto, Early
<1>27. ASSUME NEW e \in Execution, StreamEnd(e) PROVE LifeInv' /\ Lives
  BY <1>27, <1>t, <1>0 DEF StreamEnd, Step, Goto, CloseOutput, Early
<1>28. ASSUME NEW e \in Execution, DemuxCancelled(e) PROVE LifeInv' /\ Lives
  BY <1>28, <1>t, <1>0 DEF DemuxCancelled, Step, Goto, CloseOutput, Early
<1>29. ASSUME NEW c \in Canceller, CancelLoad(c) PROVE LifeInv' /\ Lives
  BY <1>29, <1>r
<1>30. ASSUME NEW c \in Canceller, CancelStop(c) PROVE LifeInv' /\ Lives
  BY <1>30, <1>r
<1>31. ASSUME NEW c \in Canceller, CancelFire(c) PROVE LifeInv' /\ Lives
  BY <1>31, <1>r
<1>32. ASSUME NEW c \in Canceller, CancelWrite(c) PROVE LifeInv' /\ Lives
  BY <1>32, <1>r
<1>33. ASSUME NEW c \in Canceller, CancelSignal(c) PROVE LifeInv' /\ Lives
  BY <1>33, <1>r
<1>34. CASE Restart
  BY <1>34, <1>t DEF Restart
<1>35. CASE UNCHANGED vars
  BY <1>35, <1>0 DEF vars
<1> QED
  BY <1>1, <1>2, <1>3, <1>4, <1>5, <1>6, <1>7, <1>8, <1>9, <1>10,
     <1>11, <1>12, <1>13, <1>14, <1>15, <1>16, <1>17, <1>18, <1>19, <1>20,
     <1>21, <1>22, <1>23, <1>24, <1>25, <1>26, <1>27, <1>28, <1>29, <1>30,
     <1>31, <1>32, <1>33, <1>34, <1>35
  DEF Next, Handler, Worker, Environment, Cancel

\* Without cancel requests every step of the engine is a step of the promised life
\* cycle or leaves it as it is: Launch submits, MarkRunning runs, Persist decides,
\* Notify tells and Signal closes, each once and in that order, for any number of
\* executions of any modes, whatever the daemon does.
THEOREM LifecycleImplemented ==
  ASSUME Canceller = {}, "database" \notin Faults, MaxCrashes = 0
  PROVE  Spec => ImplementsLifecycle
<1>1. Init => LifeInv /\ Lifecycle!Init
  BY DEF Init, LifeInv, Lifecycle!Init, NoRow
<1>2. Init => LockInv /\ VerdictInv
  BY DEF Init, LockInv, Working, VerdictInv, Settled, NoRow
<1>3. TypeInv /\ LockInv /\ [Next]_vars => LockInv'
  BY LockInvStep
<1>4. TypeInv /\ VerdictInv /\ [Next]_vars => VerdictInv'
  BY VerdictStep
<1>5. TypeInv /\ LockInv /\ VerdictInv /\ LifeInv /\ [Next]_vars
        => LifeInv' /\ [Lifecycle!Next]_(Lifecycle!lifecycle)
  BY LifeStep DEF Lives
<1> QED
  BY TypeInit, TypeStep, <1>1, <1>2, <1>3, <1>4, <1>5, PTL
  DEF Spec, ImplementsLifecycle, Lifecycle!Spec

=============================================================================
