--------------------------- MODULE ExecutorProofs ---------------------------
(* Theorems about the execution engine, for any executions, commands, cancel *)
(* requests and failures. *)
EXTENDS ExecutorProperties, TLAPS

-----------------------------------------------------------------------------
(* Type correctness *)

\* A record a worker is about to store, tell and publish holds a verdict; in
\* exec mode it does from InspectExec on.
VerdictReady ==
  \A e \in Execution :
    pc[e] \in {"persist", "notify", "signal"} \/ (pc[e] = "artifacts" /\ Mode(e) = "exec")
      => rec[e].status \in Verdict

TypeInv == TypeOK /\ VerdictReady

LEMMA ConcludedRow ==
  ASSUME NEW r \in Row, NEW s \in Terminal
  PROVE  Concluded(r, s) \in Row /\ Concluded(r, s).status = s
BY DEF Concluded, Row, Terminal, Verdict, Status

LEMMA InitialRows == NoRow \in Row /\ QueuedRow \in Row
BY DEF NoRow, QueuedRow, Row, Terminal, Verdict, Status

LEMMA TypeInit == Init => TypeInv
BY InitialRows DEF Init, TypeInv, TypeOK, VerdictReady, PCs, CPCs, CtxStates,
   ProcessStates, OutputStates


\* The lemmas of the helpers that change typed state.
LEMMA RunningRow ==
  ASSUME NEW r \in Row, NEW b \in BOOLEAN
  PROVE  LET s == [r EXCEPT !.status = "running", !.started_at = TRUE, !.container_id = b]
         IN  s \in Row /\ s.status = "running"
BY DEF Row, Status

LEMMA CapturedRow ==
  ASSUME NEW r \in Row
  PROVE  LET s == [r EXCEPT !.output = TRUE]
         IN  s \in Row /\ s.status = r.status
BY DEF Row

LEMMA ExitedRow ==
  ASSUME NEW r \in Row, NEW x \in {"null", "zero", "nonzero"}
  PROVE  LET s == [r EXCEPT !.exit_code = x]
         IN  s \in Row /\ s.status = r.status
BY DEF Row

LEMMA VerdictRow ==
  ASSUME NEW r \in Row, NEW x \in {"null", "zero", "nonzero"}, NEW v \in Verdict,
         NEW s, s = [r EXCEPT !.exit_code = x, !.status = v]
  PROVE  s \in Row /\ s.status \in Verdict
BY DEF Row, Status, Terminal

LEMMA TimedRow ==
  ASSUME NEW r \in Row
  PROVE  LET s == [r EXCEPT !.completed_at = TRUE]
         IN  s \in Row /\ s.status = r.status
BY DEF Row

LEMMA ContainedRow ==
  ASSUME NEW r \in Row
  PROVE  LET s == [r EXCEPT !.container_id = TRUE]
         IN  s \in Row /\ s.status = r.status
BY DEF Row

LEMMA SaveType ==
  ASSUME TypeOK, NEW e \in Execution, NEW r \in Row, Save(e, r)
  PROVE  db' \in [Execution -> Row]
BY DEF Save, TypeOK

LEMMA StopType ==
  ASSUME TypeOK, NEW e \in Execution, Stop(e)
  PROVE  /\ process' \in [Execution -> ProcessStates]
         /\ code' \in [Execution -> {"null", "zero", "nonzero"}]
BY DEF Stop, TypeOK, ProcessStates

LEMMA ConcludeType ==
  ASSUME TypeInv, NEW e \in Execution, NEW r \in Row, r.status \in Verdict,
         Conclude(e, r)
  PROVE  /\ rec' \in [Execution -> Row]
         /\ pc' \in [Execution -> PCs]
         /\ VerdictReady'
BY DEF Conclude, Goto, TypeInv, TypeOK, VerdictReady, PCs, Mode

LEMMA FailType ==
  ASSUME TypeInv, NEW e \in Execution, Fail(e)
  PROVE  /\ rec' \in [Execution -> Row]
         /\ pc' \in [Execution -> PCs]
         /\ VerdictReady'
<1>1. rec[e] \in Row
  BY DEF TypeInv, TypeOK
<1>2. /\ Concluded(rec[e], "failed") \in Row
      /\ Concluded(rec[e], "failed").status \in Verdict
  BY <1>1, ConcludedRow DEF Terminal, Verdict
<1> QED
  BY <1>2, ConcludeType DEF Fail

\* A step to a call before the verdict, whatever it does to the record.
LEMMA GotoType ==
  ASSUME TypeInv, NEW e \in Execution, NEW r \in Row,
         NEW next \in PCs \ {"persist", "notify", "signal", "artifacts"},
         rec' = [rec EXCEPT ![e] = r], Goto(e, next)
  PROVE  /\ rec' \in [Execution -> Row]
         /\ pc' \in [Execution -> PCs]
         /\ VerdictReady'
BY DEF Goto, TypeInv, TypeOK, VerdictReady, Mode

LEMMA GotoKeepType ==
  ASSUME TypeInv, NEW e \in Execution,
         NEW next \in PCs \ {"persist", "notify", "signal", "artifacts"},
         UNCHANGED rec, Goto(e, next)
  PROVE  /\ rec' \in [Execution -> Row]
         /\ pc' \in [Execution -> PCs]
         /\ VerdictReady'
BY DEF Goto, TypeInv, TypeOK, VerdictReady, Mode

LEMMA TypeStep == TypeInv /\ [Next]_vars => TypeInv'
<1> SUFFICES ASSUME TypeInv, [Next]_vars PROVE TypeInv'
  OBVIOUS
<1> USE CommandsAssumption DEF TypeInv, TypeOK, workerVars, dockerVars, maps, cancelVars, outVars
<1>1. ASSUME NEW e \in Execution, Check(e) PROVE TypeInv'
  BY <1>1, GotoKeepType DEF Check, Step, PCs
<1>2. ASSUME NEW e \in Execution, Reject(e) PROVE TypeInv'
  BY <1>2, GotoKeepType DEF Reject, Step, PCs
<1>3. ASSUME NEW e \in Execution, Launch(e) PROVE TypeInv'
  <2>1. QueuedRow \in Row
    BY InitialRows
  <2>2. CASE db' = [db EXCEPT ![e] = QueuedRow] /\ rec' = [rec EXCEPT ![e] = QueuedRow]
             /\ Goto(e, "launched")
    BY <1>3, <2>1, <2>2, GotoType DEF Launch, PCs
  <2>3. CASE UNCHANGED <<db, rec>> /\ Goto(e, "rejected")
    BY <1>3, <2>3, GotoKeepType DEF Launch, PCs
  <2> QED
    BY <1>3, <2>2, <2>3 DEF Launch
<1>4. ASSUME NEW e \in Execution, Register(e) PROVE TypeInv'
  BY <1>4, GotoKeepType DEF Register, Step, PCs, CtxStates
<1>5. ASSUME NEW e \in Execution, MarkRunning(e) PROVE TypeInv'
  <2> DEFINE r == [rec[e] EXCEPT !.status = "running", !.started_at = TRUE,
                                 !.container_id = (Mode(e) # "create")]
  <2>1. rec[e] \in Row /\ (Mode(e) # "create") \in BOOLEAN
    OBVIOUS
  <2>2. r \in Row
    BY <2>1, RunningRow
  <2>3. Mode(e) \in PCs \ {"persist", "notify", "signal", "artifacts"}
    BY DEF Mode, Modes, PCs
  <2>4. rec' = [rec EXCEPT ![e] = r] /\ Goto(e, Mode(e)) /\ Save(e, r)
    BY <1>5 DEF MarkRunning, Step
  <2>5. db' \in [Execution -> Row]
    BY <2>2, <2>4, SaveType
  <2> HIDE DEF r
  <2> QED
    BY <1>5, <2>2, <2>3, <2>4, <2>5, GotoType DEF MarkRunning
<1>6. ASSUME NEW e \in Execution, Capture(e) PROVE TypeInv'
  <2> DEFINE r == [rec[e] EXCEPT !.output = TRUE]
             z == [r EXCEPT !.exit_code = "zero"]
  <2>1. r \in Row /\ z \in Row
    BY CapturedRow, ExitedRow
  <2>2. /\ Concluded(r, "timed_out") \in Row /\ Concluded(r, "timed_out").status \in Verdict
        /\ Concluded(z, "completed") \in Row /\ Concluded(z, "completed").status \in Verdict
    BY <2>1, ConcludedRow DEF Terminal, Verdict
  <2>3. \/ Conclude(e, Concluded(r, "timed_out")) \/ Conclude(e, Concluded(z, "completed"))
        \/ rec' = [rec EXCEPT ![e] = r] /\ Goto(e, "artifacts") /\ Mode(e) = "create"
        \/ \E next \in {"expire", "remove", "unregister", "inspect"} :
             rec' = [rec EXCEPT ![e] = r] /\ Goto(e, next)
    BY <1>6 DEF Capture
  <2>4. UNCHANGED <<db, ctx, dockerVars, maps, cancelVars, outVars, crashes>>
    BY <1>6 DEF Capture
  <2> HIDE DEF r, z
  <2>5. ASSUME rec' = [rec EXCEPT ![e] = r], Goto(e, "artifacts"), Mode(e) = "create"
        PROVE  rec' \in [Execution -> Row] /\ pc' \in [Execution -> PCs] /\ VerdictReady'
    BY <2>1, <2>5 DEF Goto, VerdictReady, PCs, Mode
  <2>6. rec' \in [Execution -> Row] /\ pc' \in [Execution -> PCs] /\ VerdictReady'
    BY <2>1, <2>2, <2>3, <2>5, ConcludeType, GotoType DEF PCs
  <2> QED
    BY <2>4, <2>6
<1>7. ASSUME NEW e \in Execution, CopyArtifacts(e) PROVE TypeInv'
  <2> DEFINE z == [rec[e] EXCEPT !.exit_code = "zero"]
             t == [rec[e] EXCEPT !.completed_at = TRUE]
  <2>1. z \in Row /\ t \in Row /\ t.status = rec[e].status
    BY ExitedRow, TimedRow
  <2>2. Concluded(z, "completed") \in Row /\ Concluded(z, "completed").status \in Verdict
    BY <2>1, ConcludedRow DEF Terminal, Verdict
  <2>3. Mode(e) = "exec" => t.status \in Verdict
    BY <1>7, <2>1 DEF CopyArtifacts, VerdictReady
  <2>4. \/ Conclude(e, Concluded(z, "completed"))
        \/ Mode(e) = "exec" /\ Conclude(e, t)
    BY <1>7 DEF CopyArtifacts
  <2> HIDE DEF z, t
  <2> QED
    BY <1>7, <2>1, <2>2, <2>3, <2>4, ConcludeType DEF CopyArtifacts
<1>8. ASSUME NEW e \in Execution, Persist(e) PROVE TypeInv'
  <2>1. db' \in [Execution -> Row]
    BY <1>8, SaveType DEF Persist
  <2>2. pc' \in [Execution -> PCs] /\ VerdictReady'
    BY <1>8 DEF Persist, Step, Goto, PCs, VerdictReady, Mode
  <2> QED
    BY <1>8, <2>1, <2>2 DEF Persist
<1>9. ASSUME NEW e \in Execution, Notify(e) PROVE TypeInv'
  <2>1. rec[e].status \in Verdict
    BY <1>9 DEF Notify, Step, VerdictReady
  <2>2. Append(notices[e], rec[e].status) \in Seq(Verdict)
    BY <2>1
  <2>5. \/ UNCHANGED notices
        \/ notices' = [notices EXCEPT ![e] = Append(notices[e], rec[e].status)]
    BY <1>9 DEF Notify
  <2>4. notices' \in [Execution -> Seq(Verdict)]
    <3>1. notices \in [Execution -> Seq(Verdict)]
      OBVIOUS
    <3> HIDE DEF TypeInv, TypeOK
    <3> QED
      BY <2>2, <2>5, <3>1
  <2>3. pc' \in [Execution -> PCs] /\ VerdictReady'
    BY <1>9 DEF Notify, Step, Goto, PCs, VerdictReady, Mode
  <2> QED
    BY <1>9, <2>4, <2>3 DEF Notify
<1>10. ASSUME NEW e \in Execution, Signal(e) PROVE TypeInv'
  <2>1. rec[e].status \in Terminal
    BY <1>10 DEF Signal, Step, VerdictReady, Terminal
  <2> QED
    BY <1>10, <2>1, GotoKeepType DEF Signal, Step, Complete, PCs
<1>11. ASSUME NEW e \in Execution, Remove(e) PROVE TypeInv'
  BY <1>11, GotoKeepType DEF Remove, Step, PCs, ProcessStates
<1>12. ASSUME NEW e \in Execution, Disown(e) PROVE TypeInv'
  BY <1>12, GotoKeepType DEF Disown, Step, PCs
<1>13. ASSUME NEW e \in Execution, Unregister(e) PROVE TypeInv'
  BY <1>13, GotoKeepType DEF Unregister, Step, PCs, CtxStates
<1>14. ASSUME NEW e \in Execution, CreateContainer(e) PROVE TypeInv'
  <2> DEFINE r == [rec[e] EXCEPT !.container_id = TRUE]
  <2>1. r \in Row
    BY ContainedRow
  <2>2. process' \in [Execution -> ProcessStates]
    BY <1>14 DEF CreateContainer, ProcessStates
  <2>3. Fail(e) \/ (rec' = [rec EXCEPT ![e] = r] /\ Goto(e, "record"))
    BY <1>14 DEF CreateContainer
  <2> HIDE DEF r
  <2>4. rec' \in [Execution -> Row] /\ pc' \in [Execution -> PCs] /\ VerdictReady'
    BY <2>1, <2>3, FailType, GotoType DEF PCs
  <2> QED
    BY <1>14, <2>2, <2>4 DEF CreateContainer
<1>15. ASSUME NEW e \in Execution, RecordContainer(e) PROVE TypeInv'
  <2>1. db' \in [Execution -> Row]
    BY <1>15, SaveType DEF RecordContainer
  <2> QED
    BY <1>15, <2>1, GotoKeepType DEF RecordContainer, Step, PCs
<1>16. ASSUME NEW e \in Execution, Own(e) PROVE TypeInv'
  BY <1>16, GotoKeepType DEF Own, Step, PCs
<1>17. ASSUME NEW e \in Execution, StartContainer(e) PROVE TypeInv'
  <2>1. /\ process' \in [Execution -> ProcessStates]
        /\ output' \in [Execution -> OutputStates]
    BY <1>17 DEF StartContainer, ProcessStates, OutputStates
  <2>2. Fail(e) \/ (UNCHANGED rec /\ Goto(e, "attach"))
    BY <1>17 DEF StartContainer
  <2>3. rec' \in [Execution -> Row] /\ pc' \in [Execution -> PCs] /\ VerdictReady'
    BY <2>2, FailType, GotoKeepType DEF PCs
  <2> QED
    BY <1>17, <2>1, <2>3 DEF StartContainer
<1>18. ASSUME NEW e \in Execution, AttachStream(e) PROVE TypeInv'
  BY <1>18, GotoKeepType DEF AttachStream, OutputStates, PCs
<1>19. ASSUME NEW e \in Execution, Abort(e) PROVE TypeInv'
  BY <1>19, StopType, FailType DEF Abort
<1>20. ASSUME NEW e \in Execution, Expire(e) PROVE TypeInv'
  <2>1. /\ Concluded(rec[e], "timed_out") \in Row
        /\ Concluded(rec[e], "timed_out").status \in Verdict
    BY ConcludedRow DEF Terminal, Verdict
  <2> QED
    BY <1>20, <2>1, StopType, ConcludeType DEF Expire
<1>21. ASSUME NEW e \in Execution, ExecInContainer(e) PROVE TypeInv'
  <2>1. /\ process' \in [Execution -> ProcessStates]
        /\ output' \in [Execution -> OutputStates]
    BY <1>21 DEF ExecInContainer, ProcessStates, OutputStates
  <2>2. Fail(e) \/ (UNCHANGED rec /\ Goto(e, "attach_exec"))
    BY <1>21 DEF ExecInContainer
  <2>3. rec' \in [Execution -> Row] /\ pc' \in [Execution -> PCs] /\ VerdictReady'
    BY <2>2, FailType, GotoKeepType DEF PCs
  <2> QED
    BY <1>21, <2>1, <2>3 DEF ExecInContainer
<1>22. ASSUME NEW e \in Execution, AttachExecStream(e) PROVE TypeInv'
  <2>4. /\ UNCHANGED process \/ process' = [process EXCEPT ![e] = "running"]
        /\ UNCHANGED output \/ output' = [output EXCEPT ![e] = "open"]
    BY <1>22 DEF AttachExecStream
  <2>1. /\ process' \in [Execution -> ProcessStates]
        /\ output' \in [Execution -> OutputStates]
    <3>1. process \in [Execution -> ProcessStates] /\ output \in [Execution -> OutputStates]
      OBVIOUS
    <3>2. "running" \in ProcessStates /\ "open" \in OutputStates
      BY DEF ProcessStates, OutputStates
    <3> HIDE DEF TypeInv, TypeOK
    <3> QED
      BY <2>4, <3>1, <3>2
  <2>2. Fail(e) \/ (UNCHANGED rec /\ Goto(e, "capture"))
    BY <1>22 DEF AttachExecStream
  <2>3. rec' \in [Execution -> Row] /\ pc' \in [Execution -> PCs] /\ VerdictReady'
    BY <2>2, FailType, GotoKeepType DEF PCs
  <2> QED
    BY <1>22, <2>1, <2>3 DEF AttachExecStream
<1>23. ASSUME NEW e \in Execution, InspectExec(e) PROVE TypeInv'
  <2> DEFINE x == IF code[e] = "nonzero" THEN "nonzero" ELSE "zero"
             v == IF code[e] = "nonzero" THEN "failed" ELSE "completed"
             r == [rec[e] EXCEPT !.exit_code = x, !.status = v]
  <2>4. x \in {"null", "zero", "nonzero"} /\ v \in Verdict
    BY DEF Verdict
  <2>5. rec[e] \in Row
    OBVIOUS
  <2>2. Fail(e) \/ (rec' = [rec EXCEPT ![e] = r] /\ Goto(e, "artifacts"))
    BY <1>23 DEF InspectExec
  <2>1. r \in Row /\ r.status \in Verdict
    <3>1. r = [rec[e] EXCEPT !.exit_code = x, !.status = v]
      OBVIOUS
    <3> HIDE DEF x, v, r
    <3> QED
      BY <2>4, <2>5, <3>1, VerdictRow
  <2> HIDE DEF r
  <2>3. ASSUME rec' = [rec EXCEPT ![e] = r], Goto(e, "artifacts")
        PROVE  rec' \in [Execution -> Row] /\ pc' \in [Execution -> PCs] /\ VerdictReady'
    BY <2>1, <2>3 DEF Goto, VerdictReady, PCs, Mode
  <2> QED
    BY <1>23, <2>2, <2>3, FailType DEF InspectExec
<1>24. ASSUME NEW e \in Execution, ContainerLogs(e) PROVE TypeInv'
  <2>1. /\ process' \in [Execution -> ProcessStates]
        /\ output' \in [Execution -> OutputStates]
    BY <1>24 DEF ContainerLogs, ProcessStates, OutputStates
  <2>2. Fail(e) \/ (UNCHANGED rec /\ Goto(e, "capture"))
    BY <1>24 DEF ContainerLogs
  <2>3. rec' \in [Execution -> Row] /\ pc' \in [Execution -> PCs] /\ VerdictReady'
    BY <2>2, FailType, GotoKeepType DEF PCs
  <2> QED
    BY <1>24, <2>1, <2>3 DEF ContainerLogs
<1>25. ASSUME NEW e \in Execution, Deadline(e) PROVE TypeInv'
  BY <1>25 DEF Deadline, CtxStates, VerdictReady, Mode
<1>26. ASSUME NEW e \in Execution, ProcessExit(e) PROVE TypeInv'
  BY <1>26 DEF ProcessExit, ProcessStates, VerdictReady, Mode
<1>27. ASSUME NEW e \in Execution, StreamEnd(e) PROVE TypeInv'
  BY <1>27 DEF StreamEnd, CloseOutput, OutputStates, VerdictReady, Mode
<1>28. ASSUME NEW e \in Execution, DemuxCancelled(e) PROVE TypeInv'
  BY <1>28 DEF DemuxCancelled, CloseOutput, OutputStates, VerdictReady, Mode
<1>29. ASSUME NEW c \in Canceller, CancelLoad(c) PROVE TypeInv'
  BY <1>29 DEF CancelLoad, CPCs, VerdictReady, Mode
<1>30. ASSUME NEW c \in Canceller, CancelStop(c) PROVE TypeInv'
  <2>1. /\ process' \in [Execution -> ProcessStates]
        /\ code' \in [Execution -> {"null", "zero", "nonzero"}]
    BY <1>30, StopType DEF CancelStop
  <2> QED
    BY <1>30, <2>1 DEF CancelStop, CPCs, VerdictReady, Mode
<1>31. ASSUME NEW c \in Canceller, CancelFire(c) PROVE TypeInv'
  BY <1>31 DEF CancelFire, CPCs, CtxStates, VerdictReady, Mode
<1>32. ASSUME NEW c \in Canceller, CancelWrite(c) PROVE TypeInv'
  <2>1. Concluded(snap[c], "cancelled") \in Row
    BY ConcludedRow DEF Terminal
  <2>2. db' = [db EXCEPT ![TargetOf[c]] = Concluded(snap[c], "cancelled")] \/ UNCHANGED db
    BY <1>32 DEF CancelWrite
  <2>3. db' \in [Execution -> Row]
    <3>1. db \in [Execution -> Row]
      OBVIOUS
    <3> HIDE DEF TypeInv, TypeOK
    <3> QED
      BY <2>1, <2>2, <3>1
  <2>5. cpc' = [cpc EXCEPT ![c] = "wrote"] \/ cpc' = [cpc EXCEPT ![c] = "failed"]
    BY <1>32 DEF CancelWrite
  <2>4. cpc' \in [Canceller -> CPCs]
    BY <2>5 DEF CPCs
  <2> QED
    BY <1>32, <2>3, <2>4 DEF CancelWrite, VerdictReady, Mode
<1>33. ASSUME NEW c \in Canceller, CancelSignal(c) PROVE TypeInv'
  BY <1>33 DEF CancelSignal, Complete, CPCs, Terminal, VerdictReady, Mode
<1>34. CASE Restart
  BY <1>34 DEF Restart, Idle, PCs, CPCs, CtxStates, OutputStates, VerdictReady, Mode
<1>35. CASE UNCHANGED vars
  BY <1>35 DEF vars, VerdictReady, Mode
<1> QED
  BY <1>1, <1>2, <1>3, <1>4, <1>5, <1>6, <1>7, <1>8, <1>9, <1>10,
     <1>11, <1>12, <1>13, <1>14, <1>15, <1>16, <1>17, <1>18, <1>19, <1>20,
     <1>21, <1>22, <1>23, <1>24, <1>25, <1>26, <1>27, <1>28, <1>29, <1>30,
     <1>31, <1>32, <1>33, <1>34, <1>35
  DEF Next, Handler, Worker, Environment, Cancel

\* Every variable stays within its type: in particular only a verdict is ever
\* told to the user and only a terminal status completes a stream.
THEOREM TypeCorrect == Spec => []TypeOK
<1>1. Spec => []TypeInv
  BY TypeInit, TypeStep, PTL DEF Spec
<1>2. TypeInv => TypeOK
  BY DEF TypeInv
<1> QED
  BY <1>1, <1>2, PTL


-----------------------------------------------------------------------------
(* A worker that is gone has left a terminal status *)

\* The database answers, the clients stay and the server runs on.
Reliable == Faults \cap {"database", "disconnect"} = {} /\ MaxCrashes = 0

\* The worker is past its final write, or it will return without one: the
\* capture ends with a context that a cancel request has cancelled.
Leaving(e) ==
  \/ pc[e] \in {"remove", "disown", "unregister", "done"}
  \/ pc[e] = "capture" /\ ctx[e] = "canceled"

LeftTerminal ==
  \A e \in Execution :
    /\ pc[e] \in {"notify", "signal"} => db[e].status \in Terminal
    /\ Leaving(e) => db[e].status \in Terminal \/ Firing(e)

LEMMA LeftTerminalStep ==
  Reliable /\ TypeInv /\ LeftTerminal /\ [Next]_vars => LeftTerminal'
<1> SUFFICES ASSUME Reliable, TypeInv, LeftTerminal, [Next]_vars PROVE LeftTerminal'
  OBVIOUS
<1> USE CommandsAssumption DEF TypeInv, TypeOK, Reliable, workerVars, dockerVars, maps, cancelVars, outVars
<1>1. ASSUME NEW e \in Execution, Check(e) PROVE LeftTerminal'
  BY <1>1 DEF Check, Step, Goto, LeftTerminal, Leaving, Firing
<1>2. ASSUME NEW e \in Execution, Reject(e) PROVE LeftTerminal'
  <2>1. /\ UNCHANGED <<db, ctx, cpc>>
        /\ \A f \in Execution : pc'[f] = pc[f] \/ pc'[f] = "rejected"
    BY <1>2 DEF Reject, Step, Goto
  <2> QED
    BY <2>1 DEF LeftTerminal, Leaving, Firing
<1>3. ASSUME NEW e \in Execution, Launch(e) PROVE LeftTerminal'
  <2>1. /\ UNCHANGED <<ctx, cpc>> /\ pc'[e] \in {"launched", "rejected"}
        /\ \A f \in Execution \ {e} : pc'[f] = pc[f] /\ db'[f] = db[f]
    BY <1>3 DEF Launch, Goto
  <2> HIDE DEF TypeInv, TypeOK
  <2> QED
    BY <2>1 DEF LeftTerminal, Leaving, Firing
<1>4. ASSUME NEW e \in Execution, Register(e) PROVE LeftTerminal'
  BY <1>4 DEF Register, Step, Goto, LeftTerminal, Leaving, Firing
<1>5. ASSUME NEW e \in Execution, MarkRunning(e) PROVE LeftTerminal'
  BY <1>5 DEF MarkRunning, Save, Mode, Modes, Step, Goto, LeftTerminal, Leaving, Firing
<1>6. ASSUME NEW e \in Execution, Capture(e) PROVE LeftTerminal'
  BY <1>6 DEF Capture, Fail, Conclude, Step, Goto, LeftTerminal, Leaving, Firing
<1>7. ASSUME NEW e \in Execution, CopyArtifacts(e) PROVE LeftTerminal'
  BY <1>7 DEF CopyArtifacts, Fail, Conclude, Step, Goto, LeftTerminal, Leaving, Firing
<1>8. ASSUME NEW e \in Execution, Persist(e) PROVE LeftTerminal'
  BY <1>8 DEF Persist, Save, VerdictReady, Terminal, Step, Goto, LeftTerminal, Leaving, Firing
<1>9. ASSUME NEW e \in Execution, Notify(e) PROVE LeftTerminal'
  BY <1>9 DEF Notify, Step, Goto, LeftTerminal, Leaving, Firing
<1>10. ASSUME NEW e \in Execution, Signal(e) PROVE LeftTerminal'
  BY <1>10 DEF Signal, Step, Goto, LeftTerminal, Leaving, Firing
<1>11. ASSUME NEW e \in Execution, Remove(e) PROVE LeftTerminal'
  BY <1>11 DEF Remove, Step, Goto, LeftTerminal, Leaving, Firing
<1>12. ASSUME NEW e \in Execution, Disown(e) PROVE LeftTerminal'
  BY <1>12 DEF Disown, Step, Goto, LeftTerminal, Leaving, Firing
<1>13. ASSUME NEW e \in Execution, Unregister(e) PROVE LeftTerminal'
  BY <1>13 DEF Unregister, Step, Goto, LeftTerminal, Leaving, Firing
<1>14. ASSUME NEW e \in Execution, CreateContainer(e) PROVE LeftTerminal'
  BY <1>14 DEF CreateContainer, Fail, Conclude, Step, Goto, LeftTerminal, Leaving, Firing
<1>15. ASSUME NEW e \in Execution, RecordContainer(e) PROVE LeftTerminal'
  BY <1>15 DEF RecordContainer, Save, Step, Goto, LeftTerminal, Leaving, Firing
<1>16. ASSUME NEW e \in Execution, Own(e) PROVE LeftTerminal'
  BY <1>16 DEF Own, Step, Goto, LeftTerminal, Leaving, Firing
<1>17. ASSUME NEW e \in Execution, StartContainer(e) PROVE LeftTerminal'
  BY <1>17 DEF StartContainer, Fail, Conclude, Answered, Step, Goto, LeftTerminal, Leaving, Firing
<1>18. ASSUME NEW e \in Execution, AttachStream(e) PROVE LeftTerminal'
  BY <1>18 DEF AttachStream, Answered, Step, Goto, LeftTerminal, Leaving, Firing
<1>19. ASSUME NEW e \in Execution, Abort(e) PROVE LeftTerminal'
  BY <1>19 DEF Abort, Fail, Conclude, Step, Goto, LeftTerminal, Leaving, Firing
<1>20. ASSUME NEW e \in Execution, Expire(e) PROVE LeftTerminal'
  BY <1>20 DEF Expire, Fail, Conclude, Step, Goto, LeftTerminal, Leaving, Firing
<1>21. ASSUME NEW e \in Execution, ExecInContainer(e) PROVE LeftTerminal'
  BY <1>21 DEF ExecInContainer, Fail, Conclude, Step, Goto, LeftTerminal, Leaving, Firing
<1>22. ASSUME NEW e \in Execution, AttachExecStream(e) PROVE LeftTerminal'
  BY <1>22 DEF AttachExecStream, Fail, Conclude, Answered, Step, Goto, LeftTerminal, Leaving, Firing
<1>23. ASSUME NEW e \in Execution, InspectExec(e) PROVE LeftTerminal'
  BY <1>23 DEF InspectExec, Fail, Conclude, Step, Goto, LeftTerminal, Leaving, Firing
<1>24. ASSUME NEW e \in Execution, ContainerLogs(e) PROVE LeftTerminal'
  BY <1>24 DEF ContainerLogs, Fail, Conclude, Answered, Step, Goto, LeftTerminal, Leaving, Firing
<1>25. ASSUME NEW e \in Execution, Deadline(e) PROVE LeftTerminal'
  BY <1>25 DEF Deadline, Step, Goto, LeftTerminal, Leaving, Firing
<1>26. ASSUME NEW e \in Execution, ProcessExit(e) PROVE LeftTerminal'
  BY <1>26 DEF ProcessExit, Step, Goto, LeftTerminal, Leaving, Firing
<1>27. ASSUME NEW e \in Execution, StreamEnd(e) PROVE LeftTerminal'
  BY <1>27 DEF StreamEnd, CloseOutput, Step, Goto, LeftTerminal, Leaving, Firing
<1>28. ASSUME NEW e \in Execution, DemuxCancelled(e) PROVE LeftTerminal'
  BY <1>28 DEF DemuxCancelled, CloseOutput, Step, Goto, LeftTerminal, Leaving, Firing
<1>29. ASSUME NEW c \in Canceller, CancelLoad(c) PROVE LeftTerminal'
  BY <1>29 DEF CancelLoad, Step, Goto, LeftTerminal, Leaving, Firing
<1>30. ASSUME NEW c \in Canceller, CancelStop(c) PROVE LeftTerminal'
  BY <1>30 DEF CancelStop, Step, Goto, LeftTerminal, Leaving, Firing
<1>31. ASSUME NEW c \in Canceller, CancelFire(c) PROVE LeftTerminal'
  BY <1>31 DEF CancelFire, Step, Goto, LeftTerminal, Leaving, Firing
<1>32. ASSUME NEW c \in Canceller, CancelWrite(c) PROVE LeftTerminal'
  <2>1. /\ db' = [db EXCEPT ![TargetOf[c]] = Concluded(snap[c], "cancelled")]
        /\ cpc' = [cpc EXCEPT ![c] = "wrote"]
        /\ UNCHANGED <<pc, ctx>>
    BY <1>32 DEF CancelWrite, Reliable
  <2>2. Concluded(snap[c], "cancelled").status \in Terminal
    BY ConcludedRow DEF Terminal
  <2>3. TargetOf[c] \in Execution
    OBVIOUS
  <2> SUFFICES ASSUME NEW e \in Execution
               PROVE  /\ pc[e] \in {"notify", "signal"} => db'[e].status \in Terminal
                      /\ Leaving(e) => db'[e].status \in Terminal \/ Firing(e)'
    BY <2>1 DEF LeftTerminal, Leaving
  <2>4. CASE e = TargetOf[c]
    BY <2>1, <2>2, <2>4
  <2>5. CASE e # TargetOf[c]
    BY <2>1, <2>5 DEF LeftTerminal, Firing
  <2> QED
    BY <2>4, <2>5
<1>33. ASSUME NEW c \in Canceller, CancelSignal(c) PROVE LeftTerminal'
  BY <1>33 DEF CancelSignal, Step, Goto, LeftTerminal, Leaving, Firing
<1>34. CASE Restart
  BY <1>34 DEF Restart, Reliable
<1>35. CASE UNCHANGED vars
  BY <1>35 DEF vars, Step, Goto, LeftTerminal, Leaving, Firing
<1> QED
  BY <1>1, <1>2, <1>3, <1>4, <1>5, <1>6, <1>7, <1>8, <1>9, <1>10,
     <1>11, <1>12, <1>13, <1>14, <1>15, <1>16, <1>17, <1>18, <1>19, <1>20,
     <1>21, <1>22, <1>23, <1>24, <1>25, <1>26, <1>27, <1>28, <1>29, <1>30,
     <1>31, <1>32, <1>33, <1>34, <1>35
  DEF Next, Handler, Worker, Environment, Cancel


\* However cancel requests, refusals of the daemon, deadlines and broken streams
\* interleave with a worker, its row is terminal when it is gone or a cancel
\* request is about to make it so: the lock of the command is not held for ever.
THEOREM FinishedTerminal ==
  ASSUME Reliable
  PROVE  Spec => []FinishedIsTerminal
<1>1. Init => LeftTerminal
  BY DEF Init, LeftTerminal, Leaving
<1>2. TypeInv /\ LeftTerminal /\ [Next]_vars => LeftTerminal'
  BY LeftTerminalStep
<1>3. LeftTerminal => FinishedIsTerminal
  BY DEF LeftTerminal, Leaving, FinishedIsTerminal
<1> QED
  BY TypeInit, TypeStep, <1>1, <1>2, <1>3, PTL DEF Spec

-----------------------------------------------------------------------------
(* A worker that is gone has completed its stream *)

\* A cancel request has cancelled the context and has yet to signal.
Signalling(e) ==
  \E c \in Canceller : TargetOf[c] = e /\ cpc[c] \in {"fired", "wrote"}

StreamLeft ==
  \A e \in Execution : Leaving(e) => stream[e] # "open" \/ Signalling(e)

LEMMA StreamLeftStep ==
  Reliable /\ TypeInv /\ StreamLeft /\ [Next]_vars => StreamLeft'
<1> SUFFICES ASSUME Reliable, TypeInv, StreamLeft, [Next]_vars PROVE StreamLeft'
  OBVIOUS
<1>0. ASSUME UNCHANGED <<stream, cpc>>, \A f \in Execution : Leaving(f)' => Leaving(f)
      PROVE  StreamLeft'
  BY <1>0 DEF StreamLeft, Signalling
<1>c. ASSUME NEW c \in Canceller, UNCHANGED <<stream, pc, ctx>>,
             \A d \in Canceller \ {c} : cpc'[d] = cpc[d], cpc[c] \notin {"fired", "wrote"}
      PROVE  StreamLeft'
  <2>1. \A e \in Execution : (Leaving(e)' => Leaving(e)) /\ (Signalling(e) => Signalling(e)')
    BY <1>c DEF Leaving, Signalling
  <2> QED
    BY <1>c, <2>1 DEF StreamLeft
<1>d. ASSUME NEW e \in Execution, stream'[e] # "open", UNCHANGED <<ctx, cpc>>,
             \A f \in Execution \ {e} : stream'[f] = stream[f] /\ pc'[f] = pc[f]
      PROVE  StreamLeft'
  BY <1>d DEF StreamLeft, Leaving, Signalling
<1>f. ASSUME NEW c \in Canceller, UNCHANGED <<stream, pc>>,
             cpc[c] = "stopped", cpc'[c] = "fired",
             \A d \in Canceller \ {c} : cpc'[d] = cpc[d],
             \A e \in Execution : ctx'[e] = ctx[e] \/ e = TargetOf[c]
      PROVE  StreamLeft'
  <2>1. \A e \in Execution : Signalling(e) => Signalling(e)'
    BY <1>f DEF Signalling
  <2>2. \A e \in Execution : (Leaving(e)' => Leaving(e)) \/ Signalling(e)'
    BY <1>f DEF Leaving, Signalling
  <2> QED
    BY <1>f, <2>1, <2>2 DEF StreamLeft
<1>w. ASSUME UNCHANGED <<stream, pc, ctx>>,
             \A d \in Canceller : cpc'[d] = cpc[d] \/ (cpc[d] = "fired" /\ cpc'[d] = "wrote")
      PROVE  StreamLeft'
  <2>1. \A e \in Execution : (Leaving(e)' => Leaving(e)) /\ (Signalling(e) => Signalling(e)')
    BY <1>w DEF Leaving, Signalling
  <2> QED
    BY <1>w, <2>1 DEF StreamLeft
<1> USE CommandsAssumption DEF TypeInv, TypeOK, Reliable, workerVars, dockerVars, maps, cancelVars, outVars
<1>1. ASSUME NEW e \in Execution, Check(e) PROVE StreamLeft'
  <2>1. \A f \in Execution : Leaving(f)' => Leaving(f)
    BY <1>1 DEF Check, Step, Goto, Leaving
  <2> QED
    BY <1>1, <1>0, <2>1 DEF Check
<1>2. ASSUME NEW e \in Execution, Reject(e) PROVE StreamLeft'
  BY <1>2 DEF Reject, Step, Goto, StreamLeft, Leaving, Signalling
<1>3. ASSUME NEW e \in Execution, Launch(e) PROVE StreamLeft'
  <2>1. \A f \in Execution : Leaving(f)' => Leaving(f)
    BY <1>3 DEF Launch, Step, Goto, Leaving
  <2> QED
    BY <1>3, <1>0, <2>1 DEF Launch
<1>4. ASSUME NEW e \in Execution, Register(e) PROVE StreamLeft'
  BY <1>4 DEF Register, Step, Goto, StreamLeft, Leaving, Signalling
<1>5. ASSUME NEW e \in Execution, MarkRunning(e) PROVE StreamLeft'
  <2>1. \A f \in Execution : Leaving(f)' => Leaving(f)
    BY <1>5 DEF MarkRunning, Step, Goto, Leaving, Mode, Modes
  <2> QED
    BY <1>5, <1>0, <2>1 DEF MarkRunning
<1>6. ASSUME NEW e \in Execution, Capture(e) PROVE StreamLeft'
  <2>1. \A f \in Execution : Leaving(f)' => Leaving(f)
    BY <1>6 DEF Capture, Step, Goto, Leaving, Fail, Conclude
  <2> QED
    BY <1>6, <1>0, <2>1 DEF Capture
<1>7. ASSUME NEW e \in Execution, CopyArtifacts(e) PROVE StreamLeft'
  <2>1. \A f \in Execution : Leaving(f)' => Leaving(f)
    BY <1>7 DEF CopyArtifacts, Step, Goto, Leaving, Fail, Conclude
  <2> QED
    BY <1>7, <1>0, <2>1 DEF CopyArtifacts
<1>8. ASSUME NEW e \in Execution, Persist(e) PROVE StreamLeft'
  BY <1>8 DEF Persist, Step, Goto, StreamLeft, Leaving, Signalling
<1>9. ASSUME NEW e \in Execution, Notify(e) PROVE StreamLeft'
  BY <1>9 DEF Notify, Step, Goto, StreamLeft, Leaving, Signalling
<1>10. ASSUME NEW e \in Execution, Signal(e) PROVE StreamLeft'
  <2>1. rec[e].status \in Verdict
    BY <1>10 DEF Signal, Step, VerdictReady
  <2>2. stream'[e] # "open" /\ \A f \in Execution \ {e} : stream'[f] = stream[f]
    BY <1>10, <2>1 DEF Signal, Complete, Verdict
  <2>3. /\ UNCHANGED <<ctx, cpc>>
        /\ \A f \in Execution \ {e} : pc'[f] = pc[f]
    BY <1>10 DEF Signal, Step, Goto
  <2> QED
    BY <2>2, <2>3, <1>d
<1>11. ASSUME NEW e \in Execution, Remove(e) PROVE StreamLeft'
  BY <1>11 DEF Remove, Step, Goto, StreamLeft, Leaving, Signalling
<1>12. ASSUME NEW e \in Execution, Disown(e) PROVE StreamLeft'
  BY <1>12 DEF Disown, Step, Goto, StreamLeft, Leaving, Signalling
<1>13. ASSUME NEW e \in Execution, Unregister(e) PROVE StreamLeft'
  BY <1>13 DEF Unregister, Step, Goto, StreamLeft, Leaving, Signalling
<1>14. ASSUME NEW e \in Execution, CreateContainer(e) PROVE StreamLeft'
  <2>1. \A f \in Execution : Leaving(f)' => Leaving(f)
    BY <1>14 DEF CreateContainer, Step, Goto, Leaving, Fail, Conclude
  <2> QED
    BY <1>14, <1>0, <2>1 DEF CreateContainer
<1>15. ASSUME NEW e \in Execution, RecordContainer(e) PROVE StreamLeft'
  BY <1>15 DEF RecordContainer, Step, Goto, StreamLeft, Leaving, Signalling
<1>16. ASSUME NEW e \in Execution, Own(e) PROVE StreamLeft'
  BY <1>16 DEF Own, Step, Goto, StreamLeft, Leaving, Signalling
<1>17. ASSUME NEW e \in Execution, StartContainer(e) PROVE StreamLeft'
  <2>1. \A f \in Execution : Leaving(f)' => Leaving(f)
    BY <1>17 DEF StartContainer, Step, Goto, Leaving, Fail, Conclude
  <2> QED
    BY <1>17, <1>0, <2>1 DEF StartContainer
<1>18. ASSUME NEW e \in Execution, AttachStream(e) PROVE StreamLeft'
  <2>1. \A f \in Execution : Leaving(f)' => Leaving(f)
    BY <1>18 DEF AttachStream, Step, Goto, Leaving, Answered
  <2> QED
    BY <1>18, <1>0, <2>1 DEF AttachStream
<1>19. ASSUME NEW e \in Execution, Abort(e) PROVE StreamLeft'
  BY <1>19 DEF Abort, Fail, Conclude, Step, Goto, StreamLeft, Leaving, Signalling
<1>20. ASSUME NEW e \in Execution, Expire(e) PROVE StreamLeft'
  BY <1>20 DEF Expire, Fail, Conclude, Step, Goto, StreamLeft, Leaving, Signalling
<1>21. ASSUME NEW e \in Execution, ExecInContainer(e) PROVE StreamLeft'
  <2>1. \A f \in Execution : Leaving(f)' => Leaving(f)
    BY <1>21 DEF ExecInContainer, Step, Goto, Leaving, Fail, Conclude
  <2> QED
    BY <1>21, <1>0, <2>1 DEF ExecInContainer
<1>22. ASSUME NEW e \in Execution, AttachExecStream(e) PROVE StreamLeft'
  <2>1. \A f \in Execution : Leaving(f)' => Leaving(f)
    BY <1>22 DEF AttachExecStream, Step, Goto, Leaving, Fail, Conclude, Answered
  <2> QED
    BY <1>22, <1>0, <2>1 DEF AttachExecStream
<1>23. ASSUME NEW e \in Execution, InspectExec(e) PROVE StreamLeft'
  <2>1. \A f \in Execution : Leaving(f)' => Leaving(f)
    BY <1>23 DEF InspectExec, Step, Goto, Leaving, Fail, Conclude
  <2> QED
    BY <1>23, <1>0, <2>1 DEF InspectExec
<1>24. ASSUME NEW e \in Execution, ContainerLogs(e) PROVE StreamLeft'
  <2>1. \A f \in Execution : Leaving(f)' => Leaving(f)
    BY <1>24 DEF ContainerLogs, Step, Goto, Leaving, Fail, Conclude, Answered
  <2> QED
    BY <1>24, <1>0, <2>1 DEF ContainerLogs
<1>25. ASSUME NEW e \in Execution, Deadline(e) PROVE StreamLeft'
  BY <1>25 DEF Deadline, Step, Goto, StreamLeft, Leaving, Signalling
<1>26. ASSUME NEW e \in Execution, ProcessExit(e) PROVE StreamLeft'
  BY <1>26 DEF ProcessExit, Step, Goto, StreamLeft, Leaving, Signalling
<1>27. ASSUME NEW e \in Execution, StreamEnd(e) PROVE StreamLeft'
  BY <1>27 DEF StreamEnd, CloseOutput, Step, Goto, StreamLeft, Leaving, Signalling
<1>28. ASSUME NEW e \in Execution, DemuxCancelled(e) PROVE StreamLeft'
  BY <1>28 DEF DemuxCancelled, CloseOutput, Step, Goto, StreamLeft, Leaving, Signalling
<1>29. ASSUME NEW c \in Canceller, CancelLoad(c) PROVE StreamLeft'
  <2>1. /\ UNCHANGED <<stream, pc, ctx>>
        /\ \A d \in Canceller \ {c} : cpc'[d] = cpc[d]
        /\ cpc[c] \notin {"fired", "wrote"}
    BY <1>29 DEF CancelLoad
  <2> QED
    BY <1>c, <2>1
<1>30. ASSUME NEW c \in Canceller, CancelStop(c) PROVE StreamLeft'
  <2>1. /\ UNCHANGED <<stream, pc, ctx>>
        /\ \A d \in Canceller \ {c} : cpc'[d] = cpc[d]
        /\ cpc[c] \notin {"fired", "wrote"}
    BY <1>30 DEF CancelStop
  <2> QED
    BY <1>c, <2>1
<1>31. ASSUME NEW c \in Canceller, CancelFire(c) PROVE StreamLeft'
  <2>1. /\ UNCHANGED <<stream, pc>> /\ cpc'[c] = "fired"
        /\ \A d \in Canceller \ {c} : cpc'[d] = cpc[d]
        /\ \A e \in Execution : ctx'[e] = ctx[e] \/ e = TargetOf[c]
    BY <1>31 DEF CancelFire
  <2>2. cpc[c] = "stopped"
    BY <1>31 DEF CancelFire
  <2> QED
    BY <2>1, <2>2, <1>f
<1>32. ASSUME NEW c \in Canceller, CancelWrite(c) PROVE StreamLeft'
  <2>1. /\ UNCHANGED <<stream, pc, ctx>>
        /\ \A d \in Canceller : cpc'[d] = cpc[d] \/ (cpc[d] = "fired" /\ cpc'[d] = "wrote")
    BY <1>32 DEF CancelWrite
  <2> QED
    BY <2>1, <1>w
<1>33. ASSUME NEW c \in Canceller, CancelSignal(c) PROVE StreamLeft'
  BY <1>33 DEF CancelSignal, Complete, Step, Goto, StreamLeft, Leaving, Signalling
<1>34. CASE Restart
  BY <1>34 DEF Restart, Reliable
<1>35. CASE UNCHANGED vars
  BY <1>35 DEF vars, Step, Goto, StreamLeft, Leaving, Signalling
<1> QED
  BY <1>1, <1>2, <1>3, <1>4, <1>5, <1>6, <1>7, <1>8, <1>9, <1>10,
     <1>11, <1>12, <1>13, <1>14, <1>15, <1>16, <1>17, <1>18, <1>19, <1>20,
     <1>21, <1>22, <1>23, <1>24, <1>25, <1>26, <1>27, <1>28, <1>29, <1>30,
     <1>31, <1>32, <1>33, <1>34, <1>35
  DEF Next, Handler, Worker, Environment, Cancel

\* A subscriber never waits for an execution whose worker has returned, silently
\* or not, without a cancel request on its way to signalStreamComplete.
THEOREM StreamCompleted ==
  ASSUME Reliable
  PROVE  Spec => []StreamIsCompleted
<1>1. Init => StreamLeft
  BY DEF Init, StreamLeft, Leaving
<1>2. TypeInv /\ StreamLeft /\ [Next]_vars => StreamLeft'
  BY StreamLeftStep
<1>3. StreamLeft => StreamIsCompleted
  BY DEF StreamLeft, Leaving, Signalling, StreamIsCompleted
<1> QED
  BY TypeInit, TypeStep, <1>1, <1>2, <1>3, PTL DEF Spec

-----------------------------------------------------------------------------
(* The row is "running" while the worker works *)

\* Between the two writes the record is the running one, and so is the row
\* unless a cancel request has written it.
LockInv ==
  \A e \in Execution :
    /\ pc[e] \in {"create", "record"} => rec[e].status = "running"
    /\ pc[e] \in Working /\ ~Overwritten(e) => db[e].status = "running"

LEMMA LockInvStep ==
  "database" \notin Faults /\ TypeInv /\ LockInv /\ [Next]_vars => LockInv'
<1> SUFFICES ASSUME "database" \notin Faults, TypeInv, LockInv, [Next]_vars
             PROVE  LockInv'
  OBVIOUS
<1>0. ASSUME UNCHANGED cpc,
             \A f \in Execution :
               /\ pc'[f] \in Working => pc[f] \in Working /\ db'[f] = db[f]
               /\ pc'[f] \in {"create", "record"} =>
                    pc[f] \in {"create", "record"} /\ rec'[f].status = rec[f].status
      PROVE  LockInv'
  BY <1>0 DEF LockInv, Overwritten
<1> USE CommandsAssumption DEF TypeInv, TypeOK, workerVars, dockerVars, maps, cancelVars, outVars
<1>1. ASSUME NEW e \in Execution, Check(e) PROVE LockInv'
  BY <1>1 DEF Check, Step, Goto, LockInv, Working, Overwritten
<1>2. ASSUME NEW e \in Execution, Reject(e) PROVE LockInv'
  BY <1>2 DEF Reject, Step, Goto, LockInv, Working, Overwritten
<1>3. ASSUME NEW e \in Execution, Launch(e) PROVE LockInv'
  <2>1. \A f \in Execution :
          /\ pc'[f] \in Working => pc[f] \in Working /\ db'[f] = db[f]
          /\ pc'[f] \in {"create", "record"} =>
               pc[f] \in {"create", "record"} /\ rec'[f].status = rec[f].status
    BY <1>3 DEF Launch, Step, Goto, Working, Fail, Conclude
  <2> QED
    BY <1>3, <1>0, <2>1 DEF Launch
<1>4. ASSUME NEW e \in Execution, Register(e) PROVE LockInv'
  BY <1>4 DEF Register, Step, Goto, LockInv, Working, Overwritten
<1>5. ASSUME NEW e \in Execution, MarkRunning(e) PROVE LockInv'
  <2> DEFINE r == [rec[e] EXCEPT !.status = "running", !.started_at = TRUE,
                                 !.container_id = (Mode(e) # "create")]
  <2>1. rec[e] \in Row /\ (Mode(e) # "create") \in BOOLEAN
    OBVIOUS
  <2>2. r.status = "running"
    BY <2>1, RunningRow
  <2>3. rec' = [rec EXCEPT ![e] = r] /\ db' = [db EXCEPT ![e] = r] /\ UNCHANGED cpc
    BY <1>5 DEF MarkRunning, Save
  <2> HIDE DEF r
  <2>4. \A f \in Execution \ {e} : db'[f] = db[f] /\ rec'[f] = rec[f] /\ pc'[f] = pc[f]
    BY <1>5, <2>3 DEF MarkRunning, Step, Goto
  <2>5. rec'[e].status = "running" /\ db'[e].status = "running"
    BY <2>2, <2>3
  <2> QED
    BY <2>3, <2>4, <2>5 DEF LockInv, Overwritten
<1>6. ASSUME NEW e \in Execution, Capture(e) PROVE LockInv'
  <2>1. \A f \in Execution :
          /\ pc'[f] \in Working => pc[f] \in Working /\ db'[f] = db[f]
          /\ pc'[f] \in {"create", "record"} =>
               pc[f] \in {"create", "record"} /\ rec'[f].status = rec[f].status
    BY <1>6 DEF Capture, Step, Goto, Working, Fail, Conclude
  <2> QED
    BY <1>6, <1>0, <2>1 DEF Capture
<1>7. ASSUME NEW e \in Execution, CopyArtifacts(e) PROVE LockInv'
  <2>1. \A f \in Execution :
          /\ pc'[f] \in Working => pc[f] \in Working /\ db'[f] = db[f]
          /\ pc'[f] \in {"create", "record"} =>
               pc[f] \in {"create", "record"} /\ rec'[f].status = rec[f].status
    BY <1>7 DEF CopyArtifacts, Step, Goto, Working, Fail, Conclude
  <2> QED
    BY <1>7, <1>0, <2>1 DEF CopyArtifacts
<1>8. ASSUME NEW e \in Execution, Persist(e) PROVE LockInv'
  <2>1. \A f \in Execution :
          /\ pc'[f] \in Working => pc[f] \in Working /\ db'[f] = db[f]
          /\ pc'[f] \in {"create", "record"} =>
               pc[f] \in {"create", "record"} /\ rec'[f].status = rec[f].status
    BY <1>8 DEF Persist, Step, Goto, Working, Fail, Conclude, Save
  <2> QED
    BY <1>8, <1>0, <2>1 DEF Persist
<1>9. ASSUME NEW e \in Execution, Notify(e) PROVE LockInv'
  BY <1>9 DEF Notify, Step, Goto, LockInv, Working, Overwritten
<1>10. ASSUME NEW e \in Execution, Signal(e) PROVE LockInv'
  BY <1>10 DEF Signal, Step, Goto, LockInv, Working, Overwritten
<1>11. ASSUME NEW e \in Execution, Remove(e) PROVE LockInv'
  BY <1>11 DEF Remove, Step, Goto, LockInv, Working, Overwritten
<1>12. ASSUME NEW e \in Execution, Disown(e) PROVE LockInv'
  BY <1>12 DEF Disown, Step, Goto, LockInv, Working, Overwritten
<1>13. ASSUME NEW e \in Execution, Unregister(e) PROVE LockInv'
  BY <1>13 DEF Unregister, Step, Goto, LockInv, Working, Overwritten
<1>14. ASSUME NEW e \in Execution, CreateContainer(e) PROVE LockInv'
  <2>2. [rec[e] EXCEPT !.container_id = TRUE].status = rec[e].status
    BY ContainedRow
  <2>1. \A f \in Execution :
          /\ pc'[f] \in Working => pc[f] \in Working /\ db'[f] = db[f]
          /\ pc'[f] \in {"create", "record"} =>
               pc[f] \in {"create", "record"} /\ rec'[f].status = rec[f].status
    BY <1>14, <2>2 DEF CreateContainer, Step, Goto, Working, Fail, Conclude
  <2> QED
    BY <1>14, <1>0, <2>1 DEF CreateContainer
<1>15. ASSUME NEW e \in Execution, RecordContainer(e) PROVE LockInv'
  BY <1>15 DEF RecordContainer, Save, Step, Goto, LockInv, Working, Overwritten
<1>16. ASSUME NEW e \in Execution, Own(e) PROVE LockInv'
  BY <1>16 DEF Own, Step, Goto, LockInv, Working, Overwritten
<1>17. ASSUME NEW e \in Execution, StartContainer(e) PROVE LockInv'
  BY <1>17 DEF StartContainer, Fail, Conclude, Step, Goto, LockInv, Working, Overwritten
<1>18. ASSUME NEW e \in Execution, AttachStream(e) PROVE LockInv'
  BY <1>18 DEF AttachStream, Step, Goto, LockInv, Working, Overwritten
<1>19. ASSUME NEW e \in Execution, Abort(e) PROVE LockInv'
  BY <1>19 DEF Abort, Fail, Conclude, Step, Goto, LockInv, Working, Overwritten
<1>20. ASSUME NEW e \in Execution, Expire(e) PROVE LockInv'
  BY <1>20 DEF Expire, Fail, Conclude, Step, Goto, LockInv, Working, Overwritten
<1>21. ASSUME NEW e \in Execution, ExecInContainer(e) PROVE LockInv'
  <2>1. \A f \in Execution :
          /\ pc'[f] \in Working => pc[f] \in Working /\ db'[f] = db[f]
          /\ pc'[f] \in {"create", "record"} =>
               pc[f] \in {"create", "record"} /\ rec'[f].status = rec[f].status
    BY <1>21 DEF ExecInContainer, Step, Goto, Working, Fail, Conclude
  <2> QED
    BY <1>21, <1>0, <2>1 DEF ExecInContainer
<1>22. ASSUME NEW e \in Execution, AttachExecStream(e) PROVE LockInv'
  BY <1>22 DEF AttachExecStream, Fail, Conclude, Step, Goto, LockInv, Working, Overwritten
<1>23. ASSUME NEW e \in Execution, InspectExec(e) PROVE LockInv'
  <2>1. \A f \in Execution :
          /\ pc'[f] \in Working => pc[f] \in Working /\ db'[f] = db[f]
          /\ pc'[f] \in {"create", "record"} =>
               pc[f] \in {"create", "record"} /\ rec'[f].status = rec[f].status
    BY <1>23 DEF InspectExec, Step, Goto, Working, Fail, Conclude
  <2> QED
    BY <1>23, <1>0, <2>1 DEF InspectExec
<1>24. ASSUME NEW e \in Execution, ContainerLogs(e) PROVE LockInv'
  <2>1. \A f \in Execution :
          /\ pc'[f] \in Working => pc[f] \in Working /\ db'[f] = db[f]
          /\ pc'[f] \in {"create", "record"} =>
               pc[f] \in {"create", "record"} /\ rec'[f].status = rec[f].status
    BY <1>24 DEF ContainerLogs, Step, Goto, Working, Fail, Conclude
  <2> QED
    BY <1>24, <1>0, <2>1 DEF ContainerLogs
<1>25. ASSUME NEW e \in Execution, Deadline(e) PROVE LockInv'
  BY <1>25 DEF Deadline, Step, Goto, LockInv, Working, Overwritten
<1>26. ASSUME NEW e \in Execution, ProcessExit(e) PROVE LockInv'
  BY <1>26 DEF ProcessExit, Step, Goto, LockInv, Working, Overwritten
<1>27. ASSUME NEW e \in Execution, StreamEnd(e) PROVE LockInv'
  BY <1>27 DEF StreamEnd, CloseOutput, Step, Goto, LockInv, Working, Overwritten
<1>28. ASSUME NEW e \in Execution, DemuxCancelled(e) PROVE LockInv'
  BY <1>28 DEF DemuxCancelled, CloseOutput, Step, Goto, LockInv, Working, Overwritten
<1>29. ASSUME NEW c \in Canceller, CancelLoad(c) PROVE LockInv'
  BY <1>29 DEF CancelLoad, Step, Goto, LockInv, Working, Overwritten
<1>30. ASSUME NEW c \in Canceller, CancelStop(c) PROVE LockInv'
  BY <1>30 DEF CancelStop, Step, Goto, LockInv, Working, Overwritten
<1>31. ASSUME NEW c \in Canceller, CancelFire(c) PROVE LockInv'
  BY <1>31 DEF CancelFire, Step, Goto, LockInv, Working, Overwritten
<1>32. ASSUME NEW c \in Canceller, CancelWrite(c) PROVE LockInv'
  <2>1. /\ \A f \in Execution \ {TargetOf[c]} : db'[f] = db[f]
        /\ UNCHANGED <<pc, rec>>
        /\ UNCHANGED db \/ cpc'[c] = "wrote"
        /\ \A d \in Canceller \ {c} : cpc'[d] = cpc[d]
        /\ cpc[c] = "fired"
    BY <1>32 DEF CancelWrite
  <2>2. \A e \in Execution : Overwritten(e) => Overwritten(e)'
    BY <2>1 DEF Overwritten
  <2>3. UNCHANGED db \/ Overwritten(TargetOf[c])'
    BY <2>1 DEF Overwritten
  <2>4. pc' = pc /\ rec' = rec
    BY <1>32 DEF CancelWrite
  <2>5. ASSUME NEW e \in Execution, pc[e] \in Working, ~Overwritten(e)'
        PROVE  db'[e].status = "running"
    <3>1. db[e].status = "running"
      BY <2>2, <2>5 DEF LockInv
    <3>2. db'[e] = db[e]
      BY <2>1, <2>3, <2>5
    <3> QED
      BY <3>1, <3>2
  <2>6. \A e \in Execution : pc'[e] \in Working /\ ~Overwritten(e)' => db'[e].status = "running"
    BY <2>4, <2>5
  <2>7. \A e \in Execution : pc'[e] \in {"create", "record"} => rec'[e].status = "running"
    BY <2>4 DEF LockInv
  <2> QED
    BY <2>6, <2>7 DEF LockInv, Working
<1>33. ASSUME NEW c \in Canceller, CancelSignal(c) PROVE LockInv'
  BY <1>33 DEF CancelSignal, Step, Goto, LockInv, Working, Overwritten
<1>34. CASE Restart
  <2>1. \A e \in Execution :
          pc'[e] = IF pc[e] \in {"new", "rejected", "done", "lost"} THEN pc[e] ELSE "lost"
    BY <1>34 DEF Restart, Idle
  <2> QED
    BY <2>1 DEF LockInv, Working
<1>35. CASE UNCHANGED vars
  BY <1>35 DEF vars, Step, Goto, LockInv, Working, Overwritten
<1> QED
  BY <1>1, <1>2, <1>3, <1>4, <1>5, <1>6, <1>7, <1>8, <1>9, <1>10,
     <1>11, <1>12, <1>13, <1>14, <1>15, <1>16, <1>17, <1>18, <1>19, <1>20,
     <1>21, <1>22, <1>23, <1>24, <1>25, <1>26, <1>27, <1>28, <1>29, <1>30,
     <1>31, <1>32, <1>33, <1>34, <1>35
  DEF Next, Handler, Worker, Environment, Cancel

\* checkConcurrencyLock sees every worker that works, from its first write of
\* "running" to its verdict, unless a cancel request has written its row; a
\* restart leaves no worker that it would not see.
THEOREM LockHeld ==
  ASSUME "database" \notin Faults
  PROVE  Spec => []LockIsHeld
<1>1. Init => LockInv
  BY DEF Init, LockInv, Working
<1>2. TypeInv /\ LockInv /\ [Next]_vars => LockInv'
  BY LockInvStep
<1>3. LockInv => LockIsHeld
  BY DEF LockInv, LockIsHeld
<1> QED
  BY TypeInit, TypeStep, <1>1, <1>2, <1>3, PTL DEF Spec

-----------------------------------------------------------------------------
(* One verdict, told once *)

Told   == {"signal", "remove", "disown", "unregister", "done", "lost"}
Stored == {"notify"} \cup Told

\* A verdict is in the database only once the worker has stored it, and the
\* user has heard of it only once the worker has told it, whatever fails.
FinalInv ==
  \A e \in Execution :
    /\ pc[e] \in {"create", "record"} => rec[e].status = "running"
    /\ db[e].status \in Verdict => pc[e] \in Stored
    /\ Len(notices[e]) <= 1
    /\ pc[e] \notin Told => notices[e] = <<>>

\* A row loses its verdict to a cancellation only.
KeepsVerdict ==
  \A e \in Execution :
    db[e].status \in Verdict /\ db'[e].status # db[e].status
      => db'[e].status = "cancelled"

LEMMA FinalStep ==
  TypeInv /\ FinalInv /\ [Next]_vars => FinalInv' /\ KeepsVerdict
<1> SUFFICES ASSUME TypeInv, FinalInv, [Next]_vars PROVE FinalInv' /\ KeepsVerdict
  OBVIOUS
<1>0. ASSUME UNCHANGED <<db, notices>>,
             \A f \in Execution :
               /\ pc[f] \in Told => pc'[f] \in Told
               /\ pc[f] \in Stored => pc'[f] \in Stored
               /\ pc'[f] \in {"create", "record"} =>
                    pc[f] \in {"create", "record"} /\ rec'[f].status = rec[f].status
      PROVE  FinalInv' /\ KeepsVerdict
  BY <1>0 DEF FinalInv, KeepsVerdict
<1>a. ASSUME NEW e \in Execution, UNCHANGED notices,
              \A f \in Execution \ {e} : db'[f] = db[f] /\ rec'[f] = rec[f] /\ pc'[f] = pc[f],
              pc[e] \notin Stored, pc'[e] \notin Told,
              pc'[e] \in {"create", "record"} => rec'[e].status = "running",
              pc'[e] \in Stored \/ db'[e] = db[e] \/ db'[e].status \notin Verdict
       PROVE  FinalInv' /\ KeepsVerdict
  BY <1>a DEF FinalInv, KeepsVerdict, Stored
<1> USE CommandsAssumption DEF TypeInv, TypeOK, workerVars, dockerVars, maps, cancelVars, outVars
<1>1. ASSUME NEW e \in Execution, Check(e) PROVE FinalInv' /\ KeepsVerdict
  <2>1. \A f \in Execution :
          /\ pc[f] \in Told => pc'[f] \in Told
          /\ pc[f] \in Stored => pc'[f] \in Stored
          /\ pc'[f] \in {"create", "record"} =>
               pc[f] \in {"create", "record"} /\ rec'[f].status = rec[f].status
    BY <1>1 DEF Check, Step, Goto, Told, Stored
  <2> QED
    BY <1>1, <1>0, <2>1 DEF Check
<1>2. ASSUME NEW e \in Execution, Reject(e) PROVE FinalInv' /\ KeepsVerdict
  <2>1. \A f \in Execution :
          /\ pc[f] \in Told => pc'[f] \in Told
          /\ pc[f] \in Stored => pc'[f] \in Stored
          /\ pc'[f] \in {"create", "record"} =>
               pc[f] \in {"create", "record"} /\ rec'[f].status = rec[f].status
    BY <1>2 DEF Reject, Step, Goto, Told, Stored
  <2> QED
    BY <1>2, <1>0, <2>1 DEF Reject
<1>3. ASSUME NEW e \in Execution, Launch(e) PROVE FinalInv' /\ KeepsVerdict
  <2>1. pc[e] = "checked" /\ pc'[e] \in {"launched", "rejected"} /\ notices' = notices
    BY <1>3 DEF Launch, Goto
  <2>2. \A f \in Execution \ {e} : db'[f] = db[f] /\ rec'[f] = rec[f] /\ pc'[f] = pc[f]
    BY <1>3 DEF Launch, Goto
  <2>3. db'[e] = db[e] \/ db'[e].status = "queued"
    BY <1>3 DEF Launch, QueuedRow, NoRow
  <2> QED
    BY <1>a, <2>1, <2>2, <2>3 DEF Told, Stored, Verdict
<1>4. ASSUME NEW e \in Execution, Register(e) PROVE FinalInv' /\ KeepsVerdict
  <2>1. \A f \in Execution :
          /\ pc[f] \in Told => pc'[f] \in Told
          /\ pc[f] \in Stored => pc'[f] \in Stored
          /\ pc'[f] \in {"create", "record"} =>
               pc[f] \in {"create", "record"} /\ rec'[f].status = rec[f].status
    BY <1>4 DEF Register, Step, Goto, Told, Stored
  <2> QED
    BY <1>4, <1>0, <2>1 DEF Register
<1>5. ASSUME NEW e \in Execution, MarkRunning(e) PROVE FinalInv' /\ KeepsVerdict
  <2> DEFINE r == [rec[e] EXCEPT !.status = "running", !.started_at = TRUE,
                                 !.container_id = (Mode(e) # "create")]
  <2>1. rec[e] \in Row /\ (Mode(e) # "create") \in BOOLEAN
    OBVIOUS
  <2>2. r.status = "running"
    BY <2>1, RunningRow
  <2>3. rec' = [rec EXCEPT ![e] = r] /\ (db' = [db EXCEPT ![e] = r] \/ db' = db)
    BY <1>5 DEF MarkRunning, Save
  <2> HIDE DEF r
  <2>4. \A f \in Execution \ {e} : db'[f] = db[f] /\ rec'[f] = rec[f] /\ pc'[f] = pc[f]
    BY <1>5, <2>3 DEF MarkRunning, Step, Goto
  <2>5. rec'[e].status = "running" /\ (db'[e] = db[e] \/ db'[e].status = "running")
    BY <2>2, <2>3
  <2>6. pc[e] = "mark" /\ pc'[e] \in Modes /\ notices' = notices
    BY <1>5 DEF MarkRunning, Step, Goto, Mode
  <2> QED
    BY <1>a, <2>4, <2>5, <2>6 DEF Told, Stored, Verdict, Modes
<1>6. ASSUME NEW e \in Execution, Capture(e) PROVE FinalInv' /\ KeepsVerdict
  <2>1. \A f \in Execution :
          /\ pc[f] \in Told => pc'[f] \in Told
          /\ pc[f] \in Stored => pc'[f] \in Stored
          /\ pc'[f] \in {"create", "record"} =>
               pc[f] \in {"create", "record"} /\ rec'[f].status = rec[f].status
    BY <1>6 DEF Capture, Step, Goto, Told, Stored, Fail, Conclude
  <2> QED
    BY <1>6, <1>0, <2>1 DEF Capture
<1>7. ASSUME NEW e \in Execution, CopyArtifacts(e) PROVE FinalInv' /\ KeepsVerdict
  <2>1. \A f \in Execution :
          /\ pc[f] \in Told => pc'[f] \in Told
          /\ pc[f] \in Stored => pc'[f] \in Stored
          /\ pc'[f] \in {"create", "record"} =>
               pc[f] \in {"create", "record"} /\ rec'[f].status = rec[f].status
    BY <1>7 DEF CopyArtifacts, Step, Goto, Told, Stored, Fail, Conclude
  <2> QED
    BY <1>7, <1>0, <2>1 DEF CopyArtifacts
<1>8. ASSUME NEW e \in Execution, Persist(e) PROVE FinalInv' /\ KeepsVerdict
  <2>1. pc[e] = "persist" /\ pc'[e] = "notify" /\ notices' = notices /\ rec' = rec
    BY <1>8 DEF Persist, Step, Goto
  <2>2. \A f \in Execution \ {e} : db'[f] = db[f] /\ rec'[f] = rec[f] /\ pc'[f] = pc[f]
    BY <1>8 DEF Persist, Step, Goto, Save
  <2> QED
    BY <1>a, <2>1, <2>2 DEF Told, Stored
<1>9. ASSUME NEW e \in Execution, Notify(e) PROVE FinalInv' /\ KeepsVerdict
  <2>1. pc[e] = "notify" /\ pc'[e] = "signal" /\ db' = db /\ rec' = rec
    BY <1>9 DEF Notify, Step, Goto
  <2>2. \A f \in Execution \ {e} : notices'[f] = notices[f] /\ pc'[f] = pc[f]
    BY <1>9 DEF Notify, Step, Goto
  <2>3. notices[e] = <<>>
    BY <2>1 DEF FinalInv, Told
  <2>5. rec[e].status \in Verdict
    BY <2>1 DEF VerdictReady
  <2>6. Len(Append(notices[e], rec[e].status)) = 1
    BY <2>3, <2>5
  <2>7. notices'[e] = Append(notices[e], rec[e].status) \/ notices'[e] = <<>>
    BY <1>9, <2>3 DEF Notify
  <2>4. Len(notices'[e]) <= 1
    BY <2>6, <2>7
  <2> QED
    BY <2>1, <2>2, <2>4 DEF FinalInv, KeepsVerdict, Told, Stored
<1>10. ASSUME NEW e \in Execution, Signal(e) PROVE FinalInv' /\ KeepsVerdict
  <2>1. \A f \in Execution :
          /\ pc[f] \in Told => pc'[f] \in Told
          /\ pc[f] \in Stored => pc'[f] \in Stored
          /\ pc'[f] \in {"create", "record"} =>
               pc[f] \in {"create", "record"} /\ rec'[f].status = rec[f].status
    BY <1>10 DEF Signal, Step, Goto, Told, Stored
  <2> QED
    BY <1>10, <1>0, <2>1 DEF Signal
<1>11. ASSUME NEW e \in Execution, Remove(e) PROVE FinalInv' /\ KeepsVerdict
  <2>1. \A f \in Execution :
          /\ pc[f] \in Told => pc'[f] \in Told
          /\ pc[f] \in Stored => pc'[f] \in Stored
          /\ pc'[f] \in {"create", "record"} =>
               pc[f] \in {"create", "record"} /\ rec'[f].status = rec[f].status
    BY <1>11 DEF Remove, Step, Goto, Told, Stored
  <2> QED
    BY <1>11, <1>0, <2>1 DEF Remove
<1>12. ASSUME NEW e \in Execution, Disown(e) PROVE FinalInv' /\ KeepsVerdict
  <2>1. \A f \in Execution :
          /\ pc[f] \in Told => pc'[f] \in Told
          /\ pc[f] \in Stored => pc'[f] \in Stored
          /\ pc'[f] \in {"create", "record"} =>
               pc[f] \in {"create", "record"} /\ rec'[f].status = rec[f].status
    BY <1>12 DEF Disown, Step, Goto, Told, Stored
  <2> QED
    BY <1>12, <1>0, <2>1 DEF Disown
<1>13. ASSUME NEW e \in Execution, Unregister(e) PROVE FinalInv' /\ KeepsVerdict
  <2>1. \A f \in Execution :
          /\ pc[f] \in Told => pc'[f] \in Told
          /\ pc[f] \in Stored => pc'[f] \in Stored
          /\ pc'[f] \in {"create", "record"} =>
               pc[f] \in {"create", "record"} /\ rec'[f].status = rec[f].status
    BY <1>13 DEF Unregister, Step, Goto, Told, Stored
  <2> QED
    BY <1>13, <1>0, <2>1 DEF Unregister
<1>14. ASSUME NEW e \in Execution, CreateContainer(e) PROVE FinalInv' /\ KeepsVerdict
  <2>2. [rec[e] EXCEPT !.container_id = TRUE].status = rec[e].status
    BY ContainedRow
  <2>1. \A f \in Execution :
          /\ pc[f] \in Told => pc'[f] \in Told
          /\ pc[f] \in Stored => pc'[f] \in Stored
          /\ pc'[f] \in {"create", "record"} =>
               pc[f] \in {"create", "record"} /\ rec'[f].status = rec[f].status
    BY <1>14, <2>2 DEF CreateContainer, Step, Goto, Told, Stored, Fail, Conclude
  <2> QED
    BY <1>14, <1>0, <2>1 DEF CreateContainer
<1>15. ASSUME NEW e \in Execution, RecordContainer(e) PROVE FinalInv' /\ KeepsVerdict
  <2>1. pc[e] = "record" /\ pc'[e] = "own" /\ notices' = notices /\ rec' = rec
    BY <1>15 DEF RecordContainer, Step, Goto
  <2>2. \A f \in Execution \ {e} : db'[f] = db[f] /\ rec'[f] = rec[f] /\ pc'[f] = pc[f]
    BY <1>15 DEF RecordContainer, Step, Goto, Save
  <2>3. db'[e] = db[e] \/ db'[e].status = "running"
    BY <1>15, <2>1 DEF RecordContainer, Save, FinalInv
  <2> QED
    BY <1>a, <2>1, <2>2, <2>3 DEF Told, Stored, Verdict
<1>16. ASSUME NEW e \in Execution, Own(e) PROVE FinalInv' /\ KeepsVerdict
  <2>1. \A f \in Execution :
          /\ pc[f] \in Told => pc'[f] \in Told
          /\ pc[f] \in Stored => pc'[f] \in Stored
          /\ pc'[f] \in {"create", "record"} =>
               pc[f] \in {"create", "record"} /\ rec'[f].status = rec[f].status
    BY <1>16 DEF Own, Step, Goto, Told, Stored
  <2> QED
    BY <1>16, <1>0, <2>1 DEF Own
<1>17. ASSUME NEW e \in Execution, StartContainer(e) PROVE FinalInv' /\ KeepsVerdict
  <2>1. \A f \in Execution :
          /\ pc[f] \in Told => pc'[f] \in Told
          /\ pc[f] \in Stored => pc'[f] \in Stored
          /\ pc'[f] \in {"create", "record"} =>
               pc[f] \in {"create", "record"} /\ rec'[f].status = rec[f].status
    BY <1>17 DEF StartContainer, Step, Goto, Told, Stored, Fail, Conclude
  <2> QED
    BY <1>17, <1>0, <2>1 DEF StartContainer
<1>18. ASSUME NEW e \in Execution, AttachStream(e) PROVE FinalInv' /\ KeepsVerdict
  <2>1. \A f \in Execution :
          /\ pc[f] \in Told => pc'[f] \in Told
          /\ pc[f] \in Stored => pc'[f] \in Stored
          /\ pc'[f] \in {"create", "record"} =>
               pc[f] \in {"create", "record"} /\ rec'[f].status = rec[f].status
    BY <1>18 DEF AttachStream, Step, Goto, Told, Stored
  <2> QED
    BY <1>18, <1>0, <2>1 DEF AttachStream
<1>19. ASSUME NEW e \in Execution, Abort(e) PROVE FinalInv' /\ KeepsVerdict
  <2>1. \A f \in Execution :
          /\ pc[f] \in Told => pc'[f] \in Told
          /\ pc[f] \in Stored => pc'[f] \in Stored
          /\ pc'[f] \in {"create", "record"} =>
               pc[f] \in {"create", "record"} /\ rec'[f].status = rec[f].status
    BY <1>19 DEF Abort, Step, Goto, Told, Stored, Fail, Conclude
  <2> QED
    BY <1>19, <1>0, <2>1 DEF Abort
<1>20. ASSUME NEW e \in Execution, Expire(e) PROVE FinalInv' /\ KeepsVerdict
  <2>1. \A f \in Execution :
          /\ pc[f] \in Told => pc'[f] \in Told
          /\ pc[f] \in Stored => pc'[f] \in Stored
          /\ pc'[f] \in {"create", "record"} =>
               pc[f] \in {"create", "record"} /\ rec'[f].status = rec[f].status
    BY <1>20 DEF Expire, Step, Goto, Told, Stored, Fail, Conclude
  <2> QED
    BY <1>20, <1>0, <2>1 DEF Expire
<1>21. ASSUME NEW e \in Execution, ExecInContainer(e) PROVE FinalInv' /\ KeepsVerdict
  <2>1. \A f \in Execution :
          /\ pc[f] \in Told => pc'[f] \in Told
          /\ pc[f] \in Stored => pc'[f] \in Stored
          /\ pc'[f] \in {"create", "record"} =>
               pc[f] \in {"create", "record"} /\ rec'[f].status = rec[f].status
    BY <1>21 DEF ExecInContainer, Step, Goto, Told, Stored, Fail, Conclude
  <2> QED
    BY <1>21, <1>0, <2>1 DEF ExecInContainer
<1>22. ASSUME NEW e \in Execution, AttachExecStream(e) PROVE FinalInv' /\ KeepsVerdict
  <2>1. \A f \in Execution :
          /\ pc[f] \in Told => pc'[f] \in Told
          /\ pc[f] \in Stored => pc'[f] \in Stored
          /\ pc'[f] \in {"create", "record"} =>
               pc[f] \in {"create", "record"} /\ rec'[f].status = rec[f].status
    BY <1>22 DEF AttachExecStream, Step, Goto, Told, Stored, Fail, Conclude
  <2> QED
    BY <1>22, <1>0, <2>1 DEF AttachExecStream
<1>23. ASSUME NEW e \in Execution, InspectExec(e) PROVE FinalInv' /\ KeepsVerdict
  <2>1. \A f \in Execution :
          /\ pc[f] \in Told => pc'[f] \in Told
          /\ pc[f] \in Stored => pc'[f] \in Stored
          /\ pc'[f] \in {"create", "record"} =>
               pc[f] \in {"create", "record"} /\ rec'[f].status = rec[f].status
    BY <1>23 DEF InspectExec, Step, Goto, Told, Stored, Fail, Conclude
  <2> QED
    BY <1>23, <1>0, <2>1 DEF InspectExec
<1>24. ASSUME NEW e \in Execution, ContainerLogs(e) PROVE FinalInv' /\ KeepsVerdict
  <2>1. \A f \in Execution :
          /\ pc[f] \in Told => pc'[f] \in Told
          /\ pc[f] \in Stored => pc'[f] \in Stored
          /\ pc'[f] \in {"create", "record"} =>
               pc[f] \in {"create", "record"} /\ rec'[f].status = rec[f].status
    BY <1>24 DEF ContainerLogs, Step, Goto, Told, Stored, Fail, Conclude
  <2> QED
    BY <1>24, <1>0, <2>1 DEF ContainerLogs
<1>25. ASSUME NEW e \in Execution, Deadline(e) PROVE FinalInv' /\ KeepsVerdict
  <2>1. \A f \in Execution :
          /\ pc[f] \in Told => pc'[f] \in Told
          /\ pc[f] \in Stored => pc'[f] \in Stored
          /\ pc'[f] \in {"create", "record"} =>
               pc[f] \in {"create", "record"} /\ rec'[f].status = rec[f].status
    BY <1>25 DEF Deadline, Step, Goto, Told, Stored
  <2> QED
    BY <1>25, <1>0, <2>1 DEF Deadline
<1>26. ASSUME NEW e \in Execution, ProcessExit(e) PROVE FinalInv' /\ KeepsVerdict
  <2>1. \A f \in Execution :
          /\ pc[f] \in Told => pc'[f] \in Told
          /\ pc[f] \in Stored => pc'[f] \in Stored
          /\ pc'[f] \in {"create", "record"} =>
               pc[f] \in {"create", "record"} /\ rec'[f].status = rec[f].status
    BY <1>26 DEF ProcessExit, Step, Goto, Told, Stored
  <2> QED
    BY <1>26, <1>0, <2>1 DEF ProcessExit
<1>27. ASSUME NEW e \in Execution, StreamEnd(e) PROVE FinalInv' /\ KeepsVerdict
  <2>1. \A f \in Execution :
          /\ pc[f] \in Told => pc'[f] \in Told
          /\ pc[f] \in Stored => pc'[f] \in Stored
          /\ pc'[f] \in {"create", "record"} =>
               pc[f] \in {"create", "record"} /\ rec'[f].status = rec[f].status
    BY <1>27 DEF StreamEnd, Step, Goto, Told, Stored, CloseOutput
  <2> QED
    BY <1>27, <1>0, <2>1 DEF StreamEnd, CloseOutput
<1>28. ASSUME NEW e \in Execution, DemuxCancelled(e) PROVE FinalInv' /\ KeepsVerdict
  <2>1. \A f \in Execution :
          /\ pc[f] \in Told => pc'[f] \in Told
          /\ pc[f] \in Stored => pc'[f] \in Stored
          /\ pc'[f] \in {"create", "record"} =>
               pc[f] \in {"create", "record"} /\ rec'[f].status = rec[f].status
    BY <1>28 DEF DemuxCancelled, Step, Goto, Told, Stored, CloseOutput
  <2> QED
    BY <1>28, <1>0, <2>1 DEF DemuxCancelled, CloseOutput
<1>29. ASSUME NEW c \in Canceller, CancelLoad(c) PROVE FinalInv' /\ KeepsVerdict
  <2>1. \A f \in Execution :
          /\ pc[f] \in Told => pc'[f] \in Told
          /\ pc[f] \in Stored => pc'[f] \in Stored
          /\ pc'[f] \in {"create", "record"} =>
               pc[f] \in {"create", "record"} /\ rec'[f].status = rec[f].status
    BY <1>29 DEF CancelLoad, Step, Goto, Told, Stored
  <2> QED
    BY <1>29, <1>0, <2>1 DEF CancelLoad
<1>30. ASSUME NEW c \in Canceller, CancelStop(c) PROVE FinalInv' /\ KeepsVerdict
  <2>1. \A f \in Execution :
          /\ pc[f] \in Told => pc'[f] \in Told
          /\ pc[f] \in Stored => pc'[f] \in Stored
          /\ pc'[f] \in {"create", "record"} =>
               pc[f] \in {"create", "record"} /\ rec'[f].status = rec[f].status
    BY <1>30 DEF CancelStop, Step, Goto, Told, Stored
  <2> QED
    BY <1>30, <1>0, <2>1 DEF CancelStop
<1>31. ASSUME NEW c \in Canceller, CancelFire(c) PROVE FinalInv' /\ KeepsVerdict
  <2>1. \A f \in Execution :
          /\ pc[f] \in Told => pc'[f] \in Told
          /\ pc[f] \in Stored => pc'[f] \in Stored
          /\ pc'[f] \in {"create", "record"} =>
               pc[f] \in {"create", "record"} /\ rec'[f].status = rec[f].status
    BY <1>31 DEF CancelFire, Step, Goto, Told, Stored
  <2> QED
    BY <1>31, <1>0, <2>1 DEF CancelFire
<1>32. ASSUME NEW c \in Canceller, CancelWrite(c) PROVE FinalInv' /\ KeepsVerdict
  <2>1. db' = db \/ db' = [db EXCEPT ![TargetOf[c]] = Concluded(snap[c], "cancelled")]
    BY <1>32 DEF CancelWrite
  <2>2. Concluded(snap[c], "cancelled").status = "cancelled"
    BY ConcludedRow DEF Terminal
  <2>3. pc' = pc /\ rec' = rec /\ notices' = notices
    BY <1>32 DEF CancelWrite
  <2>4. \A e \in Execution : db'[e] = db[e] \/ db'[e].status = "cancelled"
    BY <2>1, <2>2
  <2> QED
    BY <2>3, <2>4 DEF FinalInv, KeepsVerdict, Verdict
<1>33. ASSUME NEW c \in Canceller, CancelSignal(c) PROVE FinalInv' /\ KeepsVerdict
  <2>1. \A f \in Execution :
          /\ pc[f] \in Told => pc'[f] \in Told
          /\ pc[f] \in Stored => pc'[f] \in Stored
          /\ pc'[f] \in {"create", "record"} =>
               pc[f] \in {"create", "record"} /\ rec'[f].status = rec[f].status
    BY <1>33 DEF CancelSignal, Step, Goto, Told, Stored
  <2> QED
    BY <1>33, <1>0, <2>1 DEF CancelSignal
<1>34. CASE Restart
  <2>1. db' = db /\ rec' = rec /\ notices' = notices
    BY <1>34 DEF Restart
  <2>2. \A e \in Execution :
          pc'[e] = IF pc[e] \in {"new", "rejected", "done", "lost"} THEN pc[e] ELSE "lost"
    BY <1>34 DEF Restart, Idle
  <2> QED
    BY <2>1, <2>2 DEF FinalInv, KeepsVerdict, Told, Stored
<1>35. CASE UNCHANGED vars
  BY <1>35 DEF vars, FinalInv, KeepsVerdict
<1> QED
  BY <1>1, <1>2, <1>3, <1>4, <1>5, <1>6, <1>7, <1>8, <1>9, <1>10,
     <1>11, <1>12, <1>13, <1>14, <1>15, <1>16, <1>17, <1>18, <1>19, <1>20,
     <1>21, <1>22, <1>23, <1>24, <1>25, <1>26, <1>27, <1>28, <1>29, <1>30,
     <1>31, <1>32, <1>33, <1>34, <1>35
  DEF Next, Handler, Worker, Environment, Cancel

\* updateRecord is never called after the final write: nothing but a cancel
\* request replaces a stored verdict, whatever fails and even over a restart.
THEOREM VerdictFinal == Spec => VerdictIsFinal
<1>1. Init => FinalInv
  BY DEF Init, FinalInv, NoRow, Verdict
<1>2. TypeInv /\ FinalInv /\ [Next]_vars => FinalInv' /\ KeepsVerdict
  BY FinalStep
<1>3. Spec => [](TypeInv /\ FinalInv)
  BY TypeInit, TypeStep, <1>1, <1>2, PTL DEF Spec
<1> QED
  BY <1>2, <1>3, PTL DEF Spec, VerdictIsFinal, KeepsVerdict

\* notifyCompletion is called at most once for an execution, on every path and
\* whatever fails: no user is told twice.
THEOREM NotifiedOnce == Spec => []NotifiedAtMostOnce
<1>1. Init => FinalInv
  BY DEF Init, FinalInv, NoRow, Verdict
<1>2. TypeInv /\ FinalInv /\ [Next]_vars => FinalInv'
  BY FinalStep
<1>3. FinalInv => NotifiedAtMostOnce
  BY DEF FinalInv, NotifiedAtMostOnce
<1> QED
  BY TypeInit, TypeStep, <1>1, <1>2, <1>3, PTL DEF Spec

=============================================================================
