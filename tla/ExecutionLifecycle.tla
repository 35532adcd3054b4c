------------------------- MODULE ExecutionLifecycle -------------------------
(***************************************************************************)
(* What the executor promises of an execution, told by its row, its        *)
(* notification and its output stream: it is queued, it runs, a verdict is *)
(* stored once and for all, the user is told that verdict once, and the    *)
(* stream is closed with it.  A cancellation takes the place of a verdict. *)
(***************************************************************************)
CONSTANTS Execution

VARIABLES status, told, closed

lifecycle == <<status, told, closed>>

Verdicts == {"completed", "failed", "timed_out"}

Init ==
  /\ status = [e \in Execution |-> "none"]
  /\ told = [e \in Execution |-> <<>>]
  /\ closed = [e \in Execution |-> "open"]

Submit(e) ==
  /\ status[e] = "none"
  /\ status' = [status EXCEPT ![e] = "queued"]
  /\ UNCHANGED <<told, closed>>

Run(e) ==
  /\ status[e] = "queued"
  /\ status' = [status EXCEPT ![e] = "running"]
  /\ UNCHANGED <<told, closed>>

Decide(e) ==
  /\ status[e] = "running"
  /\ \E v \in Verdicts : status' = [status EXCEPT ![e] = v]
  /\ UNCHANGED <<told, closed>>

Tell(e) ==
  /\ status[e] \in Verdicts /\ told[e] = <<>>
  /\ told' = [told EXCEPT ![e] = <<status[e]>>]
  /\ UNCHANGED <<status, closed>>

Close(e) ==
  /\ told[e] # <<>> /\ closed[e] = "open"
  /\ closed' = [closed EXCEPT ![e] = status[e]]
  /\ UNCHANGED <<status, told>>

Cancel(e) ==
  /\ status[e] \in {"queued", "running"}
  /\ status' = [status EXCEPT ![e] = "cancelled"]
  /\ UNCHANGED <<told, closed>>

CloseCancelled(e) ==
  /\ status[e] = "cancelled" /\ closed[e] = "open"
  /\ closed' = [closed EXCEPT ![e] = "cancelled"]
  /\ UNCHANGED <<status, told>>

Next == \E e \in Execution :
          \/ Submit(e) \/ Run(e) \/ Decide(e) \/ Tell(e) \/ Close(e)
          \/ Cancel(e) \/ CloseCancelled(e)

Spec == Init /\ [][Next]_lifecycle

=============================================================================
