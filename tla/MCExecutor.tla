----------------------------- MODULE MCExecutor -----------------------------
(* The instances of Executor that TLC checks. *)
EXTENDS ExecutorProperties, TLC

CONSTANTS k1, k2, e1, e2, c1, c2

\* Every execute request names k1, every cancel request e1.
AllOfK1 == [e \in Execution |-> k1]
AllAtE1 == [c \in Canceller |-> e1]

\* e1 executes k1 and e2 executes k2; the cancel requests name e2.
OneEach == (e1 :> k1) @@ (e2 :> k2)
AllAtE2 == [c \in Canceller |-> e2]

CreateMode == [k \in Command |-> "create"]
ExecAndLogs == (k1 :> "exec") @@ (k2 :> "logs")

=============================================================================
