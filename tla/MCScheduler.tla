----------------------------- MODULE MCScheduler -----------------------------
(* The instances of Scheduler that TLC checks. *)
EXTENDS SchedulerProperties, TLC

CONSTANTS a1, a2, q1, q2

\* Both requests name a1.
AllAtA1 == [q \in Request |-> a1]

=============================================================================
