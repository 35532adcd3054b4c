------------------------------ MODULE StreamLog ------------------------------
(***************************************************************************)
(* What a live output view promises: the events of an execution form a log *)
(* that grows until it is sealed, and each viewer is shown events of it,   *)
(* each at most once and in order, until it is shown the last one of a     *)
(* sealed log.                                                             *)
(***************************************************************************)
EXTENDS Naturals, Sequences

CONSTANTS Viewer

VARIABLES length, sealed, shown, over

log == <<length, sealed, shown, over>>

Init ==
  /\ length = 0 /\ sealed = FALSE
  /\ shown = [v \in Viewer |-> <<>>]
  /\ over = [v \in Viewer |-> FALSE]

Grow ==
  /\ ~sealed
  /\ length' = length + 1
  /\ sealed' \in BOOLEAN
  /\ UNCHANGED <<shown, over>>

Show(v) ==
  /\ ~over[v]
  /\ \E n \in 1..length :
       /\ \A j \in 1..Len(shown[v]) : shown[v][j] < n
       /\ shown' = [shown EXCEPT ![v] = Append(@, n)]
       /\ over' = [over EXCEPT ![v] = (sealed /\ n = length)]
  /\ UNCHANGED <<length, sealed>>

Next == Grow \/ \E v \in Viewer : Show(v)

Spec == Init /\ [][Next]_log

=============================================================================
