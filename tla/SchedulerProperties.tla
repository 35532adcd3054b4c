------------------------- MODULE SchedulerProperties -------------------------
(* What the scheduler keeps, and what the documents say of it. *)
EXTENDS Scheduler

RowType == [state : {"fresh", "stored", "deleted"}, timing : Timing, next : Times]

RequestType ==
  [op : {"none", "update", "enable", "disable"},
   stage : {"start", "arm", "reload", "write", "rearm", "done"},
   timing : Timing, next : Times]

\* A row that is not stored holds nothing; the loop has a schedule at hand in
\* the stages of a trigger only, and a list from its query to its end.
TypeOK ==
  /\ rows \in [Schedule -> RowType]
  /\ \A s \in Schedule : ~Stored(s) => rows[s].next = "null" /\ rows[s].timing = NoTiming
  /\ loop.stage \in {"select", "query", "trigger", "execute", "update", "gone"}
  /\ loop.list \subseteq Entry /\ loop.at \subseteq Entry
  /\ loop.at # {} <=> loop.stage \in Triggering
  /\ loop.stage \in {"select", "query", "gone"} => loop.list = {}
  /\ tick \in BOOLEAN /\ server \in {"up", "stopping", "down"}
  /\ req \in [Request -> RequestType]
  /\ served \in [Schedule -> Nat] /\ late \in [Schedule -> Nat]
  /\ erased \subseteq Schedule /\ quiet \subseteq Schedule
  /\ faults \in 0..MaxFaults /\ stops \in 0..MaxStops

-----------------------------------------------------------------------------
(* Safety *)

\* A due time starts one execution, whatever requests edit the schedule while
\* the loop triggers it from the list it read: a second one takes a statement
\* that failed or a process that ended between ExecuteCommand and
\* UpdateNextRunAt.
OncePerDueTime == \A s \in Schedule : served[s] <= 1 + faults + stops

\* A schedule that was deleted is executed at most once more, by a loop that had
\* it in its list: no edit and no trigger under way stores it again.
DeletedRunsOnce == \A s \in Schedule : late[s] <= 1

\* requirements.md:188, as far as the code goes: a schedule disabled while
\* neither the loop nor another request was at work on it has no next run and
\* is in no list, over every tick and restart, until somebody edits it.
DisabledIsQuiet ==
  \A s \in quiet : Stored(s) /\ rows[s].next = "null" /\ ~Holds(s)

-----------------------------------------------------------------------------
(* Liveness *)

Triggered(s) == \E d \in loop.at : d.id = s

\* A due schedule whose command can be read is triggered, unless an edit takes
\* its time away or the server stops: schedules before it in the list that
\* cannot be executed do not starve it, and no failed statement ends the loop.
DueIsTriggered ==
  \A s \in Schedule \ Unreadable :
    (Stored(s) /\ rows[s].next = "due")
      ~> (~Stored(s) \/ rows[s].next # "due" \/ Triggered(s) \/ server # "up")

-----------------------------------------------------------------------------
(* What the documents say of the program *)

\* requirements.md:188: the executor respects the disabled status of a schedule
\* on its next evaluation: a trigger does not give it a next run.
DisabledStaysDisabled ==
  [][\A s \in Schedule :
       rows[s].next = "null" /\ rows'[s].next # "null" /\ Stored(s)
         => loop.stage # "update"]_vars

=============================================================================
