------------------------------ MODULE Scheduler ------------------------------
(***************************************************************************)
(* The scheduler: the schedules table, the goroutine that polls it for due *)
(* schedules and triggers them (internal/scheduler/service.go), and the    *)
(* requests that create, edit, enable, disable and delete schedules.       *)
(*                                                                         *)
(* Every statement is a step of its own.  No request and no trigger holds  *)
(* a transaction: each works on the row it read before.  A time is "null", *)
(* "future" or "due"; time passes in Elapse.  The column is_enabled is not *)
(* modelled: only the INSERT writes it, always true, so that a schedule is *)
(* disabled by the absence of a next run alone.                            *)
(***************************************************************************)
EXTENDS Naturals, FiniteSets

CONSTANTS
  Schedule,   \* ids of schedules
  Unreadable, \* schedules whose command GetCommand cannot read any more
  Request,    \* requests to the schedule endpoints, each served once
  TargetOf,   \* the schedule a request names
  MaxFaults,  \* bound on statements that fail
  MaxStops    \* bound on shutdowns and crashes

ASSUME SchedulesAssumption ==
  Unreadable \subseteq Schedule /\ TargetOf \in [Request -> Schedule]
ASSUME BoundsAssumption == MaxFaults \in Nat /\ MaxStops \in Nat

VARIABLES
  rows,    \* the schedules table
  loop,    \* runLoop: its stage, the due schedules left, the one triggered
  tick,    \* whether the ticker's channel holds a tick
  server,  \* "up", "stopping" (appCancel called, stopCh closed) or "down"
  req,     \* each request: operation, stage, the timing and time it holds
  served,  \* history: executions started since the next run was written
  erased,  \* history: the schedules that were deleted
  late,    \* history: executions of these started since
  quiet,   \* history: schedules disabled while nobody else worked on them
  faults, stops

vars == <<rows, loop, tick, server, req, served, erased, late, quiet, faults, stops>>

Crons  == {"", "dates", "no date"}  \* "no date": an expression such as 30 February
Timing == [cron : Crons, interval : BOOLEAN]
Times  == {"null", "future", "due"}
NoTiming == [cron |-> "", interval |-> FALSE]

\* The cron expression goes before the interval.  For one that no date matches
\* the library returns the zero time, which is always past.
ComputeNextRun(t) ==
  CASE t.cron = "dates" -> "future"
    [] t.cron = "no date" -> "due"
    [] t.cron = "" /\ t.interval -> "future"
    [] OTHER -> "null"

\* What a time computed earlier is when it is written.
Written(time) == IF time = "future" THEN {"future", "due"} ELSE {time}

Row(state, t, next) == [state |-> state, timing |-> t, next |-> next]
Stored(s) == rows[s].state = "stored"

Entry == [id : Schedule, timing : Timing]  \* a schedule as GetDueSchedules read it
Triggering == {"execute", "update"}

\* The loop has s in its hands: in its list, or being triggered.
Holds(s) ==
  \/ \E d \in loop.list : d.id = s
  \/ \E d \in loop.at : d.id = s

Idle == [op |-> "none", stage |-> "start", timing |-> NoTiming, next |-> "null"]

\* A database from before may hold armed schedules.
Init ==
  /\ rows \in [Schedule -> {Row("fresh", NoTiming, "null"),
                            Row("stored", [cron |-> "dates", interval |-> FALSE], "future")}]
  /\ \A s \in Unreadable : rows[s].state = "stored"
  /\ loop = [stage |-> "query", list |-> {}, at |-> {}]
  /\ tick = FALSE /\ server = "up"
  /\ req = [q \in Request |-> Idle]
  /\ served = [s \in Schedule |-> 0] /\ late = [s \in Schedule |-> 0]
  /\ erased = {} /\ quiet = {} /\ faults = 0 /\ stops = 0

counters == <<faults, stops>>
history  == <<served, erased, late, quiet>>

Fault == faults < MaxFaults /\ faults' = faults + 1

-----------------------------------------------------------------------------
(* Time *)

Elapse(s) ==
  /\ Stored(s) /\ rows[s].next = "future"
  /\ rows' = [rows EXCEPT ![s].next = "due"]
  /\ UNCHANGED <<loop, tick, server, req, history, counters>>

Tick ==
  /\ server # "down" /\ loop.stage # "gone" /\ ~tick
  /\ tick' = TRUE
  /\ UNCHANGED <<rows, loop, server, req, history, counters>>

-----------------------------------------------------------------------------
(* The statements of the repository *)

\* Mutant of UpdateNextRunAt: a schedule that is gone is stored again.
UpdateNextRunAt_Upsert(s, next) ==
  /\ rows' = [rows EXCEPT ![s].state = "stored", ![s].next = next]
  /\ served' = [served EXCEPT ![s] = 0]

\* One that has no row to update returns an error.
UpdateNextRunAt(s, next) ==
  IF Stored(s)
  THEN /\ rows' = [rows EXCEPT ![s].next = next]
       /\ served' = [served EXCEPT ![s] = 0]
  ELSE UNCHANGED <<rows, served>>

GetDueSchedules ==
  {[id |-> s, timing |-> rows[s].timing] :
     s \in {x \in Schedule : Stored(x) /\ rows[x].next = "due"}}

-----------------------------------------------------------------------------
(* The polling goroutine *)

\* select in runLoop, with a tick.
Poll ==
  /\ loop.stage = "select" /\ tick
  /\ loop' = [loop EXCEPT !.stage = "query"]
  /\ tick' = FALSE
  /\ UNCHANGED <<rows, server, req, history, counters>>

\* select in runLoop, with stopCh closed or the context done.
Leave ==
  /\ loop.stage = "select" /\ server = "stopping"
  /\ loop' = [loop EXCEPT !.stage = "gone"]
  /\ UNCHANGED <<rows, tick, server, req, history, counters>>

\* Once appCtx is cancelled every statement of the loop fails.
ProcessDueSchedules ==
  /\ loop.stage = "query"
  /\ \/ /\ server = "up"
        /\ loop' = [loop EXCEPT !.stage = "trigger", !.list = GetDueSchedules]
        /\ UNCHANGED counters
     \/ /\ \/ server = "stopping" /\ UNCHANGED counters
           \/ Fault /\ UNCHANGED stops
        /\ loop' = [loop EXCEPT !.stage = "select"]
  /\ UNCHANGED <<rows, tick, server, req, history>>

\* The list has been worked off.
ListDone ==
  /\ loop.stage = "trigger" /\ loop.list = {}
  /\ loop' = [loop EXCEPT !.stage = "select"]
  /\ UNCHANGED <<rows, tick, server, req, history, counters>>

\* Mutant of Skip: the list is given up with the first command not found.
Skip_All(d) == loop' = [loop EXCEPT !.stage = "select", !.list = {}]

\* Mutant of Skip: the same, and the rest of the list is kept.
Skip_Kept(d) == loop' = [loop EXCEPT !.stage = "select"]

\* triggerSchedule returns without an update of the times.
Skip(d) == loop' = [loop EXCEPT !.list = @ \ {d}]

\* The list is in no particular order.
TriggerSchedule ==
  /\ loop.stage = "trigger"
  /\ \E d \in loop.list :
       \/ /\ server = "up" /\ d.id \notin Unreadable
          /\ loop' = [stage |-> "execute", list |-> loop.list \ {d}, at |-> {d}]
          /\ UNCHANGED counters
       \/ /\ \/ (server = "stopping" \/ d.id \in Unreadable) /\ UNCHANGED counters
             \/ Fault /\ UNCHANGED stops
          /\ Skip(d)
  /\ UNCHANGED <<rows, tick, server, req, history>>

\* ExecuteCommand starts an execution or refuses: parameters that do not
\* resolve or validate, a lock held, a statement that fails.  A refusal is to
\* be notified, with an execution id that has no row: the foreign key of the
\* notifications table refuses that, and nothing is stored.
ExecuteCommand ==
  /\ loop.stage = "execute"
  /\ loop' = [loop EXCEPT !.stage = "update"]
  /\ \/ /\ server = "up"
        /\ \E d \in loop.at :
             /\ served' = [served EXCEPT ![d.id] = @ + 1]
             /\ late' = [late EXCEPT ![d.id] = IF d.id \in erased THEN @ + 1 ELSE @]
     \/ UNCHANGED <<served, late>>
  /\ UNCHANGED <<rows, tick, server, req, erased, quiet, counters>>

\* Mutant of UpdateTiming: only last_run_at is written.
UpdateTiming_LastRunOnly ==
  /\ loop.stage = "update"
  /\ loop' = [loop EXCEPT !.stage = "trigger", !.at = {}]
  /\ UNCHANGED <<rows, tick, server, req, history, counters>>

\* The end of triggerSchedule: the next run by the timing read with the list.
UpdateTiming ==
  /\ loop.stage = "update"
  /\ loop' = [loop EXCEPT !.stage = "trigger", !.at = {}]
  /\ \/ /\ server = "up"
        /\ \E d \in loop.at : \E next \in Written(ComputeNextRun(d.timing)) :
             UpdateNextRunAt(d.id, next)
        /\ UNCHANGED counters
     \/ /\ \/ server = "stopping" /\ UNCHANGED counters
           \/ Fault /\ UNCHANGED stops
        /\ UNCHANGED <<rows, served>>
  /\ UNCHANGED <<tick, server, req, erased, late, quiet>>

-----------------------------------------------------------------------------
(* Requests *)

Ends(q) == req' = [req EXCEPT ![q] = [Idle EXCEPT !.stage = "done"]]

\* CreateSchedule, for a command that can be read and a timing that is valid.
Create(q) ==
  LET s == TargetOf[q] IN
  /\ server # "down" /\ req[q].stage = "start"
  /\ rows[s].state = "fresh"
  /\ \E t \in Timing \ {NoTiming} : \E next \in Written(ComputeNextRun(t)) :
       rows' = [rows EXCEPT ![s] = Row("stored", t, next)]
  /\ Ends(q)
  /\ UNCHANGED <<loop, tick, server, history, counters>>

Delete(q) ==
  LET s == TargetOf[q] IN
  /\ server # "down" /\ req[q].stage = "start"
  /\ Stored(s)
  /\ rows' = [rows EXCEPT ![s] = Row("deleted", NoTiming, "null")]
  /\ erased' = erased \cup {s} /\ quiet' = quiet \ {s}
  /\ Ends(q)
  /\ UNCHANGED <<loop, tick, server, served, late, counters>>

\* The GetByID with which the three edits begin: from here on the request works
\* on the row it read, and a time is computed from that row.
Read(q, op, stage, t, next) ==
  /\ server # "down" /\ req[q].stage = "start"
  /\ Stored(TargetOf[q])
  /\ req' = [req EXCEPT ![q] = [op |-> op, stage |-> stage, timing |-> t, next |-> next]]
  /\ UNCHANGED <<rows, loop, tick, server, served, erased, late, counters>>

\* The input may change the cron expression, also to none, and set an interval.
UpdateSchedule(q) ==
  LET s == TargetOf[q] IN
  /\ \E cron \in Crons : \E interval \in {rows[s].timing.interval, TRUE} :
       LET t == [cron |-> cron, interval |-> interval]
       IN Read(q, "update", "write", t, ComputeNextRun(t))
  /\ quiet' = quiet \ {s}

EnableSchedule(q) ==
  LET s == TargetOf[q]
      t == rows[s].timing
  IN /\ Read(q, "enable", "arm", t, ComputeNextRun(t))
     /\ quiet' = quiet \ {s}

DisableSchedule(q) ==
  /\ Read(q, "disable", "reload", rows[TargetOf[q]].timing, "null")
  /\ UNCHANGED quiet

\* EnableSchedule writes the next run before it calls setEnabled.
Arm(q) ==
  LET s == TargetOf[q] IN
  /\ req[q].stage = "arm"
  /\ \E next \in Written(req[q].next) : UpdateNextRunAt(s, next)
  /\ IF Stored(s) THEN req' = [req EXCEPT ![q].stage = "reload"] ELSE Ends(q)
  /\ UNCHANGED <<loop, tick, server, erased, late, quiet, counters>>

\* The GetByID of setEnabled.
Reload(q) ==
  LET s == TargetOf[q] IN
  /\ req[q].stage = "reload"
  /\ IF Stored(s)
     THEN req' = [req EXCEPT ![q].stage = "write", ![q].timing = rows[s].timing]
     ELSE Ends(q)
  /\ UNCHANGED <<rows, loop, tick, server, history, counters>>

\* repo.Update: timing and parameters, as they were read.
Write(q) ==
  LET s == TargetOf[q] IN
  /\ req[q].stage = "write"
  /\ IF Stored(s)
     THEN /\ rows' = [rows EXCEPT ![s].timing = req[q].timing]
          /\ req' = [req EXCEPT ![q].stage = "rearm"]
     ELSE Ends(q) /\ UNCHANGED rows
  /\ UNCHANGED <<loop, tick, server, history, counters>>

\* Nobody but q is in the middle of work on its schedule.
Alone(q) ==
  /\ ~Holds(TargetOf[q])
  /\ \A p \in Request \ {q} : TargetOf[p] = TargetOf[q] => req[p].stage \in {"start", "done"}

\* Mutant of Rearm: setEnabled stops after repo.Update.
Rearm_Not(q) ==
  LET s == TargetOf[q] IN
  /\ req[q].stage = "rearm"
  /\ quiet' = IF req[q].op = "disable" /\ Alone(q) THEN quiet \cup {s} ELSE quiet
  /\ Ends(q)
  /\ UNCHANGED <<rows, loop, tick, server, served, erased, late, counters>>

\* The UpdateNextRunAt with which the three edits end.
Rearm(q) ==
  LET s == TargetOf[q] IN
  /\ req[q].stage = "rearm"
  /\ \E next \in Written(req[q].next) : UpdateNextRunAt(s, next)
  /\ quiet' = IF req[q].op = "disable" /\ Stored(s) /\ Alone(q)
              THEN quiet \cup {s} ELSE quiet
  /\ Ends(q)
  /\ UNCHANGED <<loop, tick, server, erased, late, counters>>

\* A statement fails, or the client goes away: the request ends where it is.
RequestFails(q) ==
  /\ req[q].stage \notin {"start", "done"}
  /\ Fault /\ Ends(q)
  /\ UNCHANGED <<rows, loop, tick, server, history, stops>>

-----------------------------------------------------------------------------
(* The process *)

\* main: appCancel and Stop.  Requests may outlive the server's Shutdown,
\* which waits for them for 30 seconds.
Shutdown ==
  /\ server = "up" /\ stops < MaxStops
  /\ server' = "stopping" /\ stops' = stops + 1
  /\ UNCHANGED <<rows, loop, tick, req, history, faults>>

ProcessEnds ==
  /\ server' = "down" /\ tick' = FALSE
  /\ loop' = [stage |-> "gone", list |-> {}, at |-> {}]
  /\ req' = [q \in Request |->
       IF req[q].stage = "start" THEN req[q] ELSE [Idle EXCEPT !.stage = "done"]]

\* Stop has waited for the loop, and main returns.
Exit ==
  /\ server = "stopping" /\ loop.stage = "gone"
  /\ ProcessEnds
  /\ UNCHANGED <<rows, history, counters>>

Crash ==
  /\ server # "down" /\ stops < MaxStops /\ stops' = stops + 1
  /\ ProcessEnds
  /\ UNCHANGED <<rows, history, faults>>

\* Start: the loop polls at once.
Start ==
  /\ server = "down"
  /\ server' = "up" /\ loop' = [loop EXCEPT !.stage = "query"]
  /\ UNCHANGED <<rows, tick, req, history, counters>>

-----------------------------------------------------------------------------
Loop == ProcessDueSchedules \/ TriggerSchedule \/ ListDone \/ ExecuteCommand \/ UpdateTiming \/ Poll

\* The handlers of the requests that edit, enable, disable and delete.
Edit(q) ==
  \/ UpdateSchedule(q) \/ EnableSchedule(q) \/ DisableSchedule(q) \/ Delete(q)
  \/ Arm(q) \/ Reload(q) \/ Write(q) \/ Rearm(q)

Next ==
  \/ \E s \in Schedule : Elapse(s)
  \/ Tick \/ Loop \/ Leave
  \/ \E q \in Request : Create(q) \/ Edit(q) \/ RequestFails(q)
  \/ Shutdown \/ Exit \/ Crash \/ Start

Spec == Init /\ [][Next]_vars

\* The ticker ticks, and the loop's goroutine is scheduled.
FairSpec == Spec /\ WF_vars(Tick) /\ WF_vars(Loop)

=============================================================================
