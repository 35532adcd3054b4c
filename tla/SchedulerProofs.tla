--------------------------- MODULE SchedulerProofs ---------------------------
(* What a due time starts and what edits leave, for any schedules, requests,
   failing statements, shutdowns and crashes. *)
EXTENDS SchedulerProperties, TLAPS

\* The ids of the loop's list are different, and different from that of the
\* schedule it triggers.  What it has at hand was stored once.
LoopInv ==
  /\ server = "down" => loop.stage = "gone"
  /\ loop \in [stage : {"select", "query", "trigger", "execute", "update", "gone"},
               list : SUBSET Entry, at : SUBSET Entry]
  /\ \A d, e \in loop.list : d.id = e.id => d = e
  /\ \A d, e \in loop.at : d = e
  /\ \A d \in loop.list, e \in loop.at : d.id # e.id
  /\ \A s \in Schedule : Holds(s) => rows[s].state # "fresh"

TypeInv == TypeOK /\ LoopInv

-----------------------------------------------------------------------------
(* Types *)

LEMMA Targets == \A q \in Request : TargetOf[q] \in Schedule
BY SchedulesAssumption

\* A time that is computed and written is one.
LEMMA TimesAreTimes ==
  /\ \A t : ComputeNextRun(t) \in Times
  /\ \A time \in Times : Written(time) \subseteq Times
  /\ Written("null") = {"null"}
BY DEF ComputeNextRun, Times, Written

LEMMA IdleType == Idle \in RequestType /\ [Idle EXCEPT !.stage = "done"] \in RequestType
BY DEF Idle, RequestType, NoTiming, Timing, Crons, Times

\* UpdateNextRunAt writes the next run of one stored schedule.
LEMMA NextRunType ==
  ASSUME TypeInv, NEW s \in Schedule, NEW next \in Times, UpdateNextRunAt(s, next)
  PROVE  /\ rows' \in [Schedule -> RowType] /\ served' \in [Schedule -> Nat]
         /\ \A x \in Schedule : rows'[x].state = rows[x].state /\ rows'[x].timing = rows[x].timing
         /\ \A x \in Schedule : x # s \/ ~Stored(s) => rows'[x] = rows[x] /\ served'[x] = served[x]
         /\ Stored(s) => rows'[s].next = next /\ served'[s] = 0
<1>1. rows \in [Schedule -> RowType] /\ served \in [Schedule -> Nat]
  BY DEF TypeInv, TypeOK
<1>2. \A r \in RowType : /\ [r EXCEPT !.next = next] \in RowType
                         /\ [r EXCEPT !.next = next].state = r.state
                         /\ [r EXCEPT !.next = next].timing = r.timing
                         /\ [r EXCEPT !.next = next].next = next
  BY DEF RowType
<1>3. CASE Stored(s)
  <2>1. rows' = [rows EXCEPT ![s].next = next] /\ served' = [served EXCEPT ![s] = 0]
    BY <1>3 DEF UpdateNextRunAt
  <2>2. rows' = [rows EXCEPT ![s] = [rows[s] EXCEPT !.next = next]]
    BY <2>1
  <2> QED BY <1>1, <1>2, <1>3, <2>1, <2>2
<1>4. CASE ~Stored(s)
  BY <1>1, <1>4 DEF UpdateNextRunAt
<1> QED BY <1>3, <1>4

\* The rows, as far as TypeOK and LoopInv are about them.
RowsInv ==
  /\ rows \in [Schedule -> RowType]
  /\ \A s \in Schedule : ~Stored(s) => rows[s].next = "null" /\ rows[s].timing = NoTiming

\* What the loop's steps need for the invariant.
LEMMA TypeParts ==
  ASSUME TypeInv, RowsInv', LoopInv',
         /\ loop.at' # {} <=> loop.stage' \in Triggering
         /\ loop.stage' \in {"select", "query", "gone"} => loop.list' = {},
         tick' \in BOOLEAN, server' \in {"up", "stopping", "down"},
         req' \in [Request -> RequestType],
         served' \in [Schedule -> Nat], late' \in [Schedule -> Nat],
         erased' \subseteq Schedule, quiet' \subseteq Schedule,
         faults' \in 0..MaxFaults, stops' \in 0..MaxStops
  PROVE  TypeInv'
BY DEF TypeInv, TypeOK, LoopInv, RowsInv

LEMMA TypeInit == Init => TypeInv
<1> SUFFICES ASSUME Init PROVE TypeInv
  OBVIOUS
<1>1. rows \in [Schedule -> RowType]
  <2>1. NoTiming \in Timing /\ [cron |-> "dates", interval |-> FALSE] \in Timing
    BY DEF NoTiming, Timing, Crons
  <2>2. /\ Row("fresh", NoTiming, "null") \in RowType
        /\ Row("stored", [cron |-> "dates", interval |-> FALSE], "future") \in RowType
    BY <2>1 DEF RowType, Row, Times
  <2> QED BY <2>2 DEF Init
<1>2. \A s \in Schedule : ~Stored(s) => rows[s].next = "null" /\ rows[s].timing = NoTiming
  BY DEF Init, Stored, Row
<1>3. LoopInv
  BY DEF Init, LoopInv, Holds
<1>4. req \in [Request -> RequestType] /\ faults \in 0..MaxFaults /\ stops \in 0..MaxStops
  BY IdleType, BoundsAssumption DEF Init
<1> QED BY <1>1, <1>2, <1>3, <1>4 DEF Init, TypeInv, TypeOK, Triggering

\* A schedule that was stored once never becomes fresh, so that a loop that
\* keeps what it has may keep it.
LEMMA LoopStays ==
  ASSUME TypeInv, loop' = loop, server' = server,
         \A s \in Schedule : rows[s].state # "fresh" => rows'[s].state # "fresh"
  PROVE  LoopInv'
BY DEF TypeInv, LoopInv, Holds

\* The statements of the requests, and time: the loop is not concerned.
RequestStep ==
  \/ \E s \in Schedule : Elapse(s)
  \/ \E q \in Request : Create(q) \/ Edit(q) \/ RequestFails(q)

LEMMA CountersType ==
  TypeInv => /\ (Fault => faults' \in 0..MaxFaults)
             /\ (UNCHANGED faults => faults' \in 0..MaxFaults)
             /\ (UNCHANGED stops => stops' \in 0..MaxStops)
BY BoundsAssumption DEF TypeInv, TypeOK, Fault

\* A request that goes on has what a request may have.
LEMMA EndsType ==
  ASSUME TypeInv, NEW q \in Request, Ends(q)  PROVE req' \in [Request -> RequestType]
BY IdleType DEF Ends, TypeInv, TypeOK

LEMMA GoesOn ==
  ASSUME TypeInv, NEW q \in Request,
         NEW stage \in {"arm", "reload", "write", "rearm"}, NEW t \in Timing,
         \/ req' = [req EXCEPT ![q].stage = stage]
         \/ req' = [req EXCEPT ![q].stage = stage, ![q].timing = t]
  PROVE  req' \in [Request -> RequestType]
<1>1. req \in [Request -> RequestType]
  BY DEF TypeInv, TypeOK
<1>2. /\ [req[q] EXCEPT !.stage = stage] \in RequestType
      /\ [req[q] EXCEPT !.stage = stage, !.timing = t] \in RequestType
  BY <1>1 DEF RequestType
<1>3. CASE req' = [req EXCEPT ![q].stage = stage]
  <2>1. req' = [req EXCEPT ![q] = [req[q] EXCEPT !.stage = stage]]
    BY <1>3
  <2> QED BY <1>1, <1>2, <2>1
<1>4. CASE req' = [req EXCEPT ![q].stage = stage, ![q].timing = t]
  <2>1. req' = [req EXCEPT ![q] = [req[q] EXCEPT !.stage = stage, !.timing = t]]
    BY <1>1, <1>4
  <2> QED BY <1>1, <1>2, <2>1
<1> QED BY <1>3, <1>4

\* A row that is stored, or was never, can be replaced by one of its type.
LEMMA RowReplaced ==
  ASSUME TypeInv, NEW s \in Schedule, NEW r \in RowType,
         r.state # "stored" => r.next = "null" /\ r.timing = NoTiming,
         rows[s].state # "fresh" => r.state # "fresh",
         rows' = [rows EXCEPT ![s] = r]
  PROVE  RowsInv' /\ \A x \in Schedule : rows[x].state # "fresh" => rows'[x].state # "fresh"
BY DEF TypeInv, TypeOK, RowsInv, Stored

LEMMA RowsRearmed ==
  ASSUME TypeInv, NEW s \in Schedule, NEW next \in Times, UpdateNextRunAt(s, next)
  PROVE  /\ RowsInv' /\ served' \in [Schedule -> Nat]
         /\ \A x \in Schedule : rows[x].state # "fresh" => rows'[x].state # "fresh"
<1>1. \A x \in Schedule : ~Stored(x) => rows'[x] = rows[x]
  BY NextRunType
<1>2. \A x \in Schedule : Stored(x)' <=> Stored(x)
  BY NextRunType DEF Stored
<1>3. \A x \in Schedule : ~Stored(x) => rows[x].next = "null" /\ rows[x].timing = NoTiming
  BY DEF TypeInv, TypeOK
<1> QED BY NextRunType, <1>1, <1>2, <1>3 DEF RowsInv

LEMMA RowsStay == TypeInv /\ UNCHANGED rows => RowsInv'
BY DEF TypeInv, TypeOK, RowsInv, Stored

LEMMA RequestKeepsTypes ==
  ASSUME TypeInv, RequestStep
  PROVE  /\ RowsInv' /\ served' \in [Schedule -> Nat] /\ req' \in [Request -> RequestType]
         /\ \A x \in Schedule : rows[x].state # "fresh" => rows'[x].state # "fresh"
         /\ UNCHANGED <<loop, tick, server, late, stops>>
         /\ erased' \subseteq Schedule /\ quiet' \subseteq Schedule /\ faults' \in 0..MaxFaults
<1>0. /\ rows \in [Schedule -> RowType] /\ req \in [Request -> RequestType]
      /\ served \in [Schedule -> Nat] /\ erased \subseteq Schedule /\ quiet \subseteq Schedule
      /\ faults \in 0..MaxFaults
  BY DEF TypeInv, TypeOK
<1>1. ASSUME NEW s \in Schedule, Elapse(s) PROVE RowsInv' /\ rows'[s].state = rows[s].state
      /\ \A x \in Schedule : rows[x].state # "fresh" => rows'[x].state # "fresh"
  <2>1. rows' = [rows EXCEPT ![s] = [rows[s] EXCEPT !.next = "due"]]
    BY <1>1 DEF Elapse
  <2>2. [rows[s] EXCEPT !.next = "due"] \in RowType /\ [rows[s] EXCEPT !.next = "due"].state = "stored"
    BY <1>0, <1>1 DEF Elapse, Stored, RowType, Times
  <2> QED BY <1>0, <1>1, <2>1, <2>2, RowReplaced DEF Elapse, Stored
<1>2. ASSUME NEW q \in Request PROVE TargetOf[q] \in Schedule
  BY Targets
<1>3. ASSUME NEW q \in Request, Create(q)
      PROVE  RowsInv' /\ \A x \in Schedule : rows[x].state # "fresh" => rows'[x].state # "fresh"
  <2>1. PICK t \in Timing \ {NoTiming} : \E next \in Written(ComputeNextRun(t)) :
          rows' = [rows EXCEPT ![TargetOf[q]] = Row("stored", t, next)]
    BY <1>3 DEF Create
  <2>2. PICK next \in Written(ComputeNextRun(t)) :
          rows' = [rows EXCEPT ![TargetOf[q]] = Row("stored", t, next)]
    BY <2>1
  <2>3. next \in Times
    BY TimesAreTimes
  <2>4. Row("stored", t, next) \in RowType /\ Row("stored", t, next).state = "stored"
    BY <2>3 DEF Row, RowType
  <2> QED BY <1>2, <2>2, <2>4, RowReplaced
<1>4. ASSUME NEW q \in Request, Delete(q)
      PROVE  RowsInv' /\ \A x \in Schedule : rows[x].state # "fresh" => rows'[x].state # "fresh"
  <2>1. /\ Row("deleted", NoTiming, "null") \in RowType
        /\ Row("deleted", NoTiming, "null").state = "deleted"
        /\ Row("deleted", NoTiming, "null").next = "null"
        /\ Row("deleted", NoTiming, "null").timing = NoTiming
    BY DEF Row, RowType, NoTiming, Timing, Crons, Times
  <2> QED BY <1>2, <1>4, <2>1, RowReplaced DEF Delete
<1>5. ASSUME NEW q \in Request, Write(q)
      PROVE  /\ RowsInv' /\ req' \in [Request -> RequestType]
             /\ \A x \in Schedule : rows[x].state # "fresh" => rows'[x].state # "fresh"
  <2>1. CASE Stored(TargetOf[q])
    <3>1. req[q].timing \in Timing
      BY <1>0 DEF RequestType
    <3>2. rows' = [rows EXCEPT ![TargetOf[q]] = [rows[TargetOf[q]] EXCEPT !.timing = req[q].timing]]
      BY <1>5, <2>1 DEF Write
    <3>3. [rows[TargetOf[q]] EXCEPT !.timing = req[q].timing] \in RowType
          /\ [rows[TargetOf[q]] EXCEPT !.timing = req[q].timing].state = "stored"
      BY <1>0, <1>2, <2>1, <3>1 DEF RowType, Stored
    <3>4. req' = [req EXCEPT ![q].stage = "rearm"]
      BY <1>5, <2>1 DEF Write
    <3> QED BY <1>2, <3>1, <3>2, <3>3, <3>4, RowReplaced, GoesOn
  <2>2. CASE ~Stored(TargetOf[q])
    BY <1>5, <2>2, EndsType, RowsStay DEF Write
  <2> QED BY <2>1, <2>2
<1>6. ASSUME NEW q \in Request, Arm(q) \/ Rearm(q)
      PROVE  /\ RowsInv' /\ served' \in [Schedule -> Nat] /\ req' \in [Request -> RequestType]
             /\ \A x \in Schedule : rows[x].state # "fresh" => rows'[x].state # "fresh"
  <2>1. PICK next \in Written(req[q].next) : UpdateNextRunAt(TargetOf[q], next)
    BY <1>6 DEF Arm, Rearm
  <2>2. req[q].next \in Times /\ req[q].timing \in Timing
    BY <1>0 DEF RequestType
  <2>3. next \in Times
    BY <2>2, TimesAreTimes
  <2>4. req' = [req EXCEPT ![q].stage = "reload"] \/ Ends(q)
    BY <1>6 DEF Arm, Rearm
  <2>5. req' \in [Request -> RequestType]
    BY <2>2, <2>4, GoesOn, EndsType
  <2> QED BY <1>2, <2>1, <2>3, <2>5, RowsRearmed
<1>7. ASSUME NEW q \in Request, Reload(q) PROVE req' \in [Request -> RequestType]
  <2>1. rows[TargetOf[q]].timing \in Timing
    BY <1>0, <1>2 DEF RowType
  <2> QED BY <1>7, <2>1, GoesOn, EndsType DEF Reload
<1>8. ASSUME NEW q \in Request, UpdateSchedule(q) \/ EnableSchedule(q) \/ DisableSchedule(q)
      PROVE  /\ req' \in [Request -> RequestType] /\ UNCHANGED <<rows, served, erased, faults>>
             /\ UNCHANGED <<loop, tick, server, late, stops>> /\ quiet' \subseteq quiet
  <2>1. rows[TargetOf[q]].timing \in Timing
    BY <1>0, <1>2 DEF RowType
  <2>2. ASSUME NEW op \in {"update", "enable", "disable"},
               NEW stage \in {"arm", "reload", "write"}, NEW u \in Timing, NEW next \in Times,
               Read(q, op, stage, u, next)
        PROVE  /\ req' \in [Request -> RequestType]
               /\ UNCHANGED <<rows, loop, tick, server, served, erased, late, counters>>
    <3>1. [op |-> op, stage |-> stage, timing |-> u, next |-> next] \in RequestType
      BY DEF RequestType
    <3> QED BY <1>0, <2>2, <3>1 DEF Read
  <2>3. CASE UpdateSchedule(q)
    <3>1. PICK cron \in Crons, interval \in {rows[TargetOf[q]].timing.interval, TRUE} :
            LET u == [cron |-> cron, interval |-> interval]
            IN Read(q, "update", "write", u, ComputeNextRun(u))
      BY <2>3 DEF UpdateSchedule
    <3>2. [cron |-> cron, interval |-> interval] \in Timing
      BY <2>1 DEF Timing
    <3> QED BY <2>2, <2>3, <3>1, <3>2, TimesAreTimes DEF UpdateSchedule, counters
  <2>4. CASE EnableSchedule(q)
    BY <2>1, <2>2, <2>4, TimesAreTimes DEF EnableSchedule, counters
  <2>5. CASE DisableSchedule(q)
    <3>1. "null" \in Times
      BY DEF Times
    <3> QED BY <2>1, <2>2, <2>5, <3>1 DEF DisableSchedule, counters
  <2> QED BY <1>8, <2>3, <2>4, <2>5
<1>9. CASE \E s \in Schedule : Elapse(s)
  BY <1>0, <1>1, <1>9 DEF Elapse, history, counters
<1>10. ASSUME NEW q \in Request, Create(q)
       PROVE  /\ req' \in [Request -> RequestType] /\ UNCHANGED <<loop, tick, server, history, counters>>
  BY <1>10, EndsType DEF Create
<1>11. ASSUME NEW q \in Request, Delete(q)
       PROVE  /\ req' \in [Request -> RequestType]
              /\ UNCHANGED <<loop, tick, server, served, late, counters>>
              /\ erased' \subseteq Schedule /\ quiet' \subseteq Schedule
  BY <1>0, <1>2, <1>11, EndsType DEF Delete
<1>12. ASSUME NEW q \in Request, Arm(q) \/ Reload(q) \/ Write(q) \/ Rearm(q)
       PROVE  /\ UNCHANGED <<loop, tick, server, erased, late, counters>>
              /\ quiet' \subseteq Schedule
  BY <1>0, <1>2, <1>12 DEF Arm, Reload, Write, Rearm, history
<1>13. ASSUME NEW q \in Request, Reload(q) \/ Write(q) PROVE UNCHANGED served
  BY <1>13 DEF Reload, Write, history
<1>14. ASSUME NEW q \in Request, Reload(q) PROVE UNCHANGED rows
  BY <1>14 DEF Reload
<1>15. ASSUME NEW q \in Request, RequestFails(q)
       PROVE  /\ req' \in [Request -> RequestType] /\ faults' \in 0..MaxFaults
              /\ UNCHANGED <<rows, loop, tick, server, history, stops>>
  BY <1>15, EndsType, CountersType DEF RequestFails
<1>16. UNCHANGED rows => RowsInv'
  BY RowsStay
<1> DEFINE Good ==
  /\ RowsInv' /\ served' \in [Schedule -> Nat] /\ req' \in [Request -> RequestType]
  /\ \A x \in Schedule : rows[x].state # "fresh" => rows'[x].state # "fresh"
  /\ UNCHANGED <<loop, tick, server, late, stops>>
  /\ erased' \subseteq Schedule /\ quiet' \subseteq Schedule /\ faults' \in 0..MaxFaults
<1>17. ASSUME NEW q \in Request, Create(q) PROVE Good
  BY <1>0, <1>3, <1>10, <1>17 DEF history, counters
<1>18. ASSUME NEW q \in Request, Delete(q) PROVE Good
  BY <1>0, <1>4, <1>11, <1>18 DEF counters
<1>19. ASSUME NEW q \in Request, Arm(q) \/ Rearm(q) PROVE Good
  BY <1>0, <1>6, <1>12, <1>19 DEF counters
<1>20. ASSUME NEW q \in Request, Write(q) PROVE Good
  BY <1>0, <1>5, <1>12, <1>13, <1>20 DEF counters
<1>21. ASSUME NEW q \in Request, Reload(q) PROVE Good
  BY <1>0, <1>7, <1>12, <1>13, <1>14, <1>16, <1>21 DEF counters
<1>22. ASSUME NEW q \in Request, UpdateSchedule(q) \/ EnableSchedule(q) \/ DisableSchedule(q)
       PROVE Good
  BY <1>0, <1>8, <1>16, <1>22
<1>23. ASSUME NEW q \in Request, RequestFails(q) PROVE Good
  BY <1>0, <1>15, <1>16, <1>23 DEF history
<1> QED BY <1>9, <1>17, <1>18, <1>19, <1>20, <1>21, <1>22, <1>23 DEF RequestStep, Edit

-----------------------------------------------------------------------------
(* The loop and the process *)

\* A list of what is stored, with one entry for each schedule.
LEMMA DueEntries ==
  ASSUME TypeInv
  PROVE  /\ GetDueSchedules \subseteq Entry
         /\ \A d, e \in GetDueSchedules : d.id = e.id => d = e
         /\ \A d \in GetDueSchedules : Stored(d.id) /\ rows[d.id].next = "due"
<1>1. \A s \in Schedule : rows[s].timing \in Timing
  BY DEF TypeInv, TypeOK, RowType
<1>2. \A d \in GetDueSchedules : \E s \in Schedule :
        /\ d = [id |-> s, timing |-> rows[s].timing] /\ Stored(s) /\ rows[s].next = "due"
  BY DEF GetDueSchedules
<1>3. \A d \in GetDueSchedules :
        /\ d.id \in Schedule /\ d = [id |-> d.id, timing |-> rows[d.id].timing]
        /\ Stored(d.id) /\ rows[d.id].next = "due"
  BY <1>2
<1>4. GetDueSchedules \subseteq Entry
  BY <1>1, <1>2 DEF Entry
<1>5. \A d, e \in GetDueSchedules : d.id = e.id => d = e
  BY <1>3
<1> QED BY <1>3, <1>4, <1>5

LoopStep == Loop \/ Leave

\* What the loop does to itself: nothing, or a list of due schedules, or it
\* takes one of them, or it is done with that.
LEMMA LoopMoves ==
  ASSUME TypeInv, LoopStep
  PROVE  /\ loop'.stage \in {"select", "query", "trigger", "execute", "update", "gone"}
         /\ loop' \in [stage : {"select", "query", "trigger", "execute", "update", "gone"},
                       list : SUBSET Entry, at : SUBSET Entry]
         /\ \/ loop'.list = GetDueSchedules /\ loop.list = {} /\ loop'.at = loop.at /\ loop.at = {}
               /\ loop'.stage = "trigger" /\ UNCHANGED rows
            \/ \E d \in loop.list : /\ loop'.list = loop.list \ {d} /\ loop.stage = "trigger"
                                    /\ loop'.stage = "trigger" /\ loop'.at = {} /\ loop.at = {}
                                    /\ UNCHANGED rows
            \/ \E d \in loop.list : /\ loop'.list = loop.list \ {d} /\ loop.stage = "trigger"
                                    /\ loop'.stage = "execute" /\ loop'.at = {d} /\ loop.at = {}
                                    /\ UNCHANGED rows
            \/ /\ loop'.list = loop.list /\ loop'.at = loop.at
               /\ loop.stage = "execute" /\ loop'.stage = "update" /\ UNCHANGED rows
            \/ /\ loop'.list = loop.list /\ loop'.at = {}
               /\ loop.stage = "update" /\ loop'.stage = "trigger"
            \/ /\ loop'.list = loop.list /\ loop'.at = loop.at /\ loop.at = {} /\ loop.list = {}
               /\ loop'.stage \in {"select", "query", "gone"} /\ UNCHANGED rows
<1>0. /\ loop \in [stage : {"select", "query", "trigger", "execute", "update", "gone"},
                   list : SUBSET Entry, at : SUBSET Entry]
      /\ loop.at # {} <=> loop.stage \in Triggering
      /\ loop.stage \in {"select", "query", "gone"} => loop.list = {}
  BY DEF TypeInv, TypeOK, LoopInv
<1>1. CASE Poll
  BY <1>0, <1>1 DEF Poll, Triggering
<1>2. CASE Leave
  BY <1>0, <1>2 DEF Leave, Triggering
<1>3. CASE ProcessDueSchedules
  BY <1>0, <1>3, DueEntries DEF ProcessDueSchedules, Triggering
<1>4. CASE ListDone
  BY <1>0, <1>4 DEF ListDone, Triggering
<1>5. CASE TriggerSchedule
  BY <1>0, <1>5 DEF TriggerSchedule, Skip, Triggering
<1>6. CASE ExecuteCommand
  BY <1>0, <1>6 DEF ExecuteCommand, Triggering
<1>7. CASE UpdateTiming
  BY <1>0, <1>7 DEF UpdateTiming, Triggering
<1> QED BY <1>1, <1>2, <1>3, <1>4, <1>5, <1>6, <1>7 DEF LoopStep, Loop

\* What it does to the rest.
LEMMA LoopWrites ==
  ASSUME TypeInv, LoopStep
  PROVE  /\ RowsInv' /\ served' \in [Schedule -> Nat] /\ late' \in [Schedule -> Nat]
         /\ \A x \in Schedule : rows[x].state # "fresh" => rows'[x].state # "fresh"
         /\ UNCHANGED <<server, req, erased, quiet, stops>>
         /\ tick' \in BOOLEAN /\ faults' \in 0..MaxFaults
<1>0. /\ served \in [Schedule -> Nat] /\ late \in [Schedule -> Nat] /\ tick \in BOOLEAN
      /\ faults \in 0..MaxFaults /\ \A d \in loop.at : d.id \in Schedule
  BY DEF TypeInv, TypeOK, Entry
<1>1. CASE Poll \/ Leave \/ ListDone
  BY <1>0, <1>1, RowsStay DEF Poll, Leave, ListDone, history, counters
<1>2. CASE ProcessDueSchedules
  BY <1>0, <1>2, RowsStay, CountersType DEF ProcessDueSchedules, history, counters
<1>3. CASE TriggerSchedule
  BY <1>0, <1>3, RowsStay, CountersType DEF TriggerSchedule, history, counters
<1>4. CASE ExecuteCommand
  <2>1. served' \in [Schedule -> Nat] /\ late' \in [Schedule -> Nat]
    BY <1>0, <1>4 DEF ExecuteCommand
  <2> QED BY <1>0, <1>4, <2>1, RowsStay DEF ExecuteCommand, counters
<1>5. CASE UpdateTiming
  <2>1. /\ RowsInv' /\ served' \in [Schedule -> Nat]
        /\ \A x \in Schedule : rows[x].state # "fresh" => rows'[x].state # "fresh"
    <3>1. CASE UNCHANGED <<rows, served>>
      BY <1>0, <3>1, RowsStay
    <3>2. ASSUME NEW d \in loop.at, NEW next \in Written(ComputeNextRun(d.timing)),
                 UpdateNextRunAt(d.id, next)
          PROVE  /\ RowsInv' /\ served' \in [Schedule -> Nat]
                 /\ \A x \in Schedule : rows[x].state # "fresh" => rows'[x].state # "fresh"
      <4>1. next \in Times /\ d.id \in Schedule
        BY <1>0, TimesAreTimes
      <4> QED BY <3>2, <4>1, RowsRearmed
    <3> QED BY <1>5, <3>1, <3>2 DEF UpdateTiming
  <2> QED BY <1>0, <1>5, <2>1, CountersType DEF UpdateTiming, counters
<1> QED BY <1>1, <1>2, <1>3, <1>4, <1>5 DEF LoopStep, Loop

LEMMA TypeStep == TypeInv /\ [Next]_vars => TypeInv'
<1> SUFFICES ASSUME TypeInv, [Next]_vars PROVE TypeInv'
  OBVIOUS
<1>0. TypeOK /\ LoopInv
  BY DEF TypeInv
<1>1. CASE RequestStep
  <2>1. LoopInv'
    BY <1>1, RequestKeepsTypes, LoopStays
  <2> QED BY <1>0, <1>1, <2>1, RequestKeepsTypes, TypeParts DEF TypeOK
<1>2. CASE LoopStep
  <2>1. server' = server /\ (server = "down" => loop.stage = "gone")
    BY <1>0, <1>2, LoopWrites DEF LoopInv
  <2>2. loop.stage # "gone"
    BY <1>2 DEF LoopStep, Loop, Poll, Leave, ProcessDueSchedules, ListDone, TriggerSchedule,
                ExecuteCommand, UpdateTiming
  <2>3. LoopInv'
    <3>1. \A s \in Schedule : Holds(s)' => Holds(s) \/ Stored(s)
      BY <1>2, LoopMoves, DueEntries DEF Holds
    <3>2. \A s \in Schedule : Holds(s)' => rows'[s].state # "fresh"
      BY <1>0, <1>2, <3>1, LoopWrites DEF LoopInv, Stored
    <3>3. /\ \A d, e \in loop.list' : d.id = e.id => d = e
          /\ \A d, e \in loop.at' : d = e
          /\ \A d \in loop.list', e \in loop.at' : d.id # e.id
      BY <1>0, <1>2, LoopMoves, DueEntries DEF LoopInv
    <3> QED BY <1>2, <2>1, <2>2, <3>2, <3>3, LoopMoves DEF LoopInv
  <2>4. /\ loop.at' # {} <=> loop.stage' \in Triggering
        /\ loop.stage' \in {"select", "query", "gone"} => loop.list' = {}
    BY <1>0, <1>2, LoopMoves DEF TypeOK, Triggering
  <2> QED BY <1>0, <1>2, <2>3, <2>4, LoopWrites, TypeParts DEF TypeOK
<1>3. CASE Tick \/ Shutdown \/ UNCHANGED vars
  <2>1. /\ UNCHANGED <<rows, loop, req, served, late, erased, quiet, faults>>
        /\ tick' \in BOOLEAN /\ server' \in {"up", "stopping", "down"} /\ stops' \in 0..MaxStops
        /\ server' = "down" => server = "down"
    <3>1. CASE Tick
      BY <1>0, <3>1 DEF Tick, history, counters, TypeOK
    <3>2. CASE Shutdown
      <4>1. stops' \in 0..MaxStops
        BY <1>0, <3>2, BoundsAssumption DEF Shutdown, TypeOK
      <4> QED BY <1>0, <3>2, <4>1 DEF Shutdown, history, TypeOK
    <3>3. CASE UNCHANGED vars
      BY <1>0, <3>3 DEF vars, TypeOK
    <3> QED BY <1>3, <3>1, <3>2, <3>3
  <2>2. LoopInv'
    BY <1>0, <2>1 DEF LoopInv, Holds
  <2> QED BY <1>0, <2>1, <2>2, RowsStay, TypeParts DEF TypeOK
<1>4. CASE Exit \/ Crash
  <2>1. /\ ProcessEnds /\ UNCHANGED <<rows, served, late, erased, quiet, faults>>
        /\ stops' \in 0..MaxStops
    BY <1>0, <1>4, BoundsAssumption DEF Exit, Crash, history, counters, TypeOK
  <2>2. loop' = [stage |-> "gone", list |-> {}, at |-> {}] /\ tick' = FALSE /\ server' = "down"
    BY <2>1 DEF ProcessEnds
  <2>3. req' \in [Request -> RequestType]
    BY <1>0, <2>1, IdleType DEF ProcessEnds, TypeOK
  <2>4. LoopInv'
    BY <2>2 DEF LoopInv, Holds
  <2> QED BY <1>0, <2>1, <2>2, <2>3, <2>4, RowsStay, TypeParts DEF TypeOK, Triggering
<1>5. CASE Start
  <2>1. /\ UNCHANGED <<rows, tick, req, served, late, erased, quiet, faults, stops>>
        /\ server' = "up" /\ loop' = [loop EXCEPT !.stage = "query"] /\ server = "down"
    BY <1>5 DEF Start, history, counters
  <2>2. loop.stage = "gone" /\ loop.list = {} /\ loop.at = {}
    BY <1>0, <2>1 DEF LoopInv, TypeOK, Triggering
  <2>3. loop' = [stage |-> "query", list |-> {}, at |-> {}]
    BY <1>0, <2>1, <2>2 DEF LoopInv
  <2>4. LoopInv'
    <3>1. loop'.list = {} /\ loop'.at = {} /\ server' # "down"
      BY <2>1, <2>3
    <3>2. \A s \in Schedule : ~Holds(s)'
      BY <3>1 DEF Holds
    <3>3. loop' \in [stage : {"select", "query", "trigger", "execute", "update", "gone"},
                    list : SUBSET Entry, at : SUBSET Entry]
      BY <2>3
    <3> QED BY <3>1, <3>2, <3>3 DEF LoopInv
  <2> QED BY <1>0, <2>1, <2>3, <2>4, RowsStay, TypeParts DEF TypeOK, Triggering
<1> QED BY <1>1, <1>2, <1>3, <1>4, <1>5 DEF Next, RequestStep, LoopStep

\* TypeOK is inductive with what LoopInv says of the loop.
THEOREM SchedulerTypes == Spec => []TypeOK
<1>1. TypeInv => TypeOK
  BY DEF TypeInv
<1> QED BY TypeInit, TypeStep, <1>1, PTL DEF Spec

-----------------------------------------------------------------------------
(* Due times *)

\* An execution of s may still be started from what the loop has read.
Pending(s) ==
  \/ \E d \in loop.list : d.id = s
  \/ loop.stage = "execute" /\ \E d \in loop.at : d.id = s

\* The execution was started, and its due time is about to be replaced.
Settling(s) == server = "up" /\ loop.stage = "update" /\ \E d \in loop.at : d.id = s

\* Only a schedule whose due time is being replaced, or one that is gone and in
\* no list, has had one execution more than statements failed and processes
\* stopped.
ServedInv ==
  \A s \in Schedule :
    /\ served[s] <= 1 + faults + stops
    /\ rows[s].state = "fresh" => served[s] = 0
    /\ (Stored(s) \/ Pending(s)) /\ ~Settling(s) => served[s] <= faults + stops

\* A trigger counts for the schedule at hand, which is then no longer pending.
LEMMA ExecuteEffect ==
  ASSUME TypeInv, ExecuteCommand, NEW s \in Schedule
  PROVE  /\ served'[s] # served[s] \/ late'[s] # late[s] =>
               server = "up" /\ Pending(s) /\ ~Pending(s)' /\ Settling(s)'
         /\ served'[s] \in {served[s], served[s] + 1}
         /\ late'[s] \in {late[s], late[s] + 1}
         /\ late'[s] # late[s] => s \in erased
         /\ Pending(s)' => Pending(s)
         /\ UNCHANGED <<rows, server, faults, stops>>
<1>0. /\ served \in [Schedule -> Nat] /\ late \in [Schedule -> Nat]
      /\ \A d \in loop.at : d.id \in Schedule
      /\ loop \in [stage : {"select", "query", "trigger", "execute", "update", "gone"},
                   list : SUBSET Entry, at : SUBSET Entry]
      /\ \A d, e \in loop.at : d = e
      /\ \A d \in loop.list, e \in loop.at : d.id # e.id
  BY DEF TypeInv, TypeOK, LoopInv, Entry
<1>1. /\ loop.stage = "execute" /\ loop'.stage = "update"
      /\ loop'.list = loop.list /\ loop'.at = loop.at
      /\ UNCHANGED <<rows, server, faults, stops>>
  BY <1>0 DEF ExecuteCommand, counters
<1>2. CASE UNCHANGED <<served, late>>
  BY <1>1, <1>2 DEF Pending
<1>3. ASSUME NEW d \in loop.at, server = "up",
             served' = [served EXCEPT ![d.id] = @ + 1],
             late' = [late EXCEPT ![d.id] = IF d.id \in erased THEN @ + 1 ELSE @]
      PROVE  /\ served'[s] # served[s] \/ late'[s] # late[s] =>
                   server = "up" /\ Pending(s) /\ ~Pending(s)' /\ Settling(s)'
             /\ served'[s] \in {served[s], served[s] + 1}
             /\ late'[s] \in {late[s], late[s] + 1}
             /\ late'[s] # late[s] => s \in erased
             /\ Pending(s)' => Pending(s)
  <2>1. CASE s = d.id
    <3>1. Pending(s) /\ ~Pending(s)' /\ Settling(s)'
      BY <1>0, <1>1, <1>3, <2>1 DEF Pending, Settling
    <3> QED BY <1>0, <1>3, <2>1, <3>1
  <2>2. CASE s # d.id
    BY <1>0, <1>1, <1>3, <2>2 DEF Pending
  <2> QED BY <2>1, <2>2
<1> QED BY <1>1, <1>2, <1>3 DEF ExecuteCommand

LEMMA Sums ==
  \A m, n, k \in Nat : m <= n => m + k <= n + k /\ (n = m + 1 => m + k < n + k)
OBVIOUS

LEMMA ServedStep == TypeInv /\ TypeInv' /\ ServedInv /\ [Next]_vars => ServedInv'
<1> SUFFICES ASSUME TypeInv, TypeInv', ServedInv, [Next]_vars PROVE ServedInv'
  OBVIOUS
<1>0. /\ served \in [Schedule -> Nat] /\ faults \in Nat /\ stops \in Nat
      /\ served' \in [Schedule -> Nat] /\ faults' \in Nat /\ stops' \in Nat
      /\ TypeOK /\ LoopInv
  BY BoundsAssumption DEF TypeInv, TypeOK
<1> USE <1>0
\* A step that counts nothing, and after which no more is stored or pending.
<1>1. ASSUME NEW s \in Schedule, served'[s] <= served[s],
             faults + stops <= faults' + stops',
             rows'[s].state = "fresh" => rows[s].state = "fresh",
             (Stored(s) \/ Pending(s))' => Stored(s) \/ Pending(s) \/ served[s] = 0,
             \/ Settling(s) => Settling(s)'
             \/ faults + stops < faults' + stops'
             \/ served'[s] = 0
      PROVE  /\ served'[s] <= 1 + faults' + stops'
             /\ rows'[s].state = "fresh" => served'[s] = 0
             /\ (Stored(s) \/ Pending(s))' /\ ~Settling(s)' => served'[s] <= faults' + stops'
  BY <1>1 DEF ServedInv
<1>2. CASE RequestStep
  <2>1. /\ UNCHANGED <<loop, server, stops>>
        /\ \A x \in Schedule : rows[x].state # "fresh" => rows'[x].state # "fresh"
    BY <1>2, RequestKeepsTypes
  <2>2. \A s \in Schedule : (Pending(s)' <=> Pending(s)) /\ (Settling(s)' <=> Settling(s))
    BY <2>1 DEF Pending, Settling
  <2>3. faults <= faults'
    <3>1. UNCHANGED faults \/ Fault
      BY <1>2 DEF RequestStep, Elapse, Create, Edit, UpdateSchedule, EnableSchedule, DisableSchedule,
                  Read, Delete, Arm, Reload, Write, Rearm, RequestFails, counters
    <3> QED BY <3>1 DEF Fault
  <2>4. \A s \in Schedule : served'[s] <= served[s]
    <3>1. ASSUME NEW q \in Request, Arm(q) \/ Rearm(q)
          PROVE  \A s \in Schedule : served'[s] <= served[s]
      <4>1. PICK next \in Written(req[q].next) : UpdateNextRunAt(TargetOf[q], next)
        BY <3>1 DEF Arm, Rearm
      <4> QED BY <4>1, Targets DEF UpdateNextRunAt
    <3>2. UNCHANGED served \/ \E q \in Request : Arm(q) \/ Rearm(q)
      BY <1>2 DEF RequestStep, Elapse, Create, Edit, UpdateSchedule, EnableSchedule,
                  DisableSchedule, Read, Delete, Reload, Write, RequestFails, history
    <3> QED BY <3>1, <3>2
  <2>5. \A s \in Schedule : Stored(s)' => Stored(s) \/ rows[s].state = "fresh"
    <3>1. ASSUME NEW q \in Request, Arm(q) \/ Rearm(q) \/ Write(q)
          PROVE  \A s \in Schedule : rows'[s].state = rows[s].state
      <4>1. CASE Arm(q) \/ Rearm(q)
        <5>1. PICK next \in Written(req[q].next) : UpdateNextRunAt(TargetOf[q], next)
          BY <4>1 DEF Arm, Rearm
        <5> QED BY <5>1, Targets DEF UpdateNextRunAt, TypeInv, TypeOK, RowType
      <4>2. CASE Write(q)
        BY <3>1, <4>2, Targets DEF Write, TypeInv, TypeOK, RowType
      <4> QED BY <3>1, <4>1, <4>2
    <3>2. ASSUME NEW q \in Request, Create(q) \/ Delete(q)
          PROVE  \A s \in Schedule : Stored(s)' => Stored(s) \/ rows[s].state = "fresh"
      BY <3>2, Targets DEF Create, Delete, Stored, Row, TypeInv, TypeOK, RowType
    <3>3. CASE \E s \in Schedule : Elapse(s)
      BY <3>3 DEF Elapse, Stored, TypeInv, TypeOK, RowType
    <3>4. \/ UNCHANGED rows \/ \E s \in Schedule : Elapse(s)
          \/ \E q \in Request : Create(q) \/ Delete(q) \/ Arm(q) \/ Rearm(q) \/ Write(q)
      BY <1>2 DEF RequestStep, Edit, UpdateSchedule, EnableSchedule, DisableSchedule, Read,
                  Reload, RequestFails
    <3> QED BY <3>1, <3>2, <3>3, <3>4 DEF Stored
  <2> QED BY <1>1, <2>1, <2>2, <2>3, <2>4, <2>5 DEF ServedInv
<1>3. CASE ExecuteCommand
  <2> SUFFICES ASSUME NEW s \in Schedule
               PROVE  /\ served'[s] <= 1 + faults' + stops'
                      /\ rows'[s].state = "fresh" => served'[s] = 0
                      /\ (Stored(s) \/ Pending(s))' /\ ~Settling(s)'
                           => served'[s] <= faults' + stops'
    BY DEF ServedInv
  <2>1. UNCHANGED <<rows, server, faults, stops>> /\ (Pending(s)' => Pending(s)) /\ ~Settling(s)
    BY <1>3, ExecuteEffect DEF Settling, ExecuteCommand
  <2>2. Stored(s)' <=> Stored(s)
    BY <2>1 DEF Stored
  <2>3. CASE served'[s] = served[s]
    BY <2>1, <2>2, <2>3 DEF ServedInv
  <2>4. CASE served'[s] # served[s]
    <3>1. Pending(s) /\ Settling(s)' /\ served'[s] = served[s] + 1
      BY <1>3, <2>4, ExecuteEffect
    <3>2. rows[s].state # "fresh"
      BY <3>1 DEF Pending, Holds, LoopInv
    <3> QED BY <2>1, <3>1, <3>2 DEF ServedInv
  <2> QED BY <2>3, <2>4
<1>4. CASE UpdateTiming
  <2>1. UNCHANGED <<server, stops>> /\ faults <= faults'
        /\ loop'.list = loop.list /\ loop'.stage = "trigger" /\ loop.stage = "update"
    BY <1>4 DEF UpdateTiming, counters, Fault, LoopInv
  <2>2. \A s \in Schedule : Pending(s)' => Pending(s)
    BY <2>1 DEF Pending
  <2>3. CASE server = "up" /\ UNCHANGED counters /\ \E d \in loop.at :
               \E next \in Written(ComputeNextRun(d.timing)) : UpdateNextRunAt(d.id, next)
    <3>1. PICK d \in loop.at : \E next \in Written(ComputeNextRun(d.timing)) :
                 UpdateNextRunAt(d.id, next)
      BY <2>3
    <3>2. PICK next \in Written(ComputeNextRun(d.timing)) : UpdateNextRunAt(d.id, next)
      BY <3>1
    <3>3. next \in Times /\ d.id \in Schedule /\ \A e \in loop.at : e = d
      BY TimesAreTimes DEF TypeOK, LoopInv, Entry
    <3>4. /\ \A x \in Schedule : rows'[x].state = rows[x].state
          /\ \A x \in Schedule : x # d.id \/ ~Stored(d.id) => served'[x] = served[x]
          /\ Stored(d.id) => served'[d.id] = 0
      BY <3>2, <3>3, NextRunType
    <3>5. \A x \in Schedule : Settling(x) => x = d.id
      BY <3>3 DEF Settling
    <3>6. ~Stored(d.id) => ~Pending(d.id)
      BY <2>1, <3>3 DEF Pending, LoopInv
    <3>7. \A x \in Schedule : served'[x] <= served[x]
      BY <3>3, <3>4
    <3>8. faults' = faults /\ stops' = stops
      BY <2>3 DEF counters
    <3>9. ASSUME NEW s \in Schedule
          PROVE  /\ served'[s] <= 1 + faults' + stops'
                 /\ rows'[s].state = "fresh" => served'[s] = 0
                 /\ (Stored(s) \/ Pending(s))' /\ ~Settling(s)' => served'[s] <= faults' + stops'
      <4>1. (Stored(s)' <=> Stored(s)) /\ (rows'[s].state = "fresh" => rows[s].state = "fresh")
        BY <3>4 DEF Stored
      <4>2. CASE s # d.id \/ Stored(d.id)
        BY <1>1, <2>2, <3>4, <3>5, <3>7, <3>8, <4>1, <4>2
      <4>3. CASE s = d.id /\ ~Stored(d.id)
        BY <2>2, <3>6, <3>7, <3>8, <4>1, <4>3 DEF ServedInv
      <4> QED BY <4>2, <4>3
    <3> QED BY <3>9 DEF ServedInv
  <2>4. CASE /\ (server = "stopping" /\ UNCHANGED counters) \/ (Fault /\ UNCHANGED stops)
             /\ UNCHANGED <<rows, served>>
    <3>1. UNCHANGED <<rows, served>> /\ \A s \in Schedule : Stored(s)' <=> Stored(s)
      BY <2>4 DEF Stored
    <3>2. server = "up" => faults' = faults + 1
      BY <2>4 DEF Fault
    <3>3. \A s \in Schedule : Settling(s) => faults' = faults + 1
      BY <3>2 DEF Settling
    <3>4. stops' = stops /\ faults <= faults'
      BY <2>1
    <3>5. /\ faults + stops <= faults' + stops'
          /\ faults' = faults + 1 => faults + stops < faults' + stops'
      BY <3>4, Sums
    <3>6. \A s \in Schedule : served'[s] <= served[s]
      BY <3>1
    <3> QED BY <1>1, <2>2, <3>1, <3>3, <3>5, <3>6 DEF ServedInv
  <2>5. \/ /\ server = "up" /\ UNCHANGED counters
           /\ \E d \in loop.at :
                \E next \in Written(ComputeNextRun(d.timing)) : UpdateNextRunAt(d.id, next)
        \/ /\ (server = "stopping" /\ UNCHANGED counters) \/ (Fault /\ UNCHANGED stops)
           /\ UNCHANGED <<rows, served>>
    BY <1>4 DEF UpdateTiming
  <2> QED BY <2>3, <2>4, <2>5
<1>5. CASE Poll \/ Leave \/ ListDone \/ ProcessDueSchedules \/ TriggerSchedule
  <2>1. UNCHANGED <<rows, served, server, stops>> /\ faults <= faults' /\ loop.stage # "update"
    BY <1>5 DEF Poll, Leave, ListDone, ProcessDueSchedules, TriggerSchedule, history, counters, Fault
  <2>2. \A s \in Schedule : Pending(s)' => Pending(s) \/ Stored(s)
    BY <1>5, <2>1, LoopMoves, DueEntries DEF Pending, LoopStep, Loop
  <2>3. \A s \in Schedule : ~Settling(s) /\ (Stored(s)' <=> Stored(s))
    BY <2>1 DEF Settling, Stored
  <2> QED BY <1>1, <2>1, <2>2, <2>3 DEF ServedInv
<1>6. CASE Tick \/ UNCHANGED vars
  <2>1. UNCHANGED <<rows, served, loop, server, stops, faults>>
    BY <1>6 DEF Tick, vars, history, counters
  <2>2. \A s \in Schedule : /\ Pending(s)' <=> Pending(s)
                            /\ Settling(s)' <=> Settling(s)
                            /\ Stored(s)' <=> Stored(s)
    BY <2>1 DEF Pending, Settling, Stored
  <2> QED BY <1>1, <2>1, <2>2 DEF ServedInv
<1>7. CASE Shutdown \/ Exit \/ Crash \/ Start
  <2>1. UNCHANGED <<rows, served, faults>> /\ stops <= stops'
        /\ (server = "up" => stops < stops')
    BY <1>7 DEF Shutdown, Exit, Crash, Start, history, counters
  <2>2. \A s \in Schedule : Pending(s)' => Pending(s)
    <3>1. CASE Shutdown
      BY <3>1 DEF Shutdown, Pending
    <3>2. CASE Exit \/ Crash
      BY <3>2 DEF Exit, Crash, ProcessEnds, Pending
    <3>3. CASE Start
      BY <3>3 DEF Start, Pending, LoopInv
    <3> QED BY <1>7, <3>1, <3>2, <3>3
  <2>3. \A s \in Schedule : Stored(s)' <=> Stored(s)
    BY <2>1 DEF Stored
  <2>4. \A s \in Schedule : Settling(s) => stops < stops'
    BY <2>1 DEF Settling
  <2> QED BY <1>1, <2>1, <2>2, <2>3, <2>4 DEF ServedInv
<1> QED BY <1>2, <1>3, <1>4, <1>5, <1>6, <1>7 DEF Next, RequestStep, Loop

\* OncePerDueTime: a due time starts one execution, and one more for each
\* statement that failed and each process that ended.
THEOREM ServedOnce == Spec => []OncePerDueTime
<1>1. Init => TypeInv /\ ServedInv
  <2> SUFFICES ASSUME Init PROVE ServedInv
    BY TypeInit
  <2> QED BY DEF Init, ServedInv
<1>2. TypeInv /\ ServedInv /\ [Next]_vars => (TypeInv /\ ServedInv)'
  BY TypeStep, ServedStep
<1>3. ServedInv => OncePerDueTime
  BY DEF ServedInv, OncePerDueTime
<1> QED BY <1>1, <1>2, <1>3, PTL DEF Spec

-----------------------------------------------------------------------------
(* Deleted schedules *)

\* A schedule that was deleted has run once at most since, and then is in no
\* list any more.
LateInv ==
  \A s \in Schedule :
    /\ s \in erased => rows[s].state = "deleted"
    /\ late[s] <= 1
    /\ late[s] # 0 => s \in erased /\ ~Pending(s)

\* What the loop may execute it could before, or it is stored.
LEMMA PendingFrom ==
  ASSUME TypeInv, [Next]_vars, NEW s \in Schedule
  PROVE  Pending(s)' => Pending(s) \/ Stored(s)
<1>1. CASE RequestStep \/ Tick \/ Shutdown \/ UNCHANGED vars
  <2>1. UNCHANGED loop
    BY <1>1, RequestKeepsTypes DEF Tick, Shutdown, vars
  <2> QED BY <2>1 DEF Pending
<1>2. CASE ExecuteCommand
  BY <1>2, ExecuteEffect
<1>3. CASE LoopStep /\ ~ExecuteCommand
  BY <1>3, LoopMoves, DueEntries DEF Pending, LoopStep, Loop
<1>4. CASE Exit \/ Crash
  BY <1>4 DEF Exit, Crash, ProcessEnds, Pending
<1>5. CASE Start
  BY <1>5 DEF Start, Pending, TypeInv, LoopInv
<1> QED BY <1>1, <1>2, <1>3, <1>4, <1>5 DEF Next, RequestStep, LoopStep

\* No statement stores a deleted row again.
LEMMA DeletedStays ==
  ASSUME TypeInv, [Next]_vars, NEW s \in Schedule, rows[s].state = "deleted"
  PROVE  rows'[s].state = "deleted"
<1>0. rows \in [Schedule -> RowType] /\ ~Stored(s) /\ rows[s].state # "fresh"
  BY DEF TypeInv, TypeOK, Stored
<1>1. CASE \E x \in Schedule : Elapse(x)
  BY <1>0, <1>1 DEF Elapse, Stored
<1>2. ASSUME NEW q \in Request, Create(q) \/ Delete(q) \/ Write(q)
      PROVE  rows'[s] = rows[s]
  BY <1>0, <1>2, Targets DEF Create, Delete, Write, Stored
<1>3. ASSUME NEW x \in Schedule, NEW next, UpdateNextRunAt(x, next)
      PROVE  rows'[s] = rows[s]
  BY <1>0, <1>3 DEF UpdateNextRunAt, Stored
<1>4. ASSUME NEW q \in Request, Arm(q) \/ Rearm(q)
      PROVE  rows'[s] = rows[s]
  BY <1>3, <1>4, Targets DEF Arm, Rearm
<1>5. CASE UpdateTiming
  <2>1. \A d \in loop.at : d.id \in Schedule
    BY DEF TypeInv, TypeOK, Entry
  <2> QED BY <1>3, <1>5, <2>1 DEF UpdateTiming
<1>6. \/ UNCHANGED rows \/ UpdateTiming \/ \E x \in Schedule : Elapse(x)
      \/ \E q \in Request : Create(q) \/ Delete(q) \/ Write(q) \/ Arm(q) \/ Rearm(q)
  BY DEF Next, vars, Tick, Loop, Leave, Poll, ProcessDueSchedules, ListDone, TriggerSchedule,
         ExecuteCommand, Edit, UpdateSchedule, EnableSchedule, DisableSchedule, Read, Reload,
         RequestFails, Shutdown, Exit, Crash, Start
<1> QED BY <1>1, <1>2, <1>4, <1>5, <1>6

LEMMA LateStep == TypeInv /\ LateInv /\ [Next]_vars => LateInv'
<1> SUFFICES ASSUME TypeInv, LateInv, [Next]_vars, NEW s \in Schedule
             PROVE  /\ s \in erased' => rows'[s].state = "deleted"
                    /\ late'[s] <= 1
                    /\ late'[s] # 0 => s \in erased' /\ ~Pending(s)'
  BY DEF LateInv
<1>0. late \in [Schedule -> Nat] /\ rows \in [Schedule -> RowType]
  BY DEF TypeInv, TypeOK
<1>1. s \in erased' => rows'[s].state = "deleted"
  <2>1. ASSUME NEW q \in Request, Delete(q), s \notin erased
        PROVE  s \in erased' => rows'[s].state = "deleted"
    BY <1>0, <2>1, Targets DEF Delete, Row
  <2>2. UNCHANGED erased \/ \E q \in Request : Delete(q)
    BY DEF Next, vars, Elapse, Tick, Loop, Leave, Poll, ProcessDueSchedules, ListDone,
           TriggerSchedule, ExecuteCommand, UpdateTiming, Create, Edit, UpdateSchedule,
           EnableSchedule, DisableSchedule, Read, Arm, Reload, Write, Rearm, RequestFails,
           Shutdown, Exit, Crash, Start, history
  <2>3. s \in erased => rows'[s].state = "deleted"
    BY DeletedStays DEF LateInv
  <2> QED BY <2>1, <2>2, <2>3
<1>2. erased \subseteq erased'
  BY DEF Next, vars, Elapse, Tick, Loop, Leave, Poll, ProcessDueSchedules, ListDone,
         TriggerSchedule, ExecuteCommand, UpdateTiming, Create, Delete, Edit, UpdateSchedule,
         EnableSchedule, DisableSchedule, Read, Arm, Reload, Write, Rearm, RequestFails,
         Shutdown, Exit, Crash, Start, history
<1>3. late'[s] <= 1 /\ (late'[s] # 0 => s \in erased /\ ~Pending(s)')
  <2>1. CASE late'[s] # late[s]
    <3>1. ExecuteCommand
      BY <2>1 DEF Next, vars, Elapse, Tick, Loop, Leave, Poll, ProcessDueSchedules, ListDone,
           TriggerSchedule, UpdateTiming, Create, Delete, Edit, UpdateSchedule,
           EnableSchedule, DisableSchedule, Read, Arm, Reload, Write, Rearm, RequestFails,
           Shutdown, Exit, Crash, Start, history
    <3>2. Pending(s) /\ ~Pending(s)' /\ s \in erased /\ late'[s] \in {late[s], late[s] + 1}
      BY <2>1, <3>1, ExecuteEffect
    <3>3. late[s] = 0
      BY <3>2 DEF LateInv
    <3> QED BY <3>2, <3>3
  <2>2. CASE late'[s] = late[s] /\ late[s] # 0
    <3>1. ~Pending(s) /\ late[s] <= 1 /\ s \in erased
      BY <2>2 DEF LateInv
    <3>2. ~Stored(s)
      BY <2>2 DEF LateInv, Stored
    <3> QED BY <2>2, <3>1, <3>2, PendingFrom
  <2>3. CASE late'[s] = late[s] /\ late[s] = 0
    BY <2>3
  <2> QED BY <2>1, <2>2, <2>3
<1> QED BY <1>1, <1>2, <1>3

\* DeletedRunsOnce: after its deletion a schedule is executed once at most, by
\* a loop that had read it before, whatever edits and triggers were under way.
THEOREM DeletedOnce == Spec => []DeletedRunsOnce
<1>1. Init => TypeInv /\ LateInv
  <2> SUFFICES ASSUME Init PROVE LateInv
    BY TypeInit
  <2> QED BY DEF Init, LateInv
<1>2. TypeInv /\ LateInv /\ [Next]_vars => (TypeInv /\ LateInv)'
  BY TypeStep, LateStep
<1>3. LateInv => DeletedRunsOnce
  BY DEF LateInv, DeletedRunsOnce
<1> QED BY <1>1, <1>2, <1>3, PTL DEF Spec

-----------------------------------------------------------------------------
(* Disabled schedules *)

\* No request but one that disables is in the middle of work on s.
Undisturbed(s) ==
  \A q \in Request :
    TargetOf[q] = s =>
      \/ req[q].stage \in {"start", "done"}
      \/ req[q].op = "disable" /\ req[q].stage \in {"reload", "write", "rearm"}

QuietInv ==
  /\ \A q \in Request : req[q].op = "disable" => req[q].next = "null"
  /\ \A s \in quiet : Stored(s) /\ rows[s].next = "null" /\ ~Holds(s) /\ Undisturbed(s)

\* What QuietInv says of one schedule.
Quiet(s) == Stored(s) /\ rows[s].next = "null" /\ ~Holds(s) /\ Undisturbed(s)

\* The loop has at hand what it had, or what is due.
LEMMA HoldsFrom ==
  ASSUME TypeInv, [Next]_vars, NEW s \in Schedule
  PROVE  Holds(s)' => Holds(s) \/ rows[s].next = "due"
<1>1. CASE RequestStep \/ Tick \/ Shutdown \/ UNCHANGED vars
  <2>1. UNCHANGED loop
    BY <1>1, RequestKeepsTypes DEF Tick, Shutdown, vars
  <2> QED BY <2>1 DEF Holds
<1>2. CASE LoopStep
  BY <1>2, LoopMoves, DueEntries DEF Holds
<1>3. CASE Exit \/ Crash
  BY <1>3 DEF Exit, Crash, ProcessEnds, Holds
<1>4. CASE Start
  BY <1>4 DEF Start, Holds, TypeInv, LoopInv
<1> QED BY <1>1, <1>2, <1>3, <1>4 DEF Next, RequestStep, LoopStep

\* A quiet schedule stays so if its row and the requests about it do.
LEMMA QuietStays ==
  ASSUME TypeInv, [Next]_vars, NEW s \in Schedule, Quiet(s),
         rows'[s].state = "stored", rows'[s].next = "null", Undisturbed(s)'
  PROVE  Quiet(s)'
<1>1. ~Holds(s)'
  BY HoldsFrom DEF Quiet
<1> QED BY <1>1 DEF Quiet, Stored

\* A request that goes on keeps its operation and its time.
LEMMA Advances ==
  ASSUME TypeInv, NEW q \in Request, NEW stage, NEW t,
         \/ req' = [req EXCEPT ![q].stage = stage]
         \/ req' = [req EXCEPT ![q].stage = stage, ![q].timing = t]
  PROVE  /\ \A p \in Request : req'[p].op = req[p].op /\ req'[p].next = req[p].next
         /\ \A p \in Request : p # q => req'[p].stage = req[p].stage
         /\ req'[q].stage = stage
<1>1. req \in [Request -> RequestType]
  BY DEF TypeInv, TypeOK
<1>2. CASE req' = [req EXCEPT ![q].stage = stage]
  <2>1. req' = [req EXCEPT ![q] = [req[q] EXCEPT !.stage = stage]]
    BY <1>2
  <2> QED BY <1>1, <2>1 DEF RequestType
<1>3. CASE req' = [req EXCEPT ![q].stage = stage, ![q].timing = t]
  <2>1. req' = [req EXCEPT ![q] = [req[q] EXCEPT !.stage = stage, !.timing = t]]
    BY <1>1, <1>3
  <2> QED BY <1>1, <2>1 DEF RequestType
<1> QED BY <1>2, <1>3

LEMMA QuietStep == TypeInv /\ QuietInv /\ [Next]_vars => QuietInv'
<1> SUFFICES ASSUME TypeInv, QuietInv, [Next]_vars PROVE QuietInv'
  OBVIOUS
<1>0. /\ rows \in [Schedule -> RowType] /\ req \in [Request -> RequestType]
      /\ quiet \subseteq Schedule /\ \A s \in quiet : Quiet(s)
      /\ \A q \in Request : req[q].op = "disable" => req[q].next = "null"
  BY DEF TypeInv, TypeOK, QuietInv, Quiet
<1>1. QuietInv' <=> /\ \A q \in Request : req'[q].op = "disable" => req'[q].next = "null"
                    /\ \A s \in quiet' : Quiet(s)'
  BY DEF QuietInv, Quiet
\* A request that ends disturbs nobody.
<1>2. ASSUME NEW q \in Request, Ends(q)
      PROVE  /\ \A p \in Request : req'[p].op = "disable" => req'[p].next = "null"
             /\ \A s \in Schedule : Undisturbed(s) => Undisturbed(s)'
  BY <1>0, <1>2 DEF Ends, Idle, Undisturbed
<1>3. CASE \E x \in Schedule : Elapse(x)
  <2>1. UNCHANGED <<req, quiet>> /\ \A s \in quiet : rows'[s] = rows[s]
    BY <1>0, <1>3 DEF Elapse, Quiet, history
  <2>2. \A s \in Schedule : Undisturbed(s) => Undisturbed(s)'
    BY <2>1 DEF Undisturbed
  <2> QED BY <1>0, <1>1, <2>1, <2>2, QuietStays DEF Quiet, Stored
<1>4. ASSUME NEW q \in Request, Create(q) \/ Delete(q) \/ RequestFails(q) PROVE QuietInv'
  <2>1. Ends(q) /\ quiet' \subseteq quiet /\ \A s \in quiet' : rows'[s] = rows[s]
    BY <1>0, <1>4, Targets DEF Create, Delete, RequestFails, Quiet, Stored, history
  <2> QED BY <1>0, <1>1, <1>2, <2>1, QuietStays DEF Quiet, Stored
<1>5. ASSUME NEW q \in Request, UpdateSchedule(q) \/ EnableSchedule(q) PROVE QuietInv'
  <2>1. /\ UNCHANGED rows /\ quiet' = quiet \ {TargetOf[q]}
        /\ \A p \in Request : p # q => req'[p] = req[p]
        /\ req'[q].op # "disable"
    <3>1. ASSUME NEW op, op # "disable", NEW stage, NEW t, NEW next, Read(q, op, stage, t, next)
          PROVE  /\ UNCHANGED rows /\ \A p \in Request : p # q => req'[p] = req[p]
                 /\ req'[q].op # "disable"
      <4>1. req' = [req EXCEPT ![q] = [op |-> op, stage |-> stage, timing |-> t, next |-> next]]
        BY <3>1 DEF Read
      <4> QED BY <1>0, <3>1, <4>1 DEF Read
    <3>2. CASE UpdateSchedule(q)
      BY <3>1, <3>2 DEF UpdateSchedule
    <3>3. CASE EnableSchedule(q)
      BY <3>1, <3>3 DEF EnableSchedule
    <3> QED BY <1>5, <3>2, <3>3
  <2>2. \A s \in quiet' : Undisturbed(s)'
    BY <1>0, <2>1 DEF Undisturbed, Quiet
  <2>3. \A p \in Request : req'[p].op = "disable" => req'[p].next = "null"
    BY <1>0, <2>1
  <2> QED BY <1>0, <1>1, <2>1, <2>2, <2>3, QuietStays DEF Quiet, Stored
<1>6. ASSUME NEW q \in Request, DisableSchedule(q) PROVE QuietInv'
  <2>1. /\ UNCHANGED <<rows, quiet>>
        /\ req' = [req EXCEPT ![q] = [op |-> "disable", stage |-> "reload",
                                     timing |-> rows[TargetOf[q]].timing, next |-> "null"]]
    BY <1>6 DEF DisableSchedule, Read
  <2>2. \A s \in Schedule : Undisturbed(s) => Undisturbed(s)'
    BY <1>0, <2>1 DEF Undisturbed
  <2>3. \A p \in Request : req'[p].op = "disable" => req'[p].next = "null"
    BY <1>0, <2>1
  <2> QED BY <1>0, <1>1, <2>1, <2>2, <2>3, QuietStays DEF Quiet, Stored
<1>7. ASSUME NEW q \in Request, Reload(q) \/ Write(q) PROVE QuietInv'
  <2>1. UNCHANGED quiet /\ req[q].stage \in {"reload", "write"}
    BY <1>7 DEF Reload, Write, history
  <2>2. \A s \in Schedule : rows'[s].state = rows[s].state /\ rows'[s].next = rows[s].next
    BY <1>0, <1>7, Targets DEF Reload, Write, RowType
  <2>3. \/ Ends(q)
        \/ /\ \A p \in Request : req'[p].op = req[p].op /\ req'[p].next = req[p].next
           /\ \A p \in Request : p # q => req'[p].stage = req[p].stage
           /\ req'[q].stage \in {"write", "rearm"}
    <3>1. CASE Reload(q)
      <4>1. \/ Ends(q)
            \/ req' = [req EXCEPT ![q].stage = "write", ![q].timing = rows[TargetOf[q]].timing]
        BY <3>1 DEF Reload
      <4> QED BY <4>1, Advances
    <3>2. CASE Write(q)
      <4>1. Ends(q) \/ req' = [req EXCEPT ![q].stage = "rearm"]
        BY <3>2 DEF Write
      <4> QED BY <4>1, Advances
    <3> QED BY <1>7, <3>1, <3>2
  <2>4. \A s \in Schedule : Undisturbed(s) => Undisturbed(s)'
    BY <1>2, <2>1, <2>3 DEF Undisturbed
  <2>5. \A p \in Request : req'[p].op = "disable" => req'[p].next = "null"
    BY <1>0, <1>2, <2>3
  <2> QED BY <1>0, <1>1, <2>1, <2>2, <2>4, <2>5, QuietStays DEF Quiet, Stored
<1>8. ASSUME NEW q \in Request, Arm(q) PROVE QuietInv'
  <2>1. PICK next \in Written(req[q].next) : UpdateNextRunAt(TargetOf[q], next)
    BY <1>8 DEF Arm
  <2>2. req[q].next \in Times /\ next \in Times /\ TargetOf[q] \in Schedule
    BY <1>0, <2>1, TimesAreTimes, Targets DEF RequestType
  <2>3. UNCHANGED quiet /\ req[q].stage = "arm"
        /\ (Ends(q) \/ req' = [req EXCEPT ![q].stage = "reload"])
    BY <1>8 DEF Arm
  <2>4. TargetOf[q] \notin quiet
    BY <1>0, <2>3 DEF Quiet, Undisturbed
  <2>5. \A s \in Schedule : s # TargetOf[q] => rows'[s] = rows[s]
    BY <2>1, <2>2, NextRunType
  <2>6. \A s \in quiet : Undisturbed(s)'
    <3>1. CASE Ends(q)
      BY <1>0, <1>2, <3>1 DEF Quiet
    <3>2. CASE req' = [req EXCEPT ![q].stage = "reload"]
      <4>1. \A p \in Request : p # q => req'[p].op = req[p].op /\ req'[p].stage = req[p].stage
        BY <3>2, Advances
      <4> QED BY <1>0, <2>4, <4>1 DEF Undisturbed, Quiet
    <3> QED BY <2>3, <3>1, <3>2
  <2>7. \A p \in Request : req'[p].op = "disable" => req'[p].next = "null"
    BY <1>0, <1>2, <2>3, Advances
  <2> QED BY <1>0, <1>1, <2>3, <2>4, <2>5, <2>6, <2>7, QuietStays DEF Quiet, Stored
<1>9. ASSUME NEW q \in Request, Rearm(q) PROVE QuietInv'
  <2> DEFINE t == TargetOf[q]
  <2>1. PICK next \in Written(req[q].next) : UpdateNextRunAt(t, next)
    BY <1>9 DEF Rearm
  <2>2. req[q].next \in Times /\ next \in Times /\ t \in Schedule
    BY <1>0, <2>1, TimesAreTimes, Targets DEF RequestType
  <2>3. /\ req[q].stage = "rearm" /\ Ends(q) /\ UNCHANGED loop
        /\ quiet' = IF req[q].op = "disable" /\ Stored(t) /\ Alone(q) THEN quiet \cup {t} ELSE quiet
    BY <1>9 DEF Rearm
  <2>4. req[q].op = "disable" => next = "null"
    BY <1>0, <2>1, TimesAreTimes
  <2>5. /\ \A s \in Schedule : s # t => rows'[s] = rows[s]
        /\ \A s \in Schedule : rows'[s].state = rows[s].state
        /\ Stored(t) => rows'[t].next = next
    BY <2>1, <2>2, NextRunType
  <2>6. t \in quiet => req[q].op = "disable"
    BY <1>0, <2>3 DEF Quiet, Undisturbed
  <2>7. \A s \in quiet : Quiet(s)'
    BY <1>0, <1>2, <2>3, <2>4, <2>5, <2>6, QuietStays DEF Quiet, Stored
  <2>8. ASSUME req[q].op = "disable", Stored(t), Alone(q) PROVE Quiet(t)'
    <3>1. Stored(t)' /\ rows'[t].next = "null"
      BY <2>2, <2>4, <2>5, <2>8 DEF Stored
    <3>2. ~Holds(t)'
      BY <2>3, <2>8 DEF Alone, Holds
    <3>3. Undisturbed(t)'
      BY <1>0, <2>3, <2>8 DEF Alone, Undisturbed, Ends, Idle
    <3> QED BY <3>1, <3>2, <3>3 DEF Quiet
  <2> QED BY <1>1, <1>2, <2>3, <2>7, <2>8
<1>10. CASE UpdateTiming
  <2>1. UNCHANGED <<req, quiet>> /\ \A s \in quiet : rows'[s] = rows[s]
    <3>1. UNCHANGED <<req, quiet>> /\ loop.stage = "update"
      BY <1>10 DEF UpdateTiming
    <3>2. ASSUME NEW d \in loop.at, NEW next \in Written(ComputeNextRun(d.timing)),
                 UpdateNextRunAt(d.id, next), NEW s \in quiet
          PROVE  rows'[s] = rows[s]
      <4>1. d.id # s /\ d.id \in Schedule /\ next \in Times /\ s \in Schedule
        BY <1>0, TimesAreTimes DEF Quiet, Holds, TypeInv, TypeOK, Entry
      <4> QED BY <3>2, <4>1, NextRunType
    <3> QED BY <1>10, <3>1, <3>2 DEF UpdateTiming
  <2>2. \A s \in Schedule : Undisturbed(s) => Undisturbed(s)'
    BY <2>1 DEF Undisturbed
  <2> QED BY <1>0, <1>1, <2>1, <2>2, QuietStays DEF Quiet, Stored
<1>11. CASE \/ Poll \/ Leave \/ ListDone \/ ProcessDueSchedules \/ TriggerSchedule
            \/ ExecuteCommand \/ Tick \/ Shutdown \/ Start \/ UNCHANGED vars
  <2>1. UNCHANGED <<rows, req, quiet>>
    BY <1>11 DEF Poll, Leave, ListDone, ProcessDueSchedules, TriggerSchedule, ExecuteCommand, Tick,
                 Shutdown, Start, vars, history
  <2>2. \A s \in Schedule : Undisturbed(s) => Undisturbed(s)'
    BY <2>1 DEF Undisturbed
  <2> QED BY <1>0, <1>1, <2>1, <2>2, QuietStays DEF Quiet, Stored
<1>12. CASE Exit \/ Crash
  <2>1. UNCHANGED <<rows, quiet>>
        /\ req' = [q \in Request |->
                     IF req[q].stage = "start" THEN req[q] ELSE [Idle EXCEPT !.stage = "done"]]
    BY <1>12 DEF Exit, Crash, ProcessEnds, history
  <2>2. \A s \in Schedule : Undisturbed(s)'
    BY <1>0, <2>1 DEF Undisturbed, Idle
  <2>3. \A p \in Request : req'[p].op = "disable" => req'[p].next = "null"
    BY <1>0, <2>1 DEF Idle
  <2> QED BY <1>0, <1>1, <2>1, <2>2, <2>3, QuietStays DEF Quiet, Stored
<1> QED BY <1>3, <1>4, <1>5, <1>6, <1>7, <1>8, <1>9, <1>10, <1>11, <1>12 DEF Next, Loop, Edit

\* DisabledIsQuiet: a schedule disabled while nobody else was at work on it
\* keeps no next run, and is in no list, until somebody edits it.
THEOREM QuietWhenDisabled == Spec => []DisabledIsQuiet
<1>1. Init => TypeInv /\ QuietInv
  <2> SUFFICES ASSUME Init PROVE QuietInv
    BY TypeInit
  <2> QED BY DEF Init, QuietInv, Idle
<1>2. TypeInv /\ QuietInv /\ [Next]_vars => (TypeInv /\ QuietInv)'
  BY TypeStep, QuietStep
<1>3. QuietInv => DisabledIsQuiet
  BY DEF QuietInv, DisabledIsQuiet
<1> QED BY <1>1, <1>2, <1>3, PTL DEF Spec

=============================================================================
