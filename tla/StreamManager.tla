---------------------------- MODULE StreamManager ----------------------------
(***************************************************************************)
(* The in-memory output stream of one execution: internal/stream/manager.go *)
(* with the SSE handler that serves it (internal/stream/handler.go) and    *)
(* the page that consumes it (web/src/pages/ExecutionDetailPage.tsx).      *)
(*                                                                         *)
(* The worker publishes chunks and completes the stream, cancel requests   *)
(* complete it too, HTTP sessions subscribe to it, and a cleaner discards  *)
(* it.  Each call is two steps, as in the code: getOrCreateStream under    *)
(* the manager's mutex, then the work under the stream's own mutex.        *)
(*                                                                         *)
(* Both mutexes are free between steps, except those kept for ever: by a   *)
(* Subscribe that waits for room in a channel nobody reads yet, by one     *)
(* that panicked, and by a Cleanup that waits for either.                  *)
(***************************************************************************)
EXTENDS Naturals, Sequences

CONSTANTS
  Client,       \* pages that show the execution
  Session,      \* slots for the requests GET /executions/:id/stream
  ClientOf,     \* the page that makes the requests of a slot
  Canceller,    \* cancel requests, which call Complete
  ChanCap,      \* capacity of a subscriber's channel (256 in the code)
  MaxBuffered,  \* maxBufferedEvents (10_000 in the code)
  MaxChunks,    \* bound on the chunks the worker publishes
  MaxDrops,     \* bound on connections lost by the network
  MaxReopens,   \* bound on event sources that replace one on the same page
  MaxCleanups   \* bound on calls of Cleanup

ASSUME ClientsAssumption ==
  ClientOf \in [Session -> Client] /\ Client \cap Canceller = {}

ASSUME BoundsAssumption ==
  /\ ChanCap \in Nat \ {0} /\ MaxBuffered \in Nat \ {0}
  /\ ChanCap <= MaxBuffered
  /\ {MaxChunks, MaxDrops, MaxReopens, MaxCleanups} \subseteq Nat

Worker == "worker"
Writer == {Worker} \cup Canceller

VARIABLES
  streams,  \* every executionStream made for the execution, oldest first
  mapped,   \* whether manager.streams holds the youngest of them
  held,     \* mutexes kept for ever: streams by index, the manager's as 0
  writer,   \* the call each writer is in, and the stream it got
  session,  \* the handler of each slot: stage, stream, Last-Event-ID, channel
  page,     \* each page: stage, ids shown, last id of its event source
  chunks, drops, reopens, cleanups  \* what the bounds count

vars == <<streams, mapped, held, writer, session, page,
          chunks, drops, reopens, cleanups>>

counters == <<chunks, drops, reopens, cleanups>>

Manager == 0

EmptyStream ==
  [events |-> <<>>, nextID |-> 1, done |-> FALSE, live |-> TRUE, subscribers |-> {}]

IdleSession ==
  [stage |-> "idle", at |-> 0, from |-> 0, up |-> FALSE, buf |-> <<>>, closed |-> FALSE]

Init ==
  /\ streams = <<>> /\ mapped = FALSE /\ held = {}
  /\ writer = [w \in Writer |-> [stage |-> "ready", at |-> 0]]
  /\ session = [s \in Session |-> IdleSession]
  /\ page = [c \in Client |-> [stage |-> "closed", shown |-> <<>>, last |-> 0]]
  /\ chunks = 0 /\ drops = 0 /\ reopens = 0 /\ cleanups = 0

-----------------------------------------------------------------------------
(* The manager *)

\* getOrCreateStream: index i is the stream the caller gets.
GetOrCreateStream(i) ==
  /\ Manager \notin held
  /\ IF mapped THEN i = Len(streams) /\ UNCHANGED streams
               ELSE i = Len(streams) + 1 /\ streams' = Append(streams, EmptyStream)
  /\ mapped' = TRUE
  /\ UNCHANGED held

\* Mutant of Offer: a full channel is written to.
Offer_Unbounded(ss, event) ==
  [s \in Session |-> IF s \in ss THEN [session[s] EXCEPT !.buf = Append(@, event)]
                     ELSE session[s]]

\* The non-blocking send of Publish and Complete, to each of the sessions ss.
Offer(ss, event) ==
  [s \in Session |->
    IF s \in ss /\ Len(session[s].buf) < ChanCap
    THEN [session[s] EXCEPT !.buf = Append(@, event)]
    ELSE session[s]]

\* Mutant of Trimmed: the newest events are cut off.
Trimmed_Newest(events) ==
  IF Len(events) > MaxBuffered THEN SubSeq(events, 1, MaxBuffered) ELSE events

Trimmed(events) ==
  IF Len(events) > MaxBuffered
  THEN SubSeq(events, Len(events) - MaxBuffered + 1, Len(events)) ELSE events

\* Mutant of Publish: whether the stream is done is not looked at.
Publish_AfterDone(i) ==
  LET es == streams[i]
      event == [id |-> es.nextID, event |-> "output"]
  IN /\ streams' = [streams EXCEPT ![i] = [es EXCEPT
                       !.nextID = es.nextID + 1,
                       !.events = Trimmed(Append(es.events, event))]]
     /\ session' = Offer(es.subscribers, event)

Publish(i) ==
  LET es == streams[i]
      event == [id |-> es.nextID, event |-> "output"]
  IN IF es.done
     THEN UNCHANGED <<streams, session>>
     ELSE /\ streams' = [streams EXCEPT ![i] = [es EXCEPT
                            !.nextID = es.nextID + 1,
                            !.events = Trimmed(Append(es.events, event))]]
          /\ session' = Offer(es.subscribers, event)

\* What Complete leaves of a stream, and the channels it and Cleanup close.
Completed(i, nextID, events, subscribers) ==
  streams' = [streams EXCEPT ![i] = [events |-> events, nextID |-> nextID, done |-> TRUE,
                                     live |-> TRUE, subscribers |-> subscribers]]
Closed(channels, ss) ==
  [s \in Session |-> [channels[s] EXCEPT !.closed = @ \/ s \in ss]]

\* Mutant of Complete: the subscribers whose channels it closed stay.
Complete_KeepsSubscribers(i) ==
  LET es == streams[i]
      event == [id |-> es.nextID, event |-> "complete"]
  IN /\ ~es.done
     /\ Completed(i, es.nextID + 1, Append(es.events, event), es.subscribers)
     /\ session' = Closed(session, es.subscribers)

\* Mutant of Complete: the subscribers are dropped, their channels left open.
Complete_NoClose(i) ==
  LET es == streams[i]
      event == [id |-> es.nextID, event |-> "complete"]
  IN /\ ~es.done
     /\ Completed(i, es.nextID + 1, Append(es.events, event), {})
     /\ session' = Offer(es.subscribers, event)

\* Mutant of Complete: the event is sent but not buffered.
Complete_NotBuffered(i) ==
  LET es == streams[i]
  IN /\ ~es.done
     /\ Completed(i, es.nextID + 1, es.events, {})
     /\ session' = Closed(session, es.subscribers)

\* Mutant of Complete: the event takes no id.
Complete_SameID(i) ==
  LET es == streams[i]
      event == [id |-> es.nextID - 1, event |-> "complete"]
  IN /\ ~es.done
     /\ Completed(i, es.nextID, Append(es.events, event), {})
     /\ session' = Closed(session, es.subscribers)

Complete(i) ==
  LET es == streams[i]
      event == [id |-> es.nextID, event |-> "complete"]
  IN IF es.done
     THEN UNCHANGED <<streams, session>>
     ELSE /\ Completed(i, es.nextID + 1, Append(es.events, event), {})
          /\ session' = Closed(Offer(es.subscribers, event), es.subscribers)

\* Mutant of ReplaysFrom: the event with the id of the header is replayed too.
ReplaysFrom_Inclusive(events, id, k) ==
  /\ \A j \in 1..(k - 1) : events[j].id < id
  /\ k <= Len(events) => events[k].id >= id

\* Mutant of ReplaysFrom: the event after the one of the header is skipped.
ReplaysFrom_Skips(events, id, k) ==
  /\ \A j \in 1..(k - 1) : events[j].id <= id + 1
  /\ k <= Len(events) => events[k].id > id + 1

\* The k-th event is the first that Subscribe replays: the first after the
\* Last-Event-ID, or the end of the buffer when there is none.  The id 0 stands
\* for an absent header, as every id is greater.
ReplaysFrom(events, id, k) ==
  /\ \A j \in 1..(k - 1) : events[j].id <= id
  /\ k <= Len(events) => events[k].id > id

\* What the replay leads to.  The channel is new and is returned at the end, so
\* that a replay longer than the channel never ends.  Of a stream that is done
\* the replay is all there is, and nothing to unsubscribe.  To register in a
\* stream that Cleanup emptied writes to a nil map; gin recovers the panic and
\* answers an error, which ends the page's event source.
Replayed(s, replay) ==
  LET i == session[s].at
      es == streams[i]
  IN \/ /\ Len(replay) > ChanCap
        /\ session' = [session EXCEPT ![s].stage = "blocked",
                                      ![s].buf = SubSeq(replay, 1, ChanCap)]
        /\ held' = held \cup {i}
        /\ UNCHANGED <<streams, page>>
     \/ /\ Len(replay) <= ChanCap /\ es.done
        /\ session' = [session EXCEPT ![s].stage = "replaying", ![s].buf = replay,
                                      ![s].closed = TRUE]
        /\ UNCHANGED <<streams, held, page>>
     \/ /\ Len(replay) <= ChanCap /\ ~es.done /\ es.live
        /\ session' = [session EXCEPT ![s].stage = "serving", ![s].buf = replay]
        /\ streams' = [streams EXCEPT ![i].subscribers = @ \cup {s}]
        /\ UNCHANGED <<held, page>>
     \/ /\ Len(replay) <= ChanCap /\ ~es.done /\ ~es.live
        /\ session' = [session EXCEPT ![s].stage = "panicked", ![s].up = FALSE]
        /\ page' = [page EXCEPT ![ClientOf[s]].stage = IF session[s].up THEN "failed" ELSE @]
        /\ held' = held \cup {i}
        /\ UNCHANGED streams

\* The rest of Subscribe, under the stream's mutex.
Subscribe(s) ==
  LET i == session[s].at
      es == streams[i]
  IN /\ session[s].stage = "subscribing" /\ i \notin held
     /\ \E k \in 1..(Len(es.events) + 1) :
          /\ ReplaysFrom(es.events, session[s].from, k)
          /\ Replayed(s, SubSeq(es.events, k, Len(es.events)))
     /\ UNCHANGED <<mapped, writer, counters>>

\* Cleanup keeps the manager's mutex while it waits for the stream's.
Cleanup ==
  LET i == Len(streams) IN
  /\ cleanups < MaxCleanups /\ Manager \notin held
  /\ cleanups' = cleanups + 1
  /\ IF mapped /\ i \in held
     THEN held' = held \cup {Manager} /\ UNCHANGED <<streams, mapped, session>>
     ELSE /\ mapped' = FALSE
          /\ IF mapped
             THEN /\ session' = Closed(session, streams[i].subscribers)
                  /\ streams' = [streams EXCEPT ![i] = [@ EXCEPT !.events = <<>>, !.live = FALSE,
                                                                 !.subscribers = {}]]
             ELSE UNCHANGED <<session, streams>>
          /\ UNCHANGED held
  /\ UNCHANGED <<writer, page, chunks, drops, reopens>>

-----------------------------------------------------------------------------
(* The writers: the worker's captureOutput and signalComplete, and Cancel *)

CallPublish ==
  /\ writer[Worker].stage = "ready" /\ chunks < MaxChunks
  /\ \E i \in 1..(Len(streams) + 1) :
       GetOrCreateStream(i) /\ writer' = [writer EXCEPT ![Worker] = [stage |-> "publish", at |-> i]]
  /\ chunks' = chunks + 1
  /\ UNCHANGED <<session, page, drops, reopens, cleanups>>

DoPublish ==
  /\ writer[Worker].stage = "publish" /\ writer[Worker].at \notin held
  /\ Publish(writer[Worker].at)
  /\ writer' = [writer EXCEPT ![Worker].stage = "ready"]
  /\ UNCHANGED <<mapped, held, page, counters>>

CallComplete(w) ==
  /\ writer[w].stage = "ready"
  /\ \E i \in 1..(Len(streams) + 1) :
       GetOrCreateStream(i) /\ writer' = [writer EXCEPT ![w] = [stage |-> "complete", at |-> i]]
  /\ UNCHANGED <<session, page, counters>>

DoComplete(w) ==
  /\ writer[w].stage = "complete" /\ writer[w].at \notin held
  /\ Complete(writer[w].at)
  /\ writer' = [writer EXCEPT ![w].stage = "returned"]
  /\ UNCHANGED <<mapped, held, page, counters>>

-----------------------------------------------------------------------------
(* The handler of a session *)

\* StreamExecution calls Subscribe, which gets the stream.
CallSubscribe(s) ==
  /\ session[s].stage = "requested"
  /\ \E i \in 1..(Len(streams) + 1) :
       /\ GetOrCreateStream(i)
       /\ session' = [session EXCEPT ![s].stage = "subscribing", ![s].at = i]
  /\ UNCHANGED <<writer, page, counters>>

InLoop(s) == session[s].stage \in {"serving", "replaying"}

\* An event is read from the channel and written to the connection; a page
\* shows an output event and closes its event source on the complete event.
\* What is written to a lost connection is lost.
Serve(s) ==
  LET event == Head(session[s].buf)
      c == ClientOf[s]
      over == event.event = "complete"
  IN /\ InLoop(s) /\ session[s].buf # <<>>
     /\ session' = [session EXCEPT ![s].buf = Tail(@), ![s].up = @ /\ ~over]
     /\ page' = IF session[s].up
                THEN [page EXCEPT ![c] = [stage |-> IF over THEN "finished" ELSE "live",
                                          shown |-> Append(@.shown, event.id),
                                          last |-> event.id]]
                ELSE page
     /\ UNCHANGED <<streams, mapped, held, writer, counters>>

\* The loop ends: the channel is closed and empty, or the client is gone.
EndLoop(s) ==
  /\ InLoop(s)
  /\ ~session[s].up \/ (session[s].closed /\ session[s].buf = <<>>)
  /\ session' = IF session[s].stage = "serving"
                THEN [session EXCEPT ![s].stage = "leaving"]
                ELSE [session EXCEPT ![s] = IdleSession]
  /\ UNCHANGED <<streams, mapped, held, writer, page, counters>>

\* The deferred unsubscribe; then the response ends and the slot is free.
Unsubscribe(s) ==
  LET i == session[s].at IN
  /\ session[s].stage = "leaving" /\ i \notin held
  /\ streams' = [streams EXCEPT ![i].subscribers = @ \ {s}]
  /\ session' = [session EXCEPT ![s] = IdleSession]
  /\ UNCHANGED <<mapped, held, writer, page, counters>>

-----------------------------------------------------------------------------
(* The page and the network *)

SessionsOf(c) == {s \in Session : ClientOf[s] = c}
Connected(c)  == \E s \in SessionsOf(c) : session[s].up

\* An event source makes its first request, or makes one again after its
\* connection ended, with the last id it received.
Request(s) ==
  LET c == ClientOf[s] IN
  /\ session[s].stage = "idle" /\ page[c].stage \in {"closed", "live"} /\ ~Connected(c)
  /\ session' = [session EXCEPT ![s] = [IdleSession EXCEPT !.stage = "requested",
                                          !.from = page[c].last, !.up = TRUE]]
  /\ page' = [page EXCEPT ![c].stage = "live"]
  /\ UNCHANGED <<streams, mapped, held, writer, counters>>

\* connectStream again on the same page, by the Reconnect button or because
\* the polled record changed: a new event source, the lines shown are kept.
Reopen(c) ==
  /\ page[c].stage \in {"live", "failed"} /\ reopens < MaxReopens
  /\ reopens' = reopens + 1
  /\ session' = [s \in Session |-> IF ClientOf[s] = c THEN [session[s] EXCEPT !.up = FALSE]
                                   ELSE session[s]]
  /\ page' = [page EXCEPT ![c].stage = "live", ![c].last = 0]
  /\ UNCHANGED <<streams, mapped, held, writer, chunks, drops, cleanups>>

\* The network loses a connection.
Drop(s) ==
  /\ session[s].up /\ drops < MaxDrops
  /\ session' = [session EXCEPT ![s].up = FALSE]
  /\ drops' = drops + 1
  /\ UNCHANGED <<streams, mapped, held, writer, page, chunks, reopens, cleanups>>

-----------------------------------------------------------------------------
Handle(s) == CallSubscribe(s) \/ Subscribe(s) \/ Serve(s) \/ EndLoop(s) \/ Unsubscribe(s)

Next ==
  \/ CallPublish \/ DoPublish
  \/ \E w \in Writer : CallComplete(w) \/ DoComplete(w)
  \/ \E s \in Session : Handle(s) \/ Request(s) \/ Drop(s)
  \/ \E c \in Client : Reopen(c)
  \/ Cleanup

Spec == Init /\ [][Next]_vars

\* A goroutine that can take a step takes it, the worker ends its stream, and
\* an event source tries again.  Nothing forces the network, a user's click, a
\* cancel request or a cleanup.
Fairness ==
  /\ WF_vars(DoPublish) /\ WF_vars(CallComplete(Worker))
  /\ \A w \in Writer : WF_vars(DoComplete(w))
  /\ \A s \in Session : WF_vars(Handle(s))
  /\ \A c \in Client : WF_vars(\E s \in SessionsOf(c) : Request(s))

FairSpec == Spec /\ Fairness
=============================================================================
