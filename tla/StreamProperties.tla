--------------------------- MODULE StreamProperties ---------------------------
(* What the stream of an execution must and is said to satisfy. *)
EXTENDS StreamManager

Event == [id : Nat, event : {"output", "complete"}]

StreamType ==
  [events : Seq(Event), nextID : Nat \ {0}, done : BOOLEAN, live : BOOLEAN,
   subscribers : SUBSET Session]

SessionType ==
  [stage : {"idle", "requested", "subscribing", "serving", "replaying", "leaving", "blocked", "panicked"},
   at : Nat, from : Nat, up : BOOLEAN, buf : Seq(Event), closed : BOOLEAN]

WriterType == [stage : {"ready", "publish", "complete", "returned"}, at : Nat]

PageType == [stage : {"closed", "live", "failed", "finished"}, shown : Seq(Nat), last : Nat]

\* Whoever works on a stream got it from getOrCreateStream, a subscriber is
\* in that stream's set only, and no channel holds more than its capacity.
TypeOK ==
  /\ streams \in Seq(StreamType) /\ mapped \in BOOLEAN
  /\ mapped => streams # <<>>
  /\ held \subseteq 0..Len(streams)
  /\ writer \in [Writer -> WriterType]
  /\ session \in [Session -> SessionType]
  /\ page \in [Client -> PageType]
  /\ chunks \in 0..MaxChunks /\ drops \in 0..MaxDrops
  /\ reopens \in 0..MaxReopens /\ cleanups \in 0..MaxCleanups
  /\ \A s \in Session :
       /\ Len(session[s].buf) <= ChanCap
       /\ session[s].stage \notin {"idle", "requested"} => session[s].at \in 1..Len(streams)
  /\ \A w \in Writer :
       writer[w].stage \in {"publish", "complete"} => writer[w].at \in 1..Len(streams)

-----------------------------------------------------------------------------
(* Safety *)

\* A registered subscriber's channel is open and its handler has not gone, so
\* that Publish, Complete, Cleanup and unsubscribe neither send on nor close a
\* closed channel: either is a panic, which ends the server when a worker
\* meets it (no goroutine recovers).
SubscribersAreOpen ==
  \A i \in 1..Len(streams) : \A s \in streams[i].subscribers :
    /\ ~session[s].closed
    /\ session[s].stage \in {"serving", "leaving"}
    /\ session[s].at = i

\* A handler that waits on an open channel is registered in the stream that
\* feeds it: nobody waits for events that cannot come.
NobodyIsForgotten ==
  \A s \in Session :
    session[s].stage = "serving" /\ ~session[s].closed
      => s \in streams[session[s].at].subscribers

WellNumbered(es) ==
  \A j \in 1..Len(es.events) :
    /\ es.events[j].id = es.nextID - 1 - Len(es.events) + j
    /\ (es.events[j].event = "complete") <=> (es.done /\ j = Len(es.events))

\* The ids of a buffer are consecutive up to the last one given, and a
\* complete event is the last of a stream that is done: the ids that replay
\* starts from mean the same to every reader.
BufferIsTheTail == \A i \in 1..Len(streams) : WellNumbered(streams[i])

Increasing(ids) == \A j \in 1..Len(ids) : \A k \in 1..(j - 1) : ids[k] < ids[j]

\* No page shows an event twice or out of order, across lost connections,
\* replays racing publications, and events dropped by a full channel.  A new
\* event source on the same page starts over, and so does a stream that was
\* cleaned up.
ShownInOrder ==
  reopens = 0 /\ cleanups = 0 => \A c \in Client : Increasing(page[c].shown)

\* A page that finished was shown the last event there will ever be: nothing
\* is published behind the complete event, by whichever of the worker and the
\* cancel requests it was sent.
FinishedWithTheLast ==
  cleanups = 0 =>
    \A c \in Client :
      page[c].stage = "finished" => page[c].last = streams[Len(streams)].nextID - 1

\* Property 15 (design.md:902-904), as far as the code goes: while a stream has
\* no more events than a channel holds, what a page was shown is the log from
\* its beginning, whatever happened to its connections.
NothingLostWhileItFits ==
  (reopens = 0 /\ cleanups = 0 /\ streams # <<>> /\ streams[1].nextID - 1 <= ChanCap)
    => \A c \in Client : \A j \in 1..Len(page[c].shown) : page[c].shown[j] = j

-----------------------------------------------------------------------------
(* Liveness *)

\* A page that keeps its event source sees the end of a stream that ended, even
\* when its channel was too full for the complete event, unless a Subscribe is
\* stuck with a replay too long for its channel.
PagesFinish ==
  \A c \in Client :
    (page[c].stage = "live" /\ streams # <<>> /\ streams[Len(streams)].done)
      ~> (page[c].stage = "finished" \/ held # {})

\* manager.go:162, "skip to avoid blocking": the worker's Publish returns,
\* whatever the subscribers do.
PublishReturns == (writer[Worker].stage = "publish") ~> (writer[Worker].stage # "publish")

-----------------------------------------------------------------------------
(* What it implements *)

\* The log of the first stream: how many events there have been, and whether
\* the last of them was its end.
Length == IF streams = <<>> THEN 0 ELSE streams[1].nextID - 1
Sealed == IF streams = <<>> THEN FALSE ELSE streams[1].done

Log == INSTANCE StreamLog WITH
  Viewer <- Client,
  length <- Length,
  sealed <- Sealed,
  shown  <- [c \in Client |-> page[c].shown],
  over   <- [c \in Client |-> page[c].stage = "finished"]

\* The pages are viewers of one log: they are shown its events in order, and
\* finish with its last.
ImplementsLog == Log!Spec

=============================================================================
