----------------------------- MODULE StreamProofs -----------------------------
(* Theorems about the output stream, for any pages, requests and cancel *)
(* requests, any capacities and any bounds. *)
EXTENDS StreamProperties, SequenceTheorems, TLAPS

-----------------------------------------------------------------------------
(* Streams and channels as data *)

\* The conjuncts of TypeOK that the lemmas below need.
Typed ==
  /\ streams \in Seq(StreamType) /\ mapped \in BOOLEAN
  /\ mapped => streams # <<>>
  /\ held \subseteq 0..Len(streams)
  /\ session \in [Session -> SessionType]
  /\ \A s \in Session : Len(session[s].buf) <= ChanCap

LEMMA EmptyStreamType == EmptyStream \in StreamType
BY EmptySeq DEF EmptyStream, StreamType

LEMMA IdleSessionType == IdleSession \in SessionType /\ Len(IdleSession.buf) = 0
BY EmptySeq DEF IdleSession, SessionType

\* The caller gets a stream of the sequence, which keeps every older one.
LEMMA GotStream ==
  ASSUME Typed, NEW i \in 1..(Len(streams) + 1), GetOrCreateStream(i)
  PROVE  /\ streams' \in Seq(StreamType)
         /\ i \in 1..Len(streams')
         /\ Len(streams) <= Len(streams')
         /\ \A j \in 1..Len(streams) : streams'[j] = streams[j]
         /\ \A j \in 1..Len(streams') : j > Len(streams) => streams'[j] = EmptyStream
         /\ streams' # <<>> /\ mapped' = TRUE /\ held' = held
         /\ held \subseteq 0..Len(streams')
<1>1. Len(streams) \in Nat
  BY LenProperties DEF Typed
<1>2. CASE mapped
  BY <1>1, <1>2 DEF Typed, GetOrCreateStream
<1>3. CASE ~mapped
  <2>1. i = Len(streams) + 1 /\ streams' = Append(streams, EmptyStream)
    BY <1>3 DEF GetOrCreateStream
  <2>2. /\ streams' \in Seq(StreamType) /\ streams' # <<>>
        /\ Len(streams') = Len(streams) + 1
        /\ \A j \in 1..Len(streams) : streams'[j] = streams[j]
        /\ streams'[Len(streams) + 1] = EmptyStream
    BY <2>1, AppendProperties, EmptyStreamType DEF Typed
  <2>3. \A j \in 1..Len(streams') : j > Len(streams) => j = Len(streams) + 1
    BY <1>1, <2>2
  <2> QED
    BY <1>1, <2>1, <2>2, <2>3 DEF Typed, GetOrCreateStream
<1> QED
  BY <1>2, <1>3

\* A step that replaces one stream.
LEMMA StreamReplaced ==
  ASSUME Typed, NEW i \in 1..Len(streams), NEW es \in StreamType,
         streams' = [streams EXCEPT ![i] = es]
  PROVE  /\ streams' \in Seq(StreamType)
         /\ Len(streams') = Len(streams)
         /\ streams' # <<>>
         /\ streams'[i] = es
         /\ \A j \in 1..Len(streams) : j # i => streams'[j] = streams[j]
<1>1. /\ streams' \in Seq(StreamType) /\ Len(streams') = Len(streams)
      /\ \A j \in 1..Len(streams) : streams'[j] = IF j = i THEN es ELSE streams[j]
  BY ExceptSeq DEF Typed
<1>2. streams' # <<>>
  BY <1>1, EmptySeq
<1> QED
  BY <1>1, <1>2

\* The non-blocking send leaves everything of a session but its channel's
\* content, to which it adds at most the event, and never beyond the capacity.
LEMMA Offered ==
  ASSUME Typed, NEW ss, NEW event \in Event
  PROVE  /\ Offer(ss, event) \in [Session -> SessionType]
         /\ \A s \in Session :
              LET t == Offer(ss, event)[s] IN
              /\ Len(t.buf) <= ChanCap
              /\ t.stage = session[s].stage /\ t.at = session[s].at
              /\ t.closed = session[s].closed /\ t.up = session[s].up
              /\ \/ t.buf = session[s].buf
                 \/ s \in ss /\ t.buf = Append(session[s].buf, event)
<1> DEFINE t(s) == IF s \in ss /\ Len(session[s].buf) < ChanCap
                   THEN [session[s] EXCEPT !.buf = Append(@, event)] ELSE session[s]
<1>1. Offer(ss, event) = [s \in Session |-> t(s)]
  BY DEF Offer
<1>2. ASSUME NEW s \in Session
      PROVE  /\ t(s) \in SessionType
             /\ Len(t(s).buf) <= ChanCap
             /\ t(s).stage = session[s].stage /\ t(s).at = session[s].at
             /\ t(s).closed = session[s].closed /\ t(s).up = session[s].up
             /\ \/ t(s).buf = session[s].buf
                \/ s \in ss /\ t(s).buf = Append(session[s].buf, event)
  <2>1. /\ session[s] \in SessionType /\ session[s].buf \in Seq(Event)
        /\ Len(session[s].buf) <= ChanCap
    BY DEF Typed, SessionType
  <2>2. /\ Append(session[s].buf, event) \in Seq(Event)
        /\ Len(Append(session[s].buf, event)) = Len(session[s].buf) + 1
        /\ Len(session[s].buf) \in Nat
    BY <2>1, AppendProperties, LenProperties
  <2>3. CASE s \in ss /\ Len(session[s].buf) < ChanCap
    <3>1. t(s) = [session[s] EXCEPT !.buf = Append(session[s].buf, event)]
      BY <2>3
    <3>2. Len(session[s].buf) + 1 <= ChanCap
      BY <2>2, <2>3, BoundsAssumption
    <3> QED
      BY <2>1, <2>2, <2>3, <3>1, <3>2 DEF SessionType
  <2>4. CASE ~(s \in ss /\ Len(session[s].buf) < ChanCap)
    BY <2>1, <2>4
  <2> QED
    BY <2>3, <2>4
<1> HIDE DEF t
<1>3. \A s \in Session : Offer(ss, event)[s] = t(s)
  BY <1>1
<1>4. Offer(ss, event) \in [Session -> SessionType]
  BY <1>1, <1>2
<1> QED
  BY <1>2, <1>3, <1>4

\* Closing channels changes nothing else.
LEMMA ClosedChannels ==
  ASSUME NEW channels \in [Session -> SessionType], NEW ss
  PROVE  /\ Closed(channels, ss) \in [Session -> SessionType]
         /\ \A s \in Session :
              LET t == Closed(channels, ss)[s] IN
              /\ t.closed = (channels[s].closed \/ s \in ss)
              /\ t.stage = channels[s].stage /\ t.at = channels[s].at
              /\ t.buf = channels[s].buf /\ t.up = channels[s].up
<1>1. \A s \in Session : channels[s] \in SessionType
  OBVIOUS
<1>2. \A s \in Session :
        /\ Closed(channels, ss)[s] = [channels[s] EXCEPT !.closed = @ \/ s \in ss]
        /\ (channels[s].closed \/ s \in ss) \in BOOLEAN
  BY <1>1 DEF Closed, SessionType
<1>3. \A s \in Session :
        /\ Closed(channels, ss)[s] \in SessionType
        /\ LET t == Closed(channels, ss)[s] IN
           /\ t.closed = (channels[s].closed \/ s \in ss)
           /\ t.stage = channels[s].stage /\ t.at = channels[s].at
           /\ t.buf = channels[s].buf /\ t.up = channels[s].up
  <2> SUFFICES ASSUME NEW s \in Session
               PROVE  LET t == Closed(channels, ss)[s] IN
                      /\ t \in SessionType
                      /\ t.closed = (channels[s].closed \/ s \in ss)
                      /\ t.stage = channels[s].stage /\ t.at = channels[s].at
                      /\ t.buf = channels[s].buf /\ t.up = channels[s].up
    OBVIOUS
  <2> DEFINE old == channels[s]
             closed == old.closed \/ s \in ss
  <2>1. old \in SessionType /\ closed \in BOOLEAN
    BY <1>1, <1>2
  <2>2. Closed(channels, ss)[s] = [old EXCEPT !.closed = closed]
    BY <1>2
  <2> HIDE DEF closed, old
  <2>3. /\ [old EXCEPT !.closed = closed] \in SessionType
        /\ [old EXCEPT !.closed = closed].closed = closed
        /\ [old EXCEPT !.closed = closed].stage = old.stage
        /\ [old EXCEPT !.closed = closed].at = old.at
        /\ [old EXCEPT !.closed = closed].buf = old.buf
        /\ [old EXCEPT !.closed = closed].up = old.up
    BY <2>1 DEF SessionType
  <2> QED
    BY <2>2, <2>3 DEF closed, old
<1>4. Closed(channels, ss) \in [Session -> SessionType]
  BY <1>3 DEF Closed
<1> QED
  BY <1>3, <1>4

LEMMA TrimmedEvents ==
  ASSUME NEW events \in Seq(Event)
  PROVE  /\ Trimmed(events) \in Seq(Event)
         /\ \E d \in 0..Len(events) :
              /\ Len(Trimmed(events)) = Len(events) - d
              /\ \A j \in 1..(Len(events) - d) : Trimmed(events)[j] = events[j + d]
<1>1. Len(events) \in Nat /\ MaxBuffered \in Nat \ {0}
  BY LenProperties, BoundsAssumption
<1>2. CASE Len(events) > MaxBuffered
  <2> DEFINE m == Len(events) - MaxBuffered + 1
             t == SubSeq(events, m, Len(events))
  <2>1. m \in 1..Len(events) /\ m \in Int /\ Len(events) \in Int
    BY <1>1, <1>2
  <2>2. \A j \in m..Len(events) : events[j] \in Event
    BY <2>1, ElementOfSeq
  <2>3. /\ t \in Seq(Event)
        /\ Len(t) = Len(events) - m + 1
        /\ \A j \in 1..(Len(events) - m + 1) : t[j] = events[m + j - 1]
    BY <2>1, <2>2, SubSeqProperties
  <2>4. Trimmed(events) = t
    BY <1>2 DEF Trimmed
  <2>5. \A j \in 1..(Len(events) - (m - 1)) : t[j] = events[j + (m - 1)]
    BY <2>1, <2>3
  <2>6. m - 1 \in 0..Len(events) /\ Len(t) = Len(events) - (m - 1)
    BY <2>1, <2>3
  <2> HIDE DEF m, t
  <2> QED
    BY <2>3, <2>4, <2>5, <2>6
<1>3. CASE ~(Len(events) > MaxBuffered)
  <2>1. Trimmed(events) = events
    BY <1>3 DEF Trimmed
  <2>2. 0 \in 0..Len(events) /\ Len(events) = Len(events) - 0
    BY <1>1
  <2>3. \A j \in 1..(Len(events) - 0) : events[j] = events[j + 0]
    BY <1>1
  <2> QED
    BY <2>1, <2>2, <2>3
<1> QED
  BY <1>2, <1>3

\* Publish leaves a stream that is done alone, and numbers on otherwise.
LEMMA PublishedStream ==
  ASSUME Typed, NEW i \in 1..Len(streams), Publish(i)
  PROVE  /\ streams' \in Seq(StreamType) /\ Len(streams') = Len(streams)
         /\ streams' # <<>>
         /\ streams[i].done => UNCHANGED <<streams, session>>
         /\ \A j \in 1..Len(streams) : j # i => streams'[j] = streams[j]
         /\ streams'[i].done = streams[i].done
         /\ streams'[i].subscribers = streams[i].subscribers
         /\ ~streams[i].done =>
              /\ streams'[i].nextID = streams[i].nextID + 1
              /\ streams'[i].events = Trimmed(Append(streams[i].events,
                                         [id |-> streams[i].nextID, event |-> "output"]))
<1> DEFINE es == streams[i]
           event == [id |-> es.nextID, event |-> "output"]
           new == [es EXCEPT !.nextID = es.nextID + 1,
                             !.events = Trimmed(Append(es.events, event))]
<1>1. es \in StreamType
  BY ElementOfSeq DEF Typed
<1>2. event \in Event /\ es.events \in Seq(Event) /\ es.nextID + 1 \in Nat \ {0}
  BY <1>1 DEF StreamType, Event
<1>3. Trimmed(Append(es.events, event)) \in Seq(Event)
  BY <1>2, AppendProperties, TrimmedEvents
<1>4. /\ new \in StreamType
      /\ new.done = es.done /\ new.subscribers = es.subscribers
      /\ new.nextID = es.nextID + 1
      /\ new.events = Trimmed(Append(es.events, event))
  <2> DEFINE n == es.nextID + 1
             tr == Trimmed(Append(es.events, event))
  <2>1. n \in Nat \ {0} /\ tr \in Seq(Event)
    BY <1>2, <1>3
  <2> HIDE DEF n, tr
  <2>2. LET x == [es EXCEPT !.nextID = n, !.events = tr]
        IN  /\ x \in StreamType
            /\ x.done = es.done /\ x.subscribers = es.subscribers
            /\ x.nextID = n /\ x.events = tr
    BY <1>1, <2>1 DEF StreamType
  <2> QED
    BY <2>2 DEF n, tr
<1>5. CASE es.done
  <2>1. UNCHANGED <<streams, session>>
    BY <1>5 DEF Publish
  <2>2. streams # <<>>
    BY EmptySeq
  <2> QED
    BY <1>5, <2>1, <2>2 DEF Typed
<1>6. CASE ~es.done
  <2>1. streams' = [streams EXCEPT ![i] = new]
    BY <1>6 DEF Publish
  <2> HIDE DEF new
  <2>2. /\ streams' \in Seq(StreamType) /\ Len(streams') = Len(streams)
        /\ streams' # <<>> /\ streams'[i] = new
        /\ \A j \in 1..Len(streams) : j # i => streams'[j] = streams[j]
    BY <1>4, <2>1, StreamReplaced
  <2> QED
    BY <1>4, <1>6, <2>2
<1> QED
  BY <1>5, <1>6

LEMMA PublishedSessions ==
  ASSUME Typed, NEW i \in 1..Len(streams), Publish(i)
  PROVE  /\ session' \in [Session -> SessionType]
         /\ \A s \in Session :
              /\ Len(session'[s].buf) <= ChanCap
              /\ session'[s].stage = session[s].stage /\ session'[s].at = session[s].at
              /\ session'[s].closed = session[s].closed
              /\ \/ session'[s].buf = session[s].buf
                 \/ /\ s \in streams[i].subscribers
                    /\ session'[s].buf = Append(session[s].buf,
                                            [id |-> streams[i].nextID, event |-> "output"])
<1> DEFINE event == [id |-> streams[i].nextID, event |-> "output"]
<1>1. event \in Event
  <2>1. streams[i] \in StreamType
    BY ElementOfSeq DEF Typed
  <2> QED
    BY <2>1 DEF StreamType, Event
<1>2. CASE streams[i].done
  <2>1. session' = session
    BY <1>2 DEF Publish
  <2> QED
    BY <2>1 DEF Typed
<1>3. CASE ~streams[i].done
  <2>1. session' = Offer(streams[i].subscribers, event)
    BY <1>3 DEF Publish
  <2> HIDE DEF event
  <2>2. session' \in [Session -> SessionType]
    BY <1>1, <2>1, Offered
  <2>3. \A s \in Session :
              /\ Len(session'[s].buf) <= ChanCap
              /\ session'[s].stage = session[s].stage /\ session'[s].at = session[s].at
              /\ session'[s].closed = session[s].closed
              /\ \/ session'[s].buf = session[s].buf
                 \/ /\ s \in streams[i].subscribers
                    /\ session'[s].buf = Append(session[s].buf, event)
    BY <1>1, <2>1, Offered
  <2> QED
    BY <2>2, <2>3 DEF event
<1> QED
  BY <1>2, <1>3

\* Complete leaves a stream that is done alone; it closes the channels of all
\* subscribers of any other and forgets them.
LEMMA CompletedStream ==
  ASSUME Typed, NEW i \in 1..Len(streams), Complete(i)
  PROVE  /\ streams' \in Seq(StreamType) /\ Len(streams') = Len(streams)
         /\ streams' # <<>>
         /\ streams[i].done => UNCHANGED <<streams, session>>
         /\ \A j \in 1..Len(streams) : j # i => streams'[j] = streams[j]
         /\ ~streams[i].done =>
              /\ streams'[i].done /\ streams'[i].subscribers = {}
              /\ streams'[i].nextID = streams[i].nextID + 1
              /\ streams'[i].events = Append(streams[i].events,
                                         [id |-> streams[i].nextID, event |-> "complete"])
<1> DEFINE es == streams[i]
           event == [id |-> es.nextID, event |-> "complete"]
           new == [events |-> Append(es.events, event), nextID |-> es.nextID + 1,
                   done |-> TRUE, live |-> TRUE, subscribers |-> {}]
<1>1. es \in StreamType
  BY ElementOfSeq DEF Typed
<1>2. event \in Event /\ es.events \in Seq(Event) /\ es.nextID + 1 \in Nat \ {0}
  BY <1>1 DEF StreamType, Event
<1>3. Append(es.events, event) \in Seq(Event)
  BY <1>2, AppendProperties
<1>4. new \in StreamType
  BY <1>2, <1>3 DEF StreamType
<1>5. CASE es.done
  <2>1. UNCHANGED <<streams, session>>
    BY <1>5 DEF Complete
  <2>2. streams # <<>>
    BY EmptySeq
  <2> QED
    BY <1>5, <2>1, <2>2 DEF Typed
<1>6. CASE ~es.done
  <2>1. streams' = [streams EXCEPT ![i] = new]
    BY <1>6 DEF Complete, Completed
  <2>2. /\ new.done /\ new.subscribers = {} /\ new.nextID = es.nextID + 1
        /\ new.events = Append(es.events, event)
    OBVIOUS
  <2> HIDE DEF new
  <2>3. /\ streams' \in Seq(StreamType) /\ Len(streams') = Len(streams)
        /\ streams' # <<>> /\ streams'[i] = new
        /\ \A j \in 1..Len(streams) : j # i => streams'[j] = streams[j]
    BY <1>4, <2>1, StreamReplaced
  <2> QED
    BY <1>6, <2>2, <2>3
<1> QED
  BY <1>5, <1>6

LEMMA CompletedSessions ==
  ASSUME Typed, NEW i \in 1..Len(streams), Complete(i)
  PROVE  /\ session' \in [Session -> SessionType]
         /\ \A s \in Session :
              /\ Len(session'[s].buf) <= ChanCap
              /\ session'[s].stage = session[s].stage /\ session'[s].at = session[s].at
              /\ ~streams[i].done => session'[s].closed =
                                        (session[s].closed \/ s \in streams[i].subscribers)
              /\ \/ session'[s].buf = session[s].buf
                 \/ /\ s \in streams[i].subscribers
                    /\ session'[s].buf = Append(session[s].buf,
                                            [id |-> streams[i].nextID, event |-> "complete"])
<1> DEFINE event == [id |-> streams[i].nextID, event |-> "complete"]
           ss == streams[i].subscribers
           offered == Offer(ss, event)
<1>1. event \in Event
  <2>1. streams[i] \in StreamType
    BY ElementOfSeq DEF Typed
  <2> QED
    BY <2>1 DEF StreamType, Event
<1>2. CASE streams[i].done
  <2>1. session' = session
    BY <1>2 DEF Complete
  <2> QED
    BY <1>2, <2>1 DEF Typed
<1>3. CASE ~streams[i].done
  <2>1. session' = Closed(offered, ss)
    BY <1>3 DEF Complete
  <2> HIDE DEF event
  <2>2. /\ offered \in [Session -> SessionType]
        /\ \A s \in Session :
              /\ Len(offered[s].buf) <= ChanCap
              /\ offered[s].stage = session[s].stage /\ offered[s].at = session[s].at
              /\ offered[s].closed = session[s].closed
              /\ \/ offered[s].buf = session[s].buf
                 \/ s \in ss /\ offered[s].buf = Append(session[s].buf, event)
    BY <1>1, Offered
  <2> HIDE DEF offered, ss
  <2>3. /\ session' \in [Session -> SessionType]
        /\ \A s \in Session :
              /\ session'[s].closed = (offered[s].closed \/ s \in ss)
              /\ session'[s].stage = offered[s].stage /\ session'[s].at = offered[s].at
              /\ session'[s].buf = offered[s].buf
    BY <2>1, <2>2, ClosedChannels
  <2> QED
    BY <2>2, <2>3 DEF ss, event
<1> QED
  BY <1>2, <1>3

-----------------------------------------------------------------------------
(* Type correctness *)

LEMMA TypeOKTyped == TypeOK => Typed
BY DEF TypeOK, Typed

LEMMA TypeInit == Init => TypeOK
<1> SUFFICES ASSUME Init PROVE TypeOK
  OBVIOUS
<1>1. streams \in Seq(StreamType) /\ Len(streams) = 0
  BY EmptySeq DEF Init
<1>2. session \in [Session -> SessionType]
  BY IdleSessionType DEF Init
<1>3. \A s \in Session : Len(session[s].buf) <= ChanCap /\ session[s].stage = "idle"
  BY IdleSessionType, BoundsAssumption DEF Init, IdleSession
<1>4. writer \in [Writer -> WriterType] /\ \A w \in Writer : writer[w].stage = "ready"
  BY DEF Init, WriterType
<1>5. page \in [Client -> PageType]
  BY EmptySeq DEF Init, PageType
<1>6. /\ MaxChunks \in Nat /\ MaxDrops \in Nat
      /\ MaxReopens \in Nat /\ MaxCleanups \in Nat
  BY BoundsAssumption
<1>7. /\ chunks \in 0..MaxChunks /\ drops \in 0..MaxDrops
      /\ reopens \in 0..MaxReopens /\ cleanups \in 0..MaxCleanups
  BY <1>6 DEF Init
<1>8. mapped = FALSE /\ held = {}
  BY DEF Init
<1> QED
  BY <1>1, <1>2, <1>3, <1>4, <1>5, <1>7, <1>8 DEF TypeOK

\* A step that gets a stream for a writer or for a session.
LEMMA GotStreamWriter ==
  ASSUME TypeOK, NEW i \in 1..(Len(streams) + 1), GetOrCreateStream(i),
         NEW w \in Writer, NEW stage \in {"publish", "complete"},
         writer' = [writer EXCEPT ![w] = [stage |-> stage, at |-> i]],
         UNCHANGED <<session, page, drops, reopens, cleanups>>,
         chunks' \in 0..MaxChunks
  PROVE  TypeOK'
<1>1. Len(streams) \in Nat
  BY LenProperties DEF TypeOK
<1>2. /\ streams' \in Seq(StreamType)
      /\ i \in 1..Len(streams')
      /\ Len(streams) <= Len(streams')
      /\ streams' # <<>> /\ mapped' = TRUE /\ held' = held
      /\ held \subseteq 0..Len(streams')
  BY GotStream, TypeOKTyped
<1>3. Len(streams') \in Nat
  BY <1>2, LenProperties
<1>4. i \in Nat
  BY <1>1
<1>5. writer' \in [Writer -> WriterType]
  BY <1>4 DEF TypeOK, WriterType
<1>6. \A v \in Writer :
        writer'[v].stage \in {"publish", "complete"} => writer'[v].at \in 1..Len(streams')
  BY <1>1, <1>2, <1>3 DEF TypeOK
<1>7. \A s \in Session :
        session'[s].stage \notin {"idle", "requested"} => session'[s].at \in 1..Len(streams')
  BY <1>1, <1>2, <1>3 DEF TypeOK
<1> QED
  BY <1>2, <1>5, <1>6, <1>7 DEF TypeOK

\* A step of one session that keeps the streams and their indices.
LEMMA SessionStep ==
  ASSUME TypeOK, NEW s \in Session, NEW t \in SessionType,
         session' = [session EXCEPT ![s] = t], Len(t.buf) <= ChanCap,
         t.stage \notin {"idle", "requested"} => t.at \in 1..Len(streams),
         streams' \in Seq(StreamType), Len(streams') = Len(streams),
         mapped' = mapped, mapped => streams' # <<>>,
         held' \subseteq 0..Len(streams),
         page' \in [Client -> PageType],
         writer' = writer,
         chunks' = chunks, drops' \in 0..MaxDrops, reopens' = reopens, cleanups' = cleanups
  PROVE  TypeOK'
<1>1. session' \in [Session -> SessionType]
  BY DEF TypeOK
<1>2. \A v \in Session :
        /\ Len(session'[v].buf) <= ChanCap
        /\ session'[v].stage \notin {"idle", "requested"} => session'[v].at \in 1..Len(streams)
  BY DEF TypeOK
<1> QED
  BY <1>1, <1>2 DEF TypeOK

LEMMA SessionFields ==
  ASSUME TypeOK, NEW s \in Session
  PROVE  /\ session[s] \in SessionType
         /\ session[s].buf \in Seq(Event) /\ Len(session[s].buf) <= ChanCap
         /\ session[s].up \in BOOLEAN
         /\ session[s].stage \notin {"idle", "requested"} =>
              /\ session[s].at \in 1..Len(streams)
              /\ streams[session[s].at] \in StreamType
<1>1. session[s] \in SessionType
  BY DEF TypeOK
<1> QED
  BY <1>1, ElementOfSeq DEF TypeOK, SessionType

\* What Subscribe does to the types, for each of its outcomes.
LEMMA ReplayedType ==
  ASSUME TypeOK, NEW s \in Session, session[s].stage = "subscribing",
         NEW replay \in Seq(Event), Replayed(s, replay),
         UNCHANGED <<mapped, writer, counters>>
  PROVE  TypeOK'
<1> DEFINE i == session[s].at
           es == streams[i]
<1>1. /\ session[s] \in SessionType /\ i \in 1..Len(streams) /\ es \in StreamType
      /\ Len(session[s].buf) <= ChanCap
  BY SessionFields
<1>2. /\ page \in [Client -> PageType] /\ held \subseteq 0..Len(streams)
      /\ streams \in Seq(StreamType) /\ drops \in 0..MaxDrops
      /\ mapped => streams # <<>>
  BY DEF TypeOK
<1>3. Len(streams) \in Nat /\ ChanCap \in Nat \ {0}
  BY <1>2, LenProperties, BoundsAssumption
<1>4. i \in 0..Len(streams)
  BY <1>1, <1>3
<1> USE DEF counters
<1>5. CASE /\ Len(replay) > ChanCap
           /\ session' = [session EXCEPT ![s].stage = "blocked",
                                         ![s].buf = SubSeq(replay, 1, ChanCap)]
           /\ held' = held \cup {i}
           /\ UNCHANGED <<streams, page>>
  <2> DEFINE b == SubSeq(replay, 1, ChanCap)
             t == [session[s] EXCEPT !.stage = "blocked", !.buf = b]
  <2>1. \A j \in 1..ChanCap : replay[j] \in Event
    <3>1. Len(replay) \in Nat
      BY LenProperties
    <3>2. \A j \in 1..ChanCap : j \in 1..Len(replay)
      BY <1>3, <1>5, <3>1
    <3> QED
      BY <3>2, ElementOfSeq
  <2>2. b \in Seq(Event) /\ Len(b) = ChanCap
    BY <1>3, <2>1, SubSeqProperties
  <2>3. session' = [session EXCEPT ![s] = t]
    BY <1>5 DEF TypeOK
  <2> HIDE DEF b
  <2>4. /\ t \in SessionType /\ Len(t.buf) <= ChanCap
        /\ t.at \in 1..Len(streams)
    <3>1. t \in SessionType /\ t.buf = b /\ t.at = i
      BY <1>1, <2>2 DEF SessionType
    <3> QED
      BY <1>1, <1>3, <2>2, <3>1
  <2>5. held' \subseteq 0..Len(streams)
    BY <1>2, <1>4, <1>5
  <2> HIDE DEF t
  <2> QED
    BY <1>2, <1>5, <2>3, <2>4, <2>5, SessionStep
<1>6. CASE /\ Len(replay) <= ChanCap
           /\ session' = [session EXCEPT ![s].stage = "replaying", ![s].buf = replay,
                                         ![s].closed = TRUE]
           /\ UNCHANGED <<streams, held, page>>
  <2> DEFINE t == [session[s] EXCEPT !.stage = "replaying", !.buf = replay, !.closed = TRUE]
  <2>1. session' = [session EXCEPT ![s] = t]
    BY <1>6 DEF TypeOK
  <2>2. /\ t \in SessionType /\ Len(t.buf) <= ChanCap
        /\ t.at \in 1..Len(streams)
    BY <1>1, <1>6 DEF SessionType
  <2> HIDE DEF t
  <2> QED
    BY <1>2, <1>6, <2>1, <2>2, SessionStep
<1>7. CASE /\ Len(replay) <= ChanCap
           /\ session' = [session EXCEPT ![s].stage = "serving", ![s].buf = replay]
           /\ streams' = [streams EXCEPT ![i].subscribers = @ \cup {s}]
           /\ UNCHANGED <<held, page>>
  <2> DEFINE t == [session[s] EXCEPT !.stage = "serving", !.buf = replay]
             new == [es EXCEPT !.subscribers = es.subscribers \cup {s}]
  <2>1. session' = [session EXCEPT ![s] = t]
    BY <1>7 DEF TypeOK
  <2>2. /\ t \in SessionType /\ Len(t.buf) <= ChanCap
        /\ t.at \in 1..Len(streams)
    BY <1>1, <1>7 DEF SessionType
  <2>3. new \in StreamType
    BY <1>1 DEF StreamType
  <2>4. streams' = [streams EXCEPT ![i] = new]
    BY <1>1, <1>2, <1>7
  <2> HIDE DEF t, new, es, i
  <2>5. /\ streams' \in Seq(StreamType) /\ Len(streams') = Len(streams)
        /\ streams' # <<>>
    BY <1>1, <2>3, <2>4, StreamReplaced, TypeOKTyped
  <2>6. t.stage \notin {"idle", "requested"} => t.at \in 1..Len(streams)
    BY <2>2
  <2> QED
    BY <1>2, <1>7, <2>1, <2>2, <2>5, <2>6, SessionStep
<1>8. CASE /\ session' = [session EXCEPT ![s].stage = "panicked", ![s].up = FALSE]
           /\ page' = [page EXCEPT ![ClientOf[s]].stage = IF session[s].up THEN "failed" ELSE @]
           /\ held' = held \cup {i}
           /\ UNCHANGED streams
  <2> DEFINE t == [session[s] EXCEPT !.stage = "panicked", !.up = FALSE]
  <2>1. session' = [session EXCEPT ![s] = t]
    BY <1>8 DEF TypeOK
  <2>2. /\ t \in SessionType /\ Len(t.buf) <= ChanCap
        /\ t.at \in 1..Len(streams)
    BY <1>1 DEF SessionType
  <2>3. page' \in [Client -> PageType]
    BY <1>2, <1>8 DEF PageType
  <2>4. held' \subseteq 0..Len(streams)
    BY <1>2, <1>4, <1>8
  <2> HIDE DEF t
  <2> QED
    BY <1>2, <1>8, <2>1, <2>2, <2>3, <2>4, SessionStep
<1> QED
  BY <1>5, <1>6, <1>7, <1>8 DEF Replayed

LEMMA TypeStep == TypeOK /\ [Next]_vars => TypeOK'
<1> SUFFICES ASSUME TypeOK, [Next]_vars PROVE TypeOK'
  OBVIOUS
<1> USE DEF counters
<1>a. /\ Len(streams) \in Nat /\ streams \in Seq(StreamType) /\ Typed
      /\ held \subseteq 0..Len(streams)
      /\ page \in [Client -> PageType] /\ drops \in 0..MaxDrops
      /\ mapped => streams # <<>>
  BY LenProperties, TypeOKTyped DEF TypeOK
<1>b. /\ MaxChunks \in Nat /\ MaxDrops \in Nat
      /\ MaxReopens \in Nat /\ MaxCleanups \in Nat
  BY BoundsAssumption
<1>c. 0 <= ChanCap /\ Len(IdleSession.buf) <= ChanCap
  BY IdleSessionType, BoundsAssumption
<1>1. ASSUME CallPublish PROVE TypeOK'
  <2>1. PICK i \in 1..(Len(streams) + 1) :
          /\ GetOrCreateStream(i)
          /\ writer' = [writer EXCEPT ![Worker] = [stage |-> "publish", at |-> i]]
    BY <1>1 DEF CallPublish
  <2>2. chunks' \in 0..MaxChunks
    BY <1>1, <1>b DEF CallPublish, TypeOK
  <2>3. Worker \in Writer
    BY DEF Writer
  <2> QED
    BY <1>1, <2>1, <2>2, <2>3, GotStreamWriter DEF CallPublish
<1>2. ASSUME DoPublish PROVE TypeOK'
  <2> DEFINE i == writer[Worker].at
  <2>1. Worker \in Writer
    BY DEF Writer
  <2>2. i \in 1..Len(streams)
    BY <1>2, <2>1 DEF DoPublish, TypeOK
  <2>3. Publish(i)
    BY <1>2 DEF DoPublish
  <2> HIDE DEF i
  <2>4. /\ streams' \in Seq(StreamType) /\ Len(streams') = Len(streams) /\ streams' # <<>>
        /\ session' \in [Session -> SessionType]
        /\ \A s \in Session :
              /\ Len(session'[s].buf) <= ChanCap
              /\ session'[s].stage = session[s].stage /\ session'[s].at = session[s].at
    BY <1>a, <2>2, <2>3, PublishedStream, PublishedSessions
  <2>5. /\ writer' \in [Writer -> WriterType]
        /\ \A w \in Writer : writer'[w].stage \in {"publish", "complete"} =>
                             writer'[w].at \in 1..Len(streams)
    BY <1>2, <2>1 DEF DoPublish, TypeOK, WriterType
  <2> QED
    BY <1>2, <2>4, <2>5 DEF DoPublish, TypeOK
<1>3. ASSUME NEW w \in Writer, CallComplete(w) PROVE TypeOK'
  <2>1. PICK i \in 1..(Len(streams) + 1) :
          /\ GetOrCreateStream(i)
          /\ writer' = [writer EXCEPT ![w] = [stage |-> "complete", at |-> i]]
    BY <1>3 DEF CallComplete
  <2>2. chunks' \in 0..MaxChunks
    BY <1>3 DEF CallComplete, TypeOK
  <2> QED
    BY <1>3, <2>1, <2>2, GotStreamWriter DEF CallComplete
<1>4. ASSUME NEW w \in Writer, DoComplete(w) PROVE TypeOK'
  <2> DEFINE i == writer[w].at
  <2>2. i \in 1..Len(streams)
    BY <1>4 DEF DoComplete, TypeOK
  <2>3. Complete(i)
    BY <1>4 DEF DoComplete
  <2> HIDE DEF i
  <2>4. /\ streams' \in Seq(StreamType) /\ Len(streams') = Len(streams) /\ streams' # <<>>
        /\ session' \in [Session -> SessionType]
        /\ \A s \in Session :
              /\ Len(session'[s].buf) <= ChanCap
              /\ session'[s].stage = session[s].stage /\ session'[s].at = session[s].at
    BY <1>a, <2>2, <2>3, CompletedStream, CompletedSessions
  <2>5. /\ writer' \in [Writer -> WriterType]
        /\ \A v \in Writer : writer'[v].stage \in {"publish", "complete"} =>
                             writer'[v].at \in 1..Len(streams)
    BY <1>4 DEF DoComplete, TypeOK, WriterType
  <2> QED
    BY <1>4, <2>4, <2>5 DEF DoComplete, TypeOK
<1>5. ASSUME NEW s \in Session, CallSubscribe(s) PROVE TypeOK'
  <2>1. PICK i \in 1..(Len(streams) + 1) :
          /\ GetOrCreateStream(i)
          /\ session' = [session EXCEPT ![s].stage = "subscribing", ![s].at = i]
    BY <1>5 DEF CallSubscribe
  <2>2. /\ streams' \in Seq(StreamType)
        /\ i \in 1..Len(streams')
        /\ Len(streams) <= Len(streams')
        /\ streams' # <<>> /\ mapped' = TRUE /\ held' = held
        /\ held \subseteq 0..Len(streams')
    BY <1>a, <2>1, GotStream
  <2>3. Len(streams') \in Nat /\ i \in Nat
    BY <1>a, <2>2, LenProperties
  <2>4. session' \in [Session -> SessionType]
    <3>1. session[s] \in SessionType
      BY DEF TypeOK
    <3>2. [session[s] EXCEPT !.stage = "subscribing", !.at = i] \in SessionType
      BY <2>3, <3>1 DEF SessionType
    <3>3. session' = [session EXCEPT ![s] = [session[s] EXCEPT !.stage = "subscribing", !.at = i]]
      BY <2>1 DEF TypeOK
    <3> QED
      BY <3>2, <3>3 DEF TypeOK
  <2>5. \A v \in Session :
          /\ Len(session'[v].buf) <= ChanCap
          /\ session'[v].stage \notin {"idle", "requested"} => session'[v].at \in 1..Len(streams')
    BY <1>a, <2>1, <2>2, <2>3 DEF TypeOK, SessionType
  <2>6. \A v \in Writer :
          writer[v].stage \in {"publish", "complete"} => writer[v].at \in 1..Len(streams')
    BY <1>a, <2>2, <2>3 DEF TypeOK
  <2> QED
    BY <1>5, <2>2, <2>4, <2>5, <2>6 DEF CallSubscribe, TypeOK
<1>6. ASSUME NEW s \in Session, Subscribe(s) PROVE TypeOK'
  <2> DEFINE events == streams[session[s].at].events
  <2>1. events \in Seq(Event)
    BY <1>6, SessionFields DEF Subscribe, StreamType
  <2>2. PICK k \in 1..(Len(events) + 1) : Replayed(s, SubSeq(events, k, Len(events)))
    BY <1>6 DEF Subscribe
  <2> HIDE DEF events
  <2>3. Len(events) \in Nat /\ k \in Int /\ Len(events) \in Int /\ \A j \in k..Len(events) : j \in 1..Len(events)
    BY <2>1, LenProperties
  <2>4. \A j \in k..Len(events) : events[j] \in Event
    BY <2>1, <2>3, ElementOfSeq
  <2>5. SubSeq(events, k, Len(events)) \in Seq(Event)
    BY <2>3, <2>4, SubSeqProperties
  <2> QED
    BY <1>6, <2>2, <2>5, ReplayedType DEF Subscribe
<1>7. ASSUME NEW s \in Session, Serve(s) PROVE TypeOK'
  <2> DEFINE event == Head(session[s].buf)
             rest == Tail(session[s].buf)
             over == event.event = "complete"
             c == ClientOf[s]
             live == session[s].up /\ ~over
             t == [session[s] EXCEPT !.buf = rest, !.up = live]
  <2>1. /\ session[s] \in SessionType /\ session[s].buf \in Seq(Event)
        /\ session[s].buf # <<>> /\ Len(session[s].buf) <= ChanCap
        /\ session[s].at \in 1..Len(streams)
    BY <1>7, SessionFields DEF Serve, InLoop
  <2>2. /\ event \in Event /\ rest \in Seq(Event)
        /\ Len(rest) = Len(session[s].buf) - 1 /\ Len(session[s].buf) \in Nat
    BY <2>1, HeadTailProperties, LenProperties
  <2>3. session' = [session EXCEPT ![s] = t]
    BY <1>7 DEF Serve, TypeOK
  <2>4. live \in BOOLEAN
    BY <2>1 DEF SessionType
  <2>5. event.id \in Nat
    BY <2>2 DEF Event
  <2>6. page' = page \/
        page' = [page EXCEPT ![c] = [stage |-> IF over THEN "finished" ELSE "live",
                                     shown |-> Append(page[c].shown, event.id),
                                     last |-> event.id]]
    BY <1>7, <1>a DEF Serve
  <2>7. UNCHANGED <<streams, mapped, held, writer, counters>>
    BY <1>7 DEF Serve
  <2> HIDE DEF event, rest, live
  <2>8. t \in SessionType /\ t.buf = rest /\ t.at = session[s].at
    BY <2>1, <2>2, <2>4 DEF SessionType
  <2>9. Len(t.buf) <= ChanCap
    BY <2>1, <2>2, <2>8, BoundsAssumption
  <2>10. page' \in [Client -> PageType]
    <3>1. c \in Client
      BY ClientsAssumption
    <3>2. page[c].shown \in Seq(Nat)
      BY <1>a, <3>1 DEF PageType
    <3>3. Append(page[c].shown, event.id) \in Seq(Nat)
      BY <2>5, <3>2, AppendProperties
    <3>4. [stage |-> IF over THEN "finished" ELSE "live",
           shown |-> Append(page[c].shown, event.id), last |-> event.id] \in PageType
      BY <2>5, <3>3 DEF PageType
    <3> QED
      BY <1>a, <2>6, <3>4
  <2> HIDE DEF t
  <2> QED
    BY <1>a, <2>1, <2>3, <2>7, <2>8, <2>9, <2>10, SessionStep
<1>8. ASSUME NEW s \in Session, EndLoop(s) PROVE TypeOK'
  <2>1. /\ session[s] \in SessionType /\ Len(session[s].buf) <= ChanCap
        /\ session[s].at \in 1..Len(streams)
    BY <1>8, SessionFields DEF EndLoop, InLoop
  <2>2. UNCHANGED <<streams, mapped, held, writer, page, counters>>
    BY <1>8 DEF EndLoop
  <2>3. CASE session' = [session EXCEPT ![s].stage = "leaving"]
    <3> DEFINE t == [session[s] EXCEPT !.stage = "leaving"]
    <3>1. /\ t \in SessionType /\ Len(t.buf) <= ChanCap /\ t.at \in 1..Len(streams)
      BY <2>1 DEF SessionType
    <3>2. session' = [session EXCEPT ![s] = t]
      BY <2>3 DEF TypeOK
    <3> HIDE DEF t
    <3> QED
      BY <1>a, <2>2, <3>1, <3>2, SessionStep
  <2>4. CASE session' = [session EXCEPT ![s] = IdleSession]
    <3>1. IdleSession.stage \notin {"idle", "requested"} => IdleSession.at \in 1..Len(streams)
      BY DEF IdleSession
    <3> QED
      BY <1>a, <1>c, <2>2, <2>4, <3>1, IdleSessionType, SessionStep
  <2> QED
    BY <1>8, <2>3, <2>4 DEF EndLoop
<1>9. ASSUME NEW s \in Session, Unsubscribe(s) PROVE TypeOK'
  <2> DEFINE i == session[s].at
             new == [streams[i] EXCEPT !.subscribers = streams[i].subscribers \ {s}]
  <2>1. i \in 1..Len(streams) /\ streams[i] \in StreamType
    BY <1>9, SessionFields DEF Unsubscribe
  <2>2. new \in StreamType
    BY <2>1 DEF StreamType
  <2>3. streams' = [streams EXCEPT ![i] = new]
    BY <1>9, <1>a, <2>1 DEF Unsubscribe
  <2> HIDE DEF i, new
  <2>4. /\ streams' \in Seq(StreamType) /\ Len(streams') = Len(streams)
        /\ streams' # <<>>
    BY <1>a, <2>1, <2>2, <2>3, StreamReplaced
  <2>5. IdleSession.stage \notin {"idle", "requested"} => IdleSession.at \in 1..Len(streams)
    BY DEF IdleSession
  <2> QED
    BY <1>9, <1>a, <1>c, <2>4, <2>5, IdleSessionType, SessionStep DEF Unsubscribe
<1>10. ASSUME NEW s \in Session, Request(s) PROVE TypeOK'
  <2> DEFINE c == ClientOf[s]
             t == [IdleSession EXCEPT !.stage = "requested", !.from = page[c].last, !.up = TRUE]
  <2>1. c \in Client /\ page[c] \in PageType
    BY <1>a, ClientsAssumption
  <2>2. t \in SessionType /\ Len(t.buf) = 0 /\ t.stage = "requested"
    BY <2>1, IdleSessionType DEF SessionType, PageType, IdleSession
  <2>3. session' = [session EXCEPT ![s] = t]
    BY <1>10 DEF Request
  <2>4. page' \in [Client -> PageType]
    BY <1>10, <1>a DEF Request, PageType
  <2> HIDE DEF t, c
  <2> QED
    BY <1>10, <1>a, <1>c, <2>2, <2>3, <2>4, SessionStep DEF Request
<1>11. ASSUME NEW c \in Client, Reopen(c) PROVE TypeOK'
  <2>1. session' = [s \in Session |-> IF ClientOf[s] = c THEN [session[s] EXCEPT !.up = FALSE]
                                      ELSE session[s]]
    BY <1>11 DEF Reopen
  <2>2. \A s \in Session : session[s] \in SessionType
    BY SessionFields
  <2>3. \A s \in Session :
          /\ session'[s] \in SessionType
          /\ session'[s].buf = session[s].buf
          /\ session'[s].stage = session[s].stage /\ session'[s].at = session[s].at
    BY <2>1, <2>2 DEF SessionType
  <2>4. session' \in [Session -> SessionType]
    BY <2>1, <2>3
  <2>5. page' \in [Client -> PageType]
    BY <1>11, <1>a DEF Reopen, PageType
  <2>6. reopens' \in 0..MaxReopens
    BY <1>11, <1>b DEF Reopen, TypeOK
  <2> QED
    BY <1>11, <2>3, <2>4, <2>5, <2>6 DEF Reopen, TypeOK
<1>12. ASSUME NEW s \in Session, Drop(s) PROVE TypeOK'
  <2> DEFINE t == [session[s] EXCEPT !.up = FALSE]
  <2>1. /\ t \in SessionType /\ Len(t.buf) <= ChanCap
        /\ t.stage \notin {"idle", "requested"} => t.at \in 1..Len(streams)
    BY SessionFields DEF SessionType
  <2>2. session' = [session EXCEPT ![s] = t]
    BY <1>12 DEF Drop, TypeOK
  <2>3. drops' \in 0..MaxDrops
    BY <1>12, <1>a, <1>b DEF Drop
  <2> HIDE DEF t
  <2> QED
    BY <1>12, <1>a, <2>1, <2>2, <2>3, SessionStep DEF Drop
<1>13. ASSUME Cleanup PROVE TypeOK'
  <2> DEFINE i == Len(streams)
             new == [streams[i] EXCEPT !.events = <<>>, !.live = FALSE, !.subscribers = {}]
  <2>1. cleanups' \in 0..MaxCleanups
    BY <1>13, <1>b DEF Cleanup, TypeOK
  <2>2. UNCHANGED <<writer, page, chunks, drops, reopens>>
    BY <1>13 DEF Cleanup
  <2>3. CASE held' = held \cup {Manager} /\ UNCHANGED <<streams, mapped, session>>
    <3>1. held' \subseteq 0..Len(streams)
      BY <1>a, <2>3 DEF Manager
    <3> QED
      BY <2>1, <2>2, <2>3, <3>1 DEF TypeOK
  <2>4. CASE mapped' = FALSE /\ UNCHANGED <<session, streams, held>>
    BY <2>1, <2>2, <2>4 DEF TypeOK
  <2>5. CASE /\ mapped /\ mapped' = FALSE /\ UNCHANGED held
             /\ session' = Closed(session, streams[i].subscribers)
             /\ streams' = [streams EXCEPT ![i] = new]
    <3>1. i \in 1..Len(streams)
      BY <1>a, <2>5, EmptySeq
    <3>2. streams[i] \in StreamType
      BY <1>a, <3>1, ElementOfSeq
    <3>3. new \in StreamType
      BY <3>2, EmptySeq DEF StreamType
    <3> HIDE DEF new, i
    <3>4. streams' \in Seq(StreamType) /\ Len(streams') = Len(streams)
      BY <1>a, <2>5, <3>1, <3>3, StreamReplaced
    <3>5. /\ session' \in [Session -> SessionType]
          /\ \A s \in Session :
               /\ session'[s].buf = session[s].buf
               /\ session'[s].stage = session[s].stage /\ session'[s].at = session[s].at
      BY <2>5, ClosedChannels DEF TypeOK
    <3> QED
      BY <2>1, <2>2, <2>5, <3>4, <3>5 DEF TypeOK
  <2> QED
    BY <1>13, <2>3, <2>4, <2>5 DEF Cleanup
<1>14. ASSUME UNCHANGED vars PROVE TypeOK'
  BY <1>14 DEF vars, TypeOK
<1> QED
  BY <1>1, <1>2, <1>3, <1>4, <1>5, <1>6, <1>7, <1>8, <1>9, <1>10, <1>11, <1>12, <1>13,
     <1>14 DEF Next, Handle

\* Every variable stays within its type: no channel ever holds more events than
\* it has room for, and every call works on a stream that was made for it.
THEOREM StreamTypeCorrect == Spec => []TypeOK
  BY TypeInit, TypeStep, PTL DEF Spec

-----------------------------------------------------------------------------
(* Channels and subscribers *)

\* Nobody closes a channel before it is registered.
FreshAreOpen ==
  \A s \in Session :
    session[s].stage \in {"idle", "requested", "subscribing"} => ~session[s].closed

OpenInv == SubscribersAreOpen /\ NobodyIsForgotten /\ FreshAreOpen

LEMMA OpenInit == Init => OpenInv
BY EmptySeq DEF Init, OpenInv, SubscribersAreOpen, NobodyIsForgotten, FreshAreOpen, IdleSession

LEMMA SubscribersAreSessions ==
  ASSUME TypeOK
  PROVE  \A i \in 1..Len(streams) : streams[i].subscribers \subseteq Session
<1> SUFFICES ASSUME NEW i \in 1..Len(streams) PROVE streams[i].subscribers \subseteq Session
  OBVIOUS
<1>1. streams[i] \in StreamType
  BY ElementOfSeq DEF TypeOK
<1> QED
  BY <1>1 DEF StreamType

\* A step that leaves the subscribers and the handlers' progress alone.
LEMMA OpenKept ==
  ASSUME TypeOK, OpenInv, Len(streams') \in Nat, Len(streams) <= Len(streams'),
         \A i \in 1..Len(streams) : streams'[i].subscribers = streams[i].subscribers,
         \A i \in 1..Len(streams') : i > Len(streams) => streams'[i].subscribers = {},
         \A s \in Session :
           /\ session'[s].stage = session[s].stage /\ session'[s].at = session[s].at
           /\ session'[s].closed = session[s].closed
  PROVE  OpenInv'
<1>1. Len(streams) \in Nat
  BY LenProperties DEF TypeOK
<1>2. \A i \in 1..Len(streams') : i \in 1..Len(streams) \/ i > Len(streams)
  BY <1>1
<1>3. \A s \in Session : session[s].stage = "serving" => session[s].at \in 1..Len(streams)
  BY DEF TypeOK
<1>4. SubscribersAreOpen'
  <2>1. \A i \in 1..Len(streams) : streams[i].subscribers \subseteq Session
    BY SubscribersAreSessions
  <2> QED
    BY <1>2, <2>1 DEF OpenInv, SubscribersAreOpen
<1>5. NobodyIsForgotten'
  BY <1>3 DEF OpenInv, NobodyIsForgotten
<1>6. FreshAreOpen'
  BY DEF OpenInv, FreshAreOpen
<1> QED
  BY <1>4, <1>5, <1>6 DEF OpenInv

\* A step of one handler that is no subscriber before or after it, and whose
\* channel is open unless it is past the subscription.
LEMMA OpenOutside ==
  ASSUME TypeOK, OpenInv, NEW s \in Session,
         session[s].stage \notin {"serving", "leaving"},
         UNCHANGED streams,
         \A v \in Session \ {s} : session'[v] = session[v],
         \/ session'[s].stage \in {"idle", "requested", "subscribing"} /\ ~session'[s].closed
         \/ session'[s].stage \in {"replaying", "blocked", "panicked"}
  PROVE  OpenInv'
<1>1. \A i \in 1..Len(streams) : s \notin streams[i].subscribers
  BY DEF OpenInv, SubscribersAreOpen
<1>2. \A i \in 1..Len(streams) : streams[i].subscribers \subseteq Session
  BY SubscribersAreSessions
<1>3. SubscribersAreOpen'
  BY <1>1, <1>2 DEF OpenInv, SubscribersAreOpen
<1>4. NobodyIsForgotten'
  BY DEF OpenInv, NobodyIsForgotten
<1>5. FreshAreOpen'
  BY DEF OpenInv, FreshAreOpen
<1> QED
  BY <1>3, <1>4, <1>5 DEF OpenInv

\* A step that closes the channels of all subscribers of a stream and forgets
\* them: Complete and Cleanup.
LEMMA OpenClosing ==
  ASSUME TypeOK, OpenInv, NEW i \in 1..Len(streams),
         Len(streams') = Len(streams),
         streams'[i].subscribers = {},
         \A j \in 1..Len(streams) : j # i => streams'[j] = streams[j],
         \A s \in Session :
           /\ session'[s].stage = session[s].stage /\ session'[s].at = session[s].at
           /\ session'[s].closed = (session[s].closed \/ s \in streams[i].subscribers)
  PROVE  OpenInv'
<1>1. \A j \in 1..Len(streams) : streams[j].subscribers \subseteq Session
  BY SubscribersAreSessions
<1>2. ASSUME NEW j \in 1..Len(streams), NEW s \in streams'[j].subscribers
      PROVE  ~session'[s].closed /\ session'[s].stage \in {"serving", "leaving"} /\ session'[s].at = j
  <2>1. j # i /\ streams'[j] = streams[j]
    BY <1>2
  <2>2. s \in Session /\ ~session[s].closed /\ session[s].stage \in {"serving", "leaving"}
        /\ session[s].at = j
    BY <1>1, <2>1 DEF OpenInv, SubscribersAreOpen
  <2>3. s \notin streams[i].subscribers
    BY <2>1, <2>2 DEF OpenInv, SubscribersAreOpen
  <2> QED
    BY <2>2, <2>3
<1>3. SubscribersAreOpen'
  BY <1>2 DEF SubscribersAreOpen
<1>4. NobodyIsForgotten'
  <2> SUFFICES ASSUME NEW s \in Session, session'[s].stage = "serving", ~session'[s].closed
               PROVE  s \in streams'[session'[s].at].subscribers
    BY DEF NobodyIsForgotten
  <2>1. /\ session[s].stage = "serving" /\ ~session[s].closed
        /\ s \notin streams[i].subscribers
    OBVIOUS
  <2>2. session[s].at \in 1..Len(streams) /\ s \in streams[session[s].at].subscribers
    BY <2>1 DEF OpenInv, NobodyIsForgotten, TypeOK
  <2> QED
    BY <2>1, <2>2
<1>5. FreshAreOpen'
  <2> SUFFICES ASSUME NEW s \in Session,
                      session'[s].stage \in {"idle", "requested", "subscribing"}
               PROVE  ~session'[s].closed
    BY DEF FreshAreOpen
  <2>1. s \notin streams[i].subscribers
    BY DEF OpenInv, SubscribersAreOpen
  <2> QED
    BY <2>1 DEF OpenInv, FreshAreOpen
<1> QED
  BY <1>3, <1>4, <1>5 DEF OpenInv

LEMMA OpenStep == TypeOK /\ OpenInv /\ [Next]_vars => OpenInv'
<1> SUFFICES ASSUME TypeOK, OpenInv, [Next]_vars PROVE OpenInv'
  OBVIOUS
<1>a. Len(streams) \in Nat /\ Typed /\ streams \in Seq(StreamType)
  BY LenProperties, TypeOKTyped DEF TypeOK
<1>b. \A i \in 1..Len(streams) : streams[i].subscribers \subseteq Session
  BY SubscribersAreSessions
<1>c. \A s \in Session : session[s] \in SessionType
  BY SessionFields
<1>1. ASSUME NEW i \in 1..(Len(streams) + 1), GetOrCreateStream(i), UNCHANGED session
      PROVE  OpenInv'
  <2>1. /\ streams' \in Seq(StreamType) /\ Len(streams) <= Len(streams')
        /\ \A j \in 1..Len(streams) : streams'[j] = streams[j]
        /\ \A j \in 1..Len(streams') : j > Len(streams) => streams'[j] = EmptyStream
    BY <1>1, <1>a, GotStream
  <2>2. Len(streams') \in Nat /\ EmptyStream.subscribers = {}
    BY <2>1, LenProperties DEF EmptyStream
  <2> QED
    BY <1>1, <2>1, <2>2, OpenKept
<1>2. ASSUME DoPublish PROVE OpenInv'
  <2> DEFINE i == writer[Worker].at
  <2>1. i \in 1..Len(streams) /\ Publish(i)
    BY <1>2 DEF DoPublish, TypeOK, Writer
  <2> HIDE DEF i
  <2>2. /\ Len(streams') = Len(streams)
        /\ \A j \in 1..Len(streams) : streams'[j].subscribers = streams[j].subscribers
        /\ \A s \in Session :
             /\ session'[s].stage = session[s].stage /\ session'[s].at = session[s].at
             /\ session'[s].closed = session[s].closed
    <3>1. /\ Len(streams') = Len(streams)
          /\ streams'[i].subscribers = streams[i].subscribers
          /\ \A j \in 1..Len(streams) : j # i => streams'[j] = streams[j]
      BY <1>a, <2>1, PublishedStream
    <3>2. \A s \in Session :
             /\ session'[s].stage = session[s].stage /\ session'[s].at = session[s].at
             /\ session'[s].closed = session[s].closed
      BY <1>a, <2>1, PublishedSessions
    <3> QED
      BY <3>1, <3>2
  <2> QED
    BY <1>a, <2>2, OpenKept
<1>3. ASSUME NEW w \in Writer, DoComplete(w) PROVE OpenInv'
  <2> DEFINE i == writer[w].at
  <2>1. i \in 1..Len(streams) /\ Complete(i)
    BY <1>3 DEF DoComplete, TypeOK
  <2> HIDE DEF i
  <2>2. CASE streams[i].done
    <3>1. UNCHANGED <<streams, session>>
      BY <1>a, <2>1, <2>2, CompletedStream
    <3> QED
      BY <1>a, <3>1, OpenKept
  <2>3. CASE ~streams[i].done
    <3>1. /\ Len(streams') = Len(streams) /\ streams'[i].subscribers = {}
          /\ \A j \in 1..Len(streams) : j # i => streams'[j] = streams[j]
      BY <1>a, <2>1, <2>3, CompletedStream
    <3>2. \A s \in Session :
            /\ session'[s].stage = session[s].stage /\ session'[s].at = session[s].at
            /\ session'[s].closed = (session[s].closed \/ s \in streams[i].subscribers)
      BY <1>a, <2>1, <2>3, CompletedSessions
    <3> QED
      BY <2>1, <3>1, <3>2, OpenClosing
  <2> QED
    BY <2>2, <2>3
<1>4. ASSUME NEW s \in Session, CallSubscribe(s) PROVE OpenInv'
  <2>1. PICK i \in 1..(Len(streams) + 1) :
          /\ GetOrCreateStream(i)
          /\ session' = [session EXCEPT ![s].stage = "subscribing", ![s].at = i]
    BY <1>4 DEF CallSubscribe
  <2>2. /\ streams' \in Seq(StreamType) /\ Len(streams) <= Len(streams')
        /\ \A j \in 1..Len(streams) : streams'[j] = streams[j]
        /\ \A j \in 1..Len(streams') : j > Len(streams) => streams'[j] = EmptyStream
    BY <1>a, <2>1, GotStream
  <2>3. Len(streams') \in Nat /\ EmptyStream.subscribers = {}
    BY <2>2, LenProperties DEF EmptyStream
  <2>4. /\ session[s].stage = "requested" /\ ~session[s].closed
        /\ session'[s].stage = "subscribing" /\ session'[s].closed = session[s].closed
        /\ \A v \in Session \ {s} : session'[v] = session[v]
    BY <1>4, <2>1 DEF CallSubscribe, TypeOK, OpenInv, FreshAreOpen
  <2>5. SubscribersAreOpen'
    <3>1. ASSUME NEW j \in 1..Len(streams'), NEW v \in streams'[j].subscribers
          PROVE  /\ v # s /\ v \in Session /\ ~session[v].closed
                 /\ session[v].stage \in {"serving", "leaving"} /\ session[v].at = j
      <4>1. j \in 1..Len(streams) /\ v \in streams[j].subscribers
        BY <1>a, <2>2, <2>3, <3>1
      <4> QED
        BY <1>b, <2>4, <4>1 DEF OpenInv, SubscribersAreOpen
    <3> QED
      BY <2>4, <3>1 DEF SubscribersAreOpen
  <2>6. NobodyIsForgotten'
    <3>1. \A v \in Session : session[v].stage = "serving" => session[v].at \in 1..Len(streams)
      BY DEF TypeOK
    <3> QED
      BY <2>2, <2>4, <3>1 DEF OpenInv, NobodyIsForgotten
  <2>7. FreshAreOpen'
    BY <2>4 DEF OpenInv, FreshAreOpen
  <2> QED
    BY <2>5, <2>6, <2>7 DEF OpenInv
<1>5. ASSUME NEW s \in Session, Subscribe(s) PROVE OpenInv'
  <2> DEFINE i == session[s].at
  <2>1. /\ session[s].stage = "subscribing" /\ i \in 1..Len(streams)
        /\ session[s] \in SessionType /\ streams[i] \in StreamType
        /\ ~session[s].closed
    BY <1>5, SessionFields DEF Subscribe, OpenInv, FreshAreOpen
  <2>2. PICK replay : Replayed(s, replay)
    BY <1>5 DEF Subscribe
  <2>3. CASE /\ session' = [session EXCEPT ![s].stage = "blocked",
                                           ![s].buf = SubSeq(replay, 1, ChanCap)]
             /\ UNCHANGED streams
    <3>1. session'[s].stage = "blocked" /\ \A v \in Session \ {s} : session'[v] = session[v]
      BY <2>3 DEF TypeOK
    <3> QED
      BY <2>1, <2>3, <3>1, OpenOutside
  <2>4. CASE /\ session' = [session EXCEPT ![s].stage = "replaying", ![s].buf = replay,
                                           ![s].closed = TRUE]
             /\ UNCHANGED streams
    <3>1. session'[s].stage = "replaying" /\ \A v \in Session \ {s} : session'[v] = session[v]
      BY <2>4 DEF TypeOK
    <3> QED
      BY <2>1, <2>4, <3>1, OpenOutside
  <2>5. CASE /\ session' = [session EXCEPT ![s].stage = "serving", ![s].buf = replay]
             /\ streams' = [streams EXCEPT ![i].subscribers = @ \cup {s}]
    <3> DEFINE new == [streams[i] EXCEPT !.subscribers = streams[i].subscribers \cup {s}]
    <3>1. /\ session'[s].stage = "serving" /\ session'[s].at = i /\ ~session'[s].closed
          /\ \A v \in Session \ {s} : session'[v] = session[v]
      BY <2>1, <2>5 DEF TypeOK
    <3>2. /\ new \in StreamType
          /\ new.subscribers = streams[i].subscribers \cup {s}
      BY <2>1 DEF StreamType
    <3>3. streams' = [streams EXCEPT ![i] = new]
      BY <1>a, <2>1, <2>5
    <3> HIDE DEF new, i
    <3>4. /\ Len(streams') = Len(streams)
          /\ streams'[i].subscribers = streams[i].subscribers \cup {s}
          /\ \A j \in 1..Len(streams) : j # i => streams'[j] = streams[j]
      BY <1>a, <2>1, <3>2, <3>3, StreamReplaced
    <3>5. ASSUME NEW j \in 1..Len(streams), NEW v \in streams'[j].subscribers
          PROVE  /\ ~session'[v].closed /\ session'[v].stage \in {"serving", "leaving"}
                 /\ session'[v].at = j
      <4>1. CASE v = s
        <5>1. s \notin streams[j].subscribers
          BY <2>1 DEF OpenInv, SubscribersAreOpen
        <5>2. j = i
          BY <3>4, <4>1, <5>1
        <5> QED
          BY <3>1, <4>1, <5>2
      <4>2. CASE v # s
        <5>1. v \in streams[j].subscribers
          BY <3>4, <4>2
        <5> QED
          BY <1>b, <3>1, <4>2, <5>1 DEF OpenInv, SubscribersAreOpen
      <4> QED
        BY <4>1, <4>2
    <3>6. SubscribersAreOpen'
      BY <3>4, <3>5 DEF SubscribersAreOpen
    <3>7. NobodyIsForgotten'
      <4> SUFFICES ASSUME NEW v \in Session, session'[v].stage = "serving", ~session'[v].closed
                   PROVE  v \in streams'[session'[v].at].subscribers
        BY DEF NobodyIsForgotten
      <4>1. CASE v = s
        BY <3>1, <3>4, <4>1
      <4>2. CASE v # s
        <5>1. /\ session'[v] = session[v] /\ session[v].at \in 1..Len(streams)
              /\ v \in streams[session[v].at].subscribers
          BY <3>1, <4>2 DEF OpenInv, NobodyIsForgotten, TypeOK
        <5> QED
          BY <3>4, <5>1
      <4> QED
        BY <4>1, <4>2
    <3>8. FreshAreOpen'
      BY <3>1 DEF OpenInv, FreshAreOpen
    <3> QED
      BY <3>6, <3>7, <3>8 DEF OpenInv
  <2>6. CASE /\ session' = [session EXCEPT ![s].stage = "panicked", ![s].up = FALSE]
             /\ UNCHANGED streams
    <3>1. session'[s].stage = "panicked" /\ \A v \in Session \ {s} : session'[v] = session[v]
      BY <2>6 DEF TypeOK
    <3> QED
      BY <2>1, <2>6, <3>1, OpenOutside
  <2> QED
    BY <2>2, <2>3, <2>4, <2>5, <2>6 DEF Replayed

<1>6. ASSUME NEW s \in Session, Serve(s) \/ Drop(s) PROVE OpenInv'
  <2>1. /\ UNCHANGED streams
        /\ \A v \in Session :
             /\ session'[v].stage = session[v].stage /\ session'[v].at = session[v].at
             /\ session'[v].closed = session[v].closed
    <3>1. CASE Serve(s)
      BY <1>c, <3>1 DEF Serve, TypeOK, SessionType
    <3>2. CASE Drop(s)
      BY <1>c, <3>2 DEF Drop, TypeOK, SessionType
    <3> QED
      BY <1>6, <3>1, <3>2
  <2> QED
    BY <1>a, <2>1, OpenKept
<1>7. ASSUME NEW c \in Client, Reopen(c) PROVE OpenInv'
  <2>1. /\ UNCHANGED streams
        /\ \A v \in Session :
             /\ session'[v].stage = session[v].stage /\ session'[v].at = session[v].at
             /\ session'[v].closed = session[v].closed
    BY <1>7, <1>c DEF Reopen, SessionType
  <2> QED
    BY <1>a, <2>1, OpenKept
<1>8. ASSUME NEW s \in Session, EndLoop(s) PROVE OpenInv'
  <2>1. CASE session[s].stage = "serving"
    <3>1. /\ UNCHANGED streams /\ session'[s].stage = "leaving"
          /\ session'[s].at = session[s].at /\ session'[s].closed = session[s].closed
          /\ \A v \in Session \ {s} : session'[v] = session[v]
      BY <1>8, <1>c, <2>1 DEF EndLoop, TypeOK, SessionType
    <3>2. SubscribersAreOpen'
      BY <1>b, <3>1 DEF OpenInv, SubscribersAreOpen
    <3>3. NobodyIsForgotten' /\ FreshAreOpen'
      BY <3>1 DEF OpenInv, NobodyIsForgotten, FreshAreOpen
    <3> QED
      BY <3>2, <3>3 DEF OpenInv
  <2>2. CASE session[s].stage # "serving"
    <3>1. /\ UNCHANGED streams /\ session[s].stage = "replaying" /\ session'[s] = IdleSession
          /\ \A v \in Session \ {s} : session'[v] = session[v]
      BY <1>8, <2>2 DEF EndLoop, InLoop, TypeOK
    <3> QED
      BY <3>1, OpenOutside DEF IdleSession
  <2> QED
    BY <2>1, <2>2
<1>9. ASSUME NEW s \in Session, Unsubscribe(s) PROVE OpenInv'
  <2> DEFINE i == session[s].at
             new == [streams[i] EXCEPT !.subscribers = streams[i].subscribers \ {s}]
  <2>1. i \in 1..Len(streams) /\ streams[i] \in StreamType
    BY <1>9, SessionFields DEF Unsubscribe
  <2>2. new \in StreamType /\ new.subscribers = streams[i].subscribers \ {s}
    BY <2>1 DEF StreamType
  <2>3. streams' = [streams EXCEPT ![i] = new]
    BY <1>9, <1>a, <2>1 DEF Unsubscribe
  <2>4. session'[s] = IdleSession /\ \A v \in Session \ {s} : session'[v] = session[v]
    BY <1>9 DEF Unsubscribe, TypeOK
  <2>5. \A j \in 1..Len(streams) : s \in streams[j].subscribers => j = i
    BY DEF OpenInv, SubscribersAreOpen
  <2> HIDE DEF i, new
  <2>6. /\ Len(streams') = Len(streams)
        /\ \A j \in 1..Len(streams) : streams'[j].subscribers = streams[j].subscribers \ {s}
    <3>1. /\ Len(streams') = Len(streams) /\ streams'[i] = new
          /\ \A j \in 1..Len(streams) : j # i => streams'[j] = streams[j]
      BY <1>a, <2>1, <2>2, <2>3, StreamReplaced
    <3> QED
      BY <2>2, <2>5, <3>1
  <2>7. SubscribersAreOpen'
    BY <1>b, <2>4, <2>6 DEF OpenInv, SubscribersAreOpen
  <2>8. NobodyIsForgotten'
    <3> SUFFICES ASSUME NEW v \in Session, session'[v].stage = "serving", ~session'[v].closed
                 PROVE  v \in streams'[session'[v].at].subscribers
      BY DEF NobodyIsForgotten
    <3>1. v # s
      BY <2>4 DEF IdleSession
    <3>2. /\ session'[v] = session[v] /\ session[v].at \in 1..Len(streams)
          /\ v \in streams[session[v].at].subscribers
      BY <2>4, <3>1 DEF OpenInv, NobodyIsForgotten, TypeOK
    <3> QED
      BY <2>6, <3>1, <3>2
  <2>9. FreshAreOpen'
    BY <2>4 DEF OpenInv, FreshAreOpen, IdleSession
  <2> QED
    BY <2>7, <2>8, <2>9 DEF OpenInv
<1>10. ASSUME NEW s \in Session, Request(s) PROVE OpenInv'
  <2>1. /\ UNCHANGED streams /\ session[s].stage = "idle"
        /\ session'[s].stage = "requested" /\ ~session'[s].closed
        /\ \A v \in Session \ {s} : session'[v] = session[v]
    BY <1>10 DEF Request, TypeOK, IdleSession
  <2> QED
    BY <2>1, OpenOutside
<1>11. ASSUME Cleanup PROVE OpenInv'
  <2> DEFINE i == Len(streams)
             new == [streams[i] EXCEPT !.events = <<>>, !.live = FALSE, !.subscribers = {}]
  <2>1. CASE UNCHANGED <<streams, session>>
    BY <1>a, <2>1, OpenKept
  <2>2. CASE /\ mapped
             /\ session' = Closed(session, streams[i].subscribers)
             /\ streams' = [streams EXCEPT ![i] = new]
    <3>1. i \in 1..Len(streams)
      BY <1>a, <2>2, EmptySeq DEF TypeOK
    <3>2. streams[i] \in StreamType
      BY <1>a, <3>1, ElementOfSeq
    <3>3. new \in StreamType /\ new.subscribers = {}
      BY <3>2, EmptySeq DEF StreamType
    <3> HIDE DEF new, i
    <3>4. /\ Len(streams') = Len(streams) /\ streams'[i] = new
          /\ \A j \in 1..Len(streams) : j # i => streams'[j] = streams[j]
      BY <1>a, <2>2, <3>1, <3>3, StreamReplaced
    <3>5. \A s \in Session :
            /\ session'[s].stage = session[s].stage /\ session'[s].at = session[s].at
            /\ session'[s].closed = (session[s].closed \/ s \in streams[i].subscribers)
      BY <2>2, ClosedChannels DEF TypeOK
    <3> QED
      BY <3>1, <3>3, <3>4, <3>5, OpenClosing
  <2> QED
    BY <1>11, <2>1, <2>2 DEF Cleanup
<1>12. ASSUME CallPublish \/ \E w \in Writer : CallComplete(w) PROVE OpenInv'
  <2>1. \E i \in 1..(Len(streams) + 1) : GetOrCreateStream(i) /\ UNCHANGED session
    BY <1>12 DEF CallPublish, CallComplete
  <2> QED
    BY <1>1, <2>1
<1>13. ASSUME UNCHANGED vars PROVE OpenInv'
  <2>1. UNCHANGED <<streams, session>>
    BY <1>13 DEF vars
  <2> QED
    BY <1>a, <2>1, OpenKept
<1> QED
  BY <1>2, <1>3, <1>4, <1>5, <1>6, <1>7, <1>8, <1>9, <1>10, <1>11, <1>12, <1>13
     DEF Next, Handle

\* Publish, Complete, Cleanup and unsubscribe only ever meet open channels of
\* handlers that have not gone: none of them panics, whoever comes first.
THEOREM ChannelsAreOpen == Spec => []SubscribersAreOpen
<1>1. Spec => [](TypeOK /\ OpenInv)
  BY TypeInit, TypeStep, OpenInit, OpenStep, PTL DEF Spec
<1>2. OpenInv => SubscribersAreOpen
  BY DEF OpenInv
<1> QED
  BY <1>1, <1>2, PTL

\* A handler that waits on an open channel is registered where its events come
\* from, even in a stream that was completed or discarded around it.
THEOREM NobodyForgotten == Spec => []NobodyIsForgotten
<1>1. Spec => [](TypeOK /\ OpenInv)
  BY TypeInit, TypeStep, OpenInit, OpenStep, PTL DEF Spec
<1>2. OpenInv => NobodyIsForgotten
  BY DEF OpenInv
<1> QED
  BY <1>1, <1>2, PTL

-----------------------------------------------------------------------------
(* Ids *)

LEMMA PublishedNumbers ==
  ASSUME NEW es \in StreamType, WellNumbered(es), ~es.done,
         NEW new \in StreamType, new.done = es.done, new.nextID = es.nextID + 1,
         new.events = Trimmed(Append(es.events, [id |-> es.nextID, event |-> "output"]))
  PROVE  WellNumbered(new)
<1> DEFINE event == [id |-> es.nextID, event |-> "output"]
           all == Append(es.events, event)
<1>1. /\ es.events \in Seq(Event) /\ es.nextID \in Nat \ {0} /\ event \in Event
      /\ event.id = es.nextID /\ event.event = "output"
  BY DEF StreamType, Event
<1>2. Len(es.events) \in Nat
  BY <1>1, LenProperties
<1>3. /\ all \in Seq(Event) /\ Len(all) = Len(es.events) + 1
      /\ \A j \in 1..Len(es.events) : all[j] = es.events[j]
      /\ all[Len(es.events) + 1] = event
  BY <1>1, AppendProperties
<1> HIDE DEF event, all
<1>4. \A j \in 1..Len(all) :
        all[j].id = es.nextID - Len(all) + j /\ all[j].event # "complete"
  <2> SUFFICES ASSUME NEW j \in 1..Len(all)
               PROVE  all[j].id = es.nextID - Len(all) + j /\ all[j].event # "complete"
    OBVIOUS
  <2>1. CASE j = Len(es.events) + 1
    BY <1>1, <1>2, <1>3, <2>1
  <2>2. CASE j # Len(es.events) + 1
    <3>1. j \in 1..Len(es.events)
      BY <1>2, <1>3, <2>2
    <3>2. /\ es.events[j].id = es.nextID - 1 - Len(es.events) + j
          /\ es.events[j].event # "complete"
      BY <3>1 DEF WellNumbered
    <3> QED
      BY <1>1, <1>2, <1>3, <3>1, <3>2
  <2> QED
    BY <2>1, <2>2
<1>5. PICK d \in 0..Len(all) :
        /\ Len(new.events) = Len(all) - d
        /\ \A j \in 1..(Len(all) - d) : new.events[j] = all[j + d]
  <2>1. new.events = Trimmed(all)
    BY DEF all, event
  <2> QED
    BY <1>3, <2>1, TrimmedEvents
<1>6. ASSUME NEW j \in 1..Len(new.events)
      PROVE  /\ new.events[j].id = new.nextID - 1 - Len(new.events) + j
             /\ new.events[j].event # "complete"
  <2>1. j + d \in 1..Len(all) /\ new.events[j] = all[j + d]
    BY <1>2, <1>3, <1>5
  <2>2. new.events[j].id = es.nextID - Len(all) + (j + d) /\ new.events[j].event # "complete"
    BY <1>4, <2>1
  <2> QED
    BY <1>1, <1>2, <1>3, <1>5, <2>2
<1> QED
  BY <1>6 DEF WellNumbered

LEMMA CompletedNumbers ==
  ASSUME NEW es \in StreamType, WellNumbered(es), ~es.done,
         NEW new \in StreamType, new.done, new.nextID = es.nextID + 1,
         new.events = Append(es.events, [id |-> es.nextID, event |-> "complete"])
  PROVE  WellNumbered(new)
<1> DEFINE event == [id |-> es.nextID, event |-> "complete"]
<1>1. /\ es.events \in Seq(Event) /\ es.nextID \in Nat \ {0} /\ event \in Event
      /\ event.id = es.nextID /\ event.event = "complete"
  BY DEF StreamType, Event
<1>2. Len(es.events) \in Nat
  BY <1>1, LenProperties
<1>3. /\ Len(new.events) = Len(es.events) + 1
      /\ \A j \in 1..Len(es.events) : new.events[j] = es.events[j]
      /\ new.events[Len(es.events) + 1] = event
  BY <1>1, AppendProperties
<1> HIDE DEF event
<1>4. ASSUME NEW j \in 1..Len(new.events)
      PROVE  /\ new.events[j].id = new.nextID - 1 - Len(new.events) + j
             /\ (new.events[j].event = "complete") <=> (j = Len(new.events))
  <2>1. CASE j = Len(es.events) + 1
    BY <1>1, <1>2, <1>3, <2>1
  <2>2. CASE j # Len(es.events) + 1
    <3>1. j \in 1..Len(es.events)
      BY <1>2, <1>3, <2>2
    <3>2. /\ es.events[j].id = es.nextID - 1 - Len(es.events) + j
          /\ es.events[j].event # "complete"
      BY <3>1 DEF WellNumbered
    <3>3. new.events[j].id = new.nextID - 1 - Len(new.events) + j
      <4>1. new.events[j] = es.events[j] /\ j \in Int
        BY <1>3, <3>1
      <4>2. new.nextID - 1 - Len(new.events) + j = es.nextID - 1 - Len(es.events) + j
        <5>1. \A n, l, k \in Int : (n + 1) - 1 - (l + 1) + k = n - 1 - l + k
          OBVIOUS
        <5>2. es.nextID \in Int /\ Len(es.events) \in Int /\ j \in Int
          BY <1>1, <1>2, <4>1
        <5>3. new.nextID = es.nextID + 1 /\ Len(new.events) = Len(es.events) + 1
          BY <1>3
        <5> QED
          BY <5>1, <5>2, <5>3
      <4> QED
        BY <3>2, <4>1, <4>2
    <3>4. new.events[j].event # "complete" /\ j # Len(new.events)
      BY <1>3, <2>2, <3>1, <3>2
    <3> QED
      BY <3>3, <3>4
  <2> QED
    BY <2>1, <2>2
<1> QED
  BY <1>4 DEF WellNumbered

\* What a step may do to a stream: nothing, number on, end, lose its content to
\* Cleanup, or change its subscribers.
LEMMA StreamSteps ==
  ASSUME TypeOK, BufferIsTheTail, [Next]_vars
  PROVE  /\ Len(streams') \in Nat /\ Len(streams) <= Len(streams')
         /\ \A i \in 1..Len(streams) :
              /\ WellNumbered(streams'[i])
              /\ streams[i].done => streams'[i].done /\ streams'[i].nextID = streams[i].nextID
         /\ \A i \in 1..Len(streams') : i > Len(streams) => WellNumbered(streams'[i])
<1>a. Len(streams) \in Nat /\ Typed /\ streams \in Seq(StreamType)
  BY LenProperties, TypeOKTyped DEF TypeOK
<1>b. \A i \in 1..Len(streams) : streams[i] \in StreamType /\ WellNumbered(streams[i])
  BY <1>a, ElementOfSeq DEF BufferIsTheTail
<1>c. \A i \in 1..Len(streams') : i \in 1..Len(streams) \/ i > Len(streams)
  BY <1>a
<1>1. ASSUME UNCHANGED streams
      PROVE  /\ Len(streams') \in Nat /\ Len(streams) <= Len(streams')
             /\ \A i \in 1..Len(streams) :
                  /\ WellNumbered(streams'[i])
                  /\ streams[i].done => streams'[i].done /\ streams'[i].nextID = streams[i].nextID
             /\ \A i \in 1..Len(streams') : i > Len(streams) => WellNumbered(streams'[i])
  BY <1>1, <1>a, <1>b
<1>2. ASSUME NEW i \in 1..(Len(streams) + 1), GetOrCreateStream(i)
      PROVE  /\ Len(streams') \in Nat /\ Len(streams) <= Len(streams')
             /\ \A j \in 1..Len(streams) :
                  /\ WellNumbered(streams'[j])
                  /\ streams[j].done => streams'[j].done /\ streams'[j].nextID = streams[j].nextID
             /\ \A j \in 1..Len(streams') : j > Len(streams) => WellNumbered(streams'[j])
  <2>1. /\ streams' \in Seq(StreamType) /\ Len(streams) <= Len(streams')
        /\ \A j \in 1..Len(streams) : streams'[j] = streams[j]
        /\ \A j \in 1..Len(streams') : j > Len(streams) => streams'[j] = EmptyStream
    BY <1>2, <1>a, GotStream
  <2>2. WellNumbered(EmptyStream)
    BY EmptySeq DEF WellNumbered, EmptyStream
  <2>3. Len(streams') \in Nat
    BY <2>1, LenProperties
  <2> QED
    BY <1>b, <2>1, <2>2, <2>3
<1>3. ASSUME NEW i \in 1..Len(streams), NEW new \in StreamType, WellNumbered(new),
             streams[i].done => new.done /\ new.nextID = streams[i].nextID,
             streams'[i] = new, Len(streams') = Len(streams),
             \A j \in 1..Len(streams) : j # i => streams'[j] = streams[j]
      PROVE  /\ Len(streams') \in Nat /\ Len(streams) <= Len(streams')
             /\ \A j \in 1..Len(streams) :
                  /\ WellNumbered(streams'[j])
                  /\ streams[j].done => streams'[j].done /\ streams'[j].nextID = streams[j].nextID
             /\ \A j \in 1..Len(streams') : j > Len(streams) => WellNumbered(streams'[j])
  BY <1>3, <1>a, <1>b
<1>4. CASE DoPublish
  <2> DEFINE i == writer[Worker].at
  <2>1. i \in 1..Len(streams) /\ Publish(i)
    BY <1>4 DEF DoPublish, TypeOK, Writer
  <2> HIDE DEF i
  <2>2. CASE streams[i].done
    <3>1. UNCHANGED streams
      BY <1>a, <2>1, <2>2, PublishedStream
    <3> QED
      BY <1>1, <3>1
  <2>3. CASE ~streams[i].done
    <3>1. /\ streams' \in Seq(StreamType) /\ Len(streams') = Len(streams)
          /\ \A j \in 1..Len(streams) : j # i => streams'[j] = streams[j]
          /\ streams'[i].done = streams[i].done
          /\ streams'[i].nextID = streams[i].nextID + 1
          /\ streams'[i].events = Trimmed(Append(streams[i].events,
                                         [id |-> streams[i].nextID, event |-> "output"]))
      BY <1>a, <2>1, <2>3, PublishedStream
    <3>2. streams'[i] \in StreamType
      BY <2>1, <3>1, ElementOfSeq
    <3>3. WellNumbered(streams'[i])
      BY <1>b, <2>1, <2>3, <3>1, <3>2, PublishedNumbers
    <3> QED
      BY <1>3, <2>1, <2>3, <3>1, <3>2, <3>3
  <2> QED
    BY <2>2, <2>3
<1>5. CASE \E w \in Writer : DoComplete(w)
  <2> PICK w \in Writer : DoComplete(w)
    BY <1>5
  <2> DEFINE i == writer[w].at
  <2>1. i \in 1..Len(streams) /\ Complete(i)
    BY DEF DoComplete, TypeOK
  <2> HIDE DEF i
  <2>2. CASE streams[i].done
    <3>1. UNCHANGED streams
      BY <1>a, <2>1, <2>2, CompletedStream
    <3> QED
      BY <1>1, <3>1
  <2>3. CASE ~streams[i].done
    <3>1. /\ streams' \in Seq(StreamType) /\ Len(streams') = Len(streams)
          /\ \A j \in 1..Len(streams) : j # i => streams'[j] = streams[j]
          /\ streams'[i].done
          /\ streams'[i].nextID = streams[i].nextID + 1
          /\ streams'[i].events = Append(streams[i].events,
                                         [id |-> streams[i].nextID, event |-> "complete"])
      BY <1>a, <2>1, <2>3, CompletedStream
    <3>2. streams'[i] \in StreamType
      BY <2>1, <3>1, ElementOfSeq
    <3>3. WellNumbered(streams'[i])
      BY <1>b, <2>1, <2>3, <3>1, <3>2, CompletedNumbers
    <3> QED
      BY <1>3, <2>1, <2>3, <3>1, <3>2, <3>3
  <2> QED
    BY <2>2, <2>3
<1>6. ASSUME NEW i \in 1..Len(streams), NEW ss \in SUBSET Session,
             streams' = [streams EXCEPT ![i] = [streams[i] EXCEPT !.subscribers = ss]]
      PROVE  /\ Len(streams') \in Nat /\ Len(streams) <= Len(streams')
             /\ \A j \in 1..Len(streams) :
                  /\ WellNumbered(streams'[j])
                  /\ streams[j].done => streams'[j].done /\ streams'[j].nextID = streams[j].nextID
             /\ \A j \in 1..Len(streams') : j > Len(streams) => WellNumbered(streams'[j])
  <2> DEFINE new == [streams[i] EXCEPT !.subscribers = ss]
  <2>1. /\ new \in StreamType /\ new.events = streams[i].events
        /\ new.nextID = streams[i].nextID /\ new.done = streams[i].done
    BY <1>b, <1>6 DEF StreamType
  <2>2. streams' = [streams EXCEPT ![i] = new]
    BY <1>6
  <2> HIDE DEF new
  <2>3. /\ streams'[i] = new /\ Len(streams') = Len(streams)
        /\ \A j \in 1..Len(streams) : j # i => streams'[j] = streams[j]
    BY <1>a, <2>1, <2>2, StreamReplaced
  <2>4. WellNumbered(new)
    BY <1>b, <2>1 DEF WellNumbered
  <2> QED
    BY <1>3, <2>1, <2>3, <2>4
<1>7. CASE \E s \in Session : Subscribe(s)
  <2> PICK s \in Session : Subscribe(s)
    BY <1>7
  <2> DEFINE i == session[s].at
             ss == streams[i].subscribers \cup {s}
  <2>1. i \in 1..Len(streams) /\ streams[i] \in StreamType
    BY SessionFields DEF Subscribe
  <2>2. \/ UNCHANGED streams
        \/ streams' = [streams EXCEPT ![i] = [streams[i] EXCEPT !.subscribers = ss]]
    <3>1. \/ UNCHANGED streams
          \/ streams' = [streams EXCEPT ![i].subscribers = @ \cup {s}]
      BY DEF Subscribe, Replayed
    <3> QED
      BY <1>a, <2>1, <3>1
  <2>3. ss \in SUBSET Session
    BY <2>1 DEF StreamType
  <2> HIDE DEF i, ss
  <2> QED
    BY <1>1, <1>6, <2>1, <2>2, <2>3
<1>8. CASE \E s \in Session : Unsubscribe(s)
  <2> PICK s \in Session : Unsubscribe(s)
    BY <1>8
  <2> DEFINE i == session[s].at
             ss == streams[i].subscribers \ {s}
  <2>1. i \in 1..Len(streams) /\ streams[i] \in StreamType
    BY SessionFields DEF Unsubscribe
  <2>2. streams' = [streams EXCEPT ![i] = [streams[i] EXCEPT !.subscribers = ss]]
    BY <1>a, <2>1 DEF Unsubscribe
  <2>3. ss \in SUBSET Session
    BY <2>1 DEF StreamType
  <2> HIDE DEF i, ss
  <2> QED
    BY <1>6, <2>1, <2>2, <2>3
<1>9. CASE Cleanup
  <2> DEFINE i == Len(streams)
             new == [streams[i] EXCEPT !.events = <<>>, !.live = FALSE, !.subscribers = {}]
  <2>1. CASE UNCHANGED streams
    BY <1>1, <2>1
  <2>2. CASE mapped /\ streams' = [streams EXCEPT ![i] = new]
    <3>1. i \in 1..Len(streams) /\ streams[i] \in StreamType
      BY <1>a, <1>b, <2>2, EmptySeq DEF TypeOK
    <3>2. /\ new \in StreamType /\ new.events = <<>>
          /\ new.nextID = streams[i].nextID /\ new.done = streams[i].done
      BY <3>1, EmptySeq DEF StreamType
    <3> HIDE DEF new, i
    <3>3. /\ streams'[i] = new /\ Len(streams') = Len(streams)
          /\ \A j \in 1..Len(streams) : j # i => streams'[j] = streams[j]
      BY <1>a, <2>2, <3>1, <3>2, StreamReplaced
    <3>4. WellNumbered(new)
      BY <3>2, EmptySeq DEF WellNumbered
    <3> QED
      BY <1>3, <3>1, <3>2, <3>3, <3>4
  <2> QED
    BY <1>9, <2>1, <2>2 DEF Cleanup
<1>10. CASE CallPublish \/ (\E w \in Writer : CallComplete(w)) \/ \E s \in Session : CallSubscribe(s)
  <2>1. \E i \in 1..(Len(streams) + 1) : GetOrCreateStream(i)
    BY <1>10 DEF CallPublish, CallComplete, CallSubscribe
  <2> QED
    BY <1>2, <2>1
<1>11. CASE \/ \E s \in Session : Serve(s) \/ EndLoop(s) \/ Request(s) \/ Drop(s)
            \/ \E c \in Client : Reopen(c)
            \/ UNCHANGED vars
  <2>1. UNCHANGED streams
    BY <1>11 DEF Serve, EndLoop, Request, Drop, Reopen, vars
  <2> QED
    BY <1>1, <2>1
<1> QED
  BY <1>4, <1>5, <1>7, <1>8, <1>9, <1>10, <1>11 DEF Next, Handle

LEMMA NumberStep == TypeOK /\ BufferIsTheTail /\ [Next]_vars => BufferIsTheTail'
<1> SUFFICES ASSUME TypeOK, BufferIsTheTail, [Next]_vars PROVE BufferIsTheTail'
  OBVIOUS
<1>1. Len(streams) \in Nat
  BY LenProperties DEF TypeOK
<1>2. \A i \in 1..Len(streams') : i \in 1..Len(streams) \/ i > Len(streams)
  BY <1>1
<1> QED
  BY <1>2, StreamSteps DEF BufferIsTheTail

LEMMA NumberInit == Init => BufferIsTheTail
BY EmptySeq DEF Init, BufferIsTheTail

\* However the buffer is trimmed and whoever completes the stream, ids have no
\* gap up to the last one given, and nothing comes after a complete event.
THEOREM BuffersAreTails == Spec => []BufferIsTheTail
  BY TypeInit, TypeStep, NumberInit, NumberStep, PTL DEF Spec

-----------------------------------------------------------------------------
(* The end of a stream *)

\* A complete event waiting for a handler is the last event of its stream.
LastOf(s) ==
  InLoop(s) =>
    \A j \in 1..Len(session[s].buf) :
      session[s].buf[j].event = "complete" =>
        /\ streams[session[s].at].done
        /\ session[s].buf[j].id = streams[session[s].at].nextID - 1

LastInv == \A s \in Session : LastOf(s)

\* Before the first Cleanup there is one stream at most.
OneStream == cleanups = 0 => Len(streams) = IF mapped THEN 1 ELSE 0

FinishedInv ==
  cleanups = 0 =>
    \A c \in Client :
      page[c].stage = "finished" =>
        /\ mapped /\ streams[1].done
        /\ page[c].last = streams[1].nextID - 1

LEMMA LastKept ==
  ASSUME TypeOK, BufferIsTheTail, [Next]_vars, NEW s \in Session, LastOf(s),
         InLoop(s), session'[s].at = session[s].at,
         \A j \in 1..Len(session'[s].buf) :
           session'[s].buf[j].event = "complete" =>
             \E k \in 1..Len(session[s].buf) : session'[s].buf[j] = session[s].buf[k]
  PROVE  LastOf(s)'
<1> SUFFICES ASSUME NEW j \in 1..Len(session'[s].buf),
                    session'[s].buf[j].event = "complete"
             PROVE  /\ streams'[session'[s].at].done
                    /\ session'[s].buf[j].id = streams'[session'[s].at].nextID - 1
  BY DEF LastOf
<1>1. session[s].at \in 1..Len(streams)
  BY DEF InLoop, TypeOK
<1>2. PICK k \in 1..Len(session[s].buf) : session'[s].buf[j] = session[s].buf[k]
  OBVIOUS
<1>3. /\ streams[session[s].at].done
      /\ session[s].buf[k].id = streams[session[s].at].nextID - 1
  BY <1>2 DEF LastOf
<1>4. /\ streams'[session[s].at].done
      /\ streams'[session[s].at].nextID = streams[session[s].at].nextID
  BY <1>1, <1>3, StreamSteps
<1> QED
  BY <1>2, <1>3, <1>4

\* The replay of a well numbered buffer ends with the complete event, if at all.
LEMMA ReplayLast ==
  ASSUME NEW es \in StreamType, WellNumbered(es), NEW k \in 1..(Len(es.events) + 1),
         NEW replay, replay = SubSeq(es.events, k, Len(es.events))
  PROVE  \A j \in 1..Len(replay) :
           replay[j].event = "complete" => es.done /\ replay[j].id = es.nextID - 1
<1>1. es.events \in Seq(Event) /\ es.nextID \in Nat
  BY DEF StreamType
<1>2. Len(es.events) \in Nat
  BY <1>1, LenProperties
<1>3. \A j \in k..Len(es.events) : es.events[j] \in Event
  <2>1. \A j \in k..Len(es.events) : j \in 1..Len(es.events)
    BY <1>2
  <2> QED
    BY <1>1, <2>1, ElementOfSeq
<1>4. /\ Len(replay) = IF k <= Len(es.events) THEN Len(es.events) - k + 1 ELSE 0
      /\ \A j \in 1..(Len(es.events) - k + 1) : replay[j] = es.events[k + j - 1]
  <2>1. k \in Int /\ Len(es.events) \in Int
    BY <1>2
  <2> QED
    BY <1>3, <2>1, SubSeqProperties
<1> SUFFICES ASSUME NEW j \in 1..Len(replay), replay[j].event = "complete"
             PROVE  es.done /\ replay[j].id = es.nextID - 1
  OBVIOUS
<1>5. k + j - 1 \in 1..Len(es.events) /\ replay[j] = es.events[k + j - 1]
  BY <1>2, <1>4
<1>6. es.done /\ k + j - 1 = Len(es.events)
  BY <1>5 DEF WellNumbered
<1>7. replay[j].id = es.nextID - 1 - Len(es.events) + Len(es.events)
  BY <1>5, <1>6 DEF WellNumbered
<1>8. es.nextID - 1 - Len(es.events) + Len(es.events) = es.nextID - 1
  BY <1>1, <1>2
<1> QED
  BY <1>6, <1>7, <1>8

LEMMA LastStep ==
  TypeOK /\ OpenInv /\ BufferIsTheTail /\ LastInv /\ [Next]_vars => LastInv'
<1> SUFFICES ASSUME TypeOK, OpenInv, BufferIsTheTail, LastInv, [Next]_vars,
                    NEW s \in Session
             PROVE  LastOf(s)'
  BY DEF LastInv
<1>a. Len(streams) \in Nat /\ Typed /\ streams \in Seq(StreamType)
  BY LenProperties, TypeOKTyped DEF TypeOK
<1>b. LastOf(s)
  BY DEF LastInv
<1>c. session[s] \in SessionType /\ session[s].buf \in Seq(Event)
  BY SessionFields
<1>1. ASSUME session'[s].stage = session[s].stage \/ ~InLoop(s)',
             session'[s].at = session[s].at \/ ~InLoop(s),
             session'[s].buf = session[s].buf \/ ~InLoop(s)'
      PROVE  LastOf(s)'
  <2>1. CASE InLoop(s)'
    <3>1. InLoop(s) /\ session'[s].at = session[s].at /\ session'[s].buf = session[s].buf
      BY <1>1, <2>1 DEF InLoop
    <3>2. \A j \in 1..Len(session'[s].buf) :
             session'[s].buf[j].event = "complete" =>
               \E k \in 1..Len(session[s].buf) : session'[s].buf[j] = session[s].buf[k]
      BY <3>1
    <3> QED
      BY <1>b, <3>1, <3>2, LastKept
  <2>2. CASE ~InLoop(s)'
    BY <2>2 DEF LastOf
  <2> QED
    BY <2>1, <2>2
<1>2. CASE DoPublish
  <2> DEFINE i == writer[Worker].at
  <2>1. i \in 1..Len(streams) /\ Publish(i)
    BY <1>2 DEF DoPublish, TypeOK, Writer
  <2> HIDE DEF i
  <2> DEFINE event == [id |-> streams[i].nextID, event |-> "output"]
  <2>2. /\ session'[s].stage = session[s].stage /\ session'[s].at = session[s].at
        /\ session'[s].buf = session[s].buf \/ session'[s].buf = Append(session[s].buf, event)
    BY <1>a, <2>1, PublishedSessions
  <2>3. event \in Event /\ event.event # "complete"
    <3>1. streams[i] \in StreamType
      BY <1>a, <2>1, ElementOfSeq
    <3> QED
      BY <3>1 DEF StreamType, Event
  <2> HIDE DEF event
  <2>4. CASE session'[s].buf = session[s].buf
    BY <1>1, <2>2, <2>4
  <2>5. CASE session'[s].buf = Append(session[s].buf, event)
    <3>1. /\ Len(session'[s].buf) = Len(session[s].buf) + 1 /\ Len(session[s].buf) \in Nat
          /\ \A j \in 1..Len(session[s].buf) : session'[s].buf[j] = session[s].buf[j]
          /\ session'[s].buf[Len(session[s].buf) + 1] = event
      BY <1>c, <2>3, <2>5, AppendProperties, LenProperties
    <3>2. \A j \in 1..Len(session'[s].buf) :
            j \in 1..Len(session[s].buf) \/ j = Len(session[s].buf) + 1
      BY <3>1
    <3>3. \A j \in 1..Len(session'[s].buf) :
             session'[s].buf[j].event = "complete" =>
               \E k \in 1..Len(session[s].buf) : session'[s].buf[j] = session[s].buf[k]
      BY <2>3, <3>1, <3>2
    <3>4. CASE InLoop(s)
      BY <1>b, <2>2, <3>3, <3>4, LastKept
    <3>5. CASE ~InLoop(s)
      BY <2>2, <3>5 DEF LastOf, InLoop
    <3> QED
      BY <3>4, <3>5
  <2> QED
    BY <2>2, <2>4, <2>5
<1>3. CASE \E w \in Writer : DoComplete(w)
  <2> PICK w \in Writer : DoComplete(w)
    BY <1>3
  <2> DEFINE i == writer[w].at
  <2>1. i \in 1..Len(streams) /\ Complete(i)
    BY DEF DoComplete, TypeOK
  <2> HIDE DEF i
  <2> DEFINE event == [id |-> streams[i].nextID, event |-> "complete"]
  <2>2. CASE streams[i].done
    <3>1. UNCHANGED session
      BY <1>a, <2>1, <2>2, CompletedStream
    <3> QED
      BY <1>1, <3>1
  <2>3. CASE ~streams[i].done
    <3>1. /\ session'[s].stage = session[s].stage /\ session'[s].at = session[s].at
          /\ \/ session'[s].buf = session[s].buf
             \/ s \in streams[i].subscribers /\ session'[s].buf = Append(session[s].buf, event)
      BY <1>a, <2>1, CompletedSessions
    <3>2. streams'[i].done /\ streams'[i].nextID = streams[i].nextID + 1
      BY <1>a, <2>1, <2>3, CompletedStream
    <3>3. streams[i].nextID \in Nat /\ event \in Event /\ event.id = streams[i].nextID
      <4>1. streams[i] \in StreamType
        BY <1>a, <2>1, ElementOfSeq
      <4> QED
        BY <4>1 DEF StreamType, Event
    <3> HIDE DEF event
    <3>4. CASE session'[s].buf = session[s].buf
      BY <1>1, <3>1, <3>4
    <3>5. CASE /\ s \in streams[i].subscribers
               /\ session'[s].buf = Append(session[s].buf, event)
      <4>1. session[s].at = i
        BY <2>1, <3>5 DEF OpenInv, SubscribersAreOpen
      <4>2. CASE InLoop(s)
        <5>1. /\ Len(session'[s].buf) = Len(session[s].buf) + 1 /\ Len(session[s].buf) \in Nat
              /\ \A j \in 1..Len(session[s].buf) : session'[s].buf[j] = session[s].buf[j]
              /\ session'[s].buf[Len(session[s].buf) + 1] = event
          BY <1>c, <3>3, <3>5, AppendProperties, LenProperties
        <5>2. \A j \in 1..Len(session[s].buf) : session[s].buf[j].event # "complete"
          BY <1>b, <2>3, <4>1, <4>2 DEF LastOf
        <5>3. ASSUME NEW j \in 1..Len(session'[s].buf),
                     session'[s].buf[j].event = "complete"
              PROVE  session'[s].buf[j].id = streams[i].nextID
          <6>1. j \in 1..Len(session[s].buf) \/ j = Len(session[s].buf) + 1
            BY <5>1
          <6>2. j \notin 1..Len(session[s].buf)
            BY <5>1, <5>2, <5>3
          <6> QED
            BY <3>3, <5>1, <6>1, <6>2
        <5>4. streams[i].nextID = streams'[i].nextID - 1
          BY <3>2, <3>3
        <5> QED
          BY <3>1, <3>2, <4>1, <5>3, <5>4 DEF LastOf
      <4>3. CASE ~InLoop(s)
        BY <3>1, <4>3 DEF LastOf, InLoop
      <4> QED
        BY <4>2, <4>3
    <3> QED
      BY <3>1, <3>4, <3>5
  <2> QED
    BY <2>2, <2>3
<1>4. CASE \E v \in Session : Subscribe(v)
  <2> PICK v \in Session : Subscribe(v)
    BY <1>4
  <2> DEFINE i == session[v].at
             es == streams[i]
  <2>1. i \in 1..Len(streams) /\ es \in StreamType /\ session[v] \in SessionType
        /\ WellNumbered(es)
    BY SessionFields DEF Subscribe, BufferIsTheTail
  <2>2. PICK k \in 1..(Len(es.events) + 1) : Replayed(v, SubSeq(es.events, k, Len(es.events)))
    BY DEF Subscribe
  <2> DEFINE replay == SubSeq(es.events, k, Len(es.events))
  <2>3. CASE v # s
    <3>1. session'[s] = session[s]
      <4> HIDE DEF replay
      <4> QED
        BY <2>2, <2>3 DEF Replayed, TypeOK
    <3> QED
      BY <1>1, <3>1
  <2>4. CASE v = s
    <3>1. CASE ~InLoop(s)'
      BY <3>1 DEF LastOf
    <3>2. CASE InLoop(s)'
      <4>1. session'[s].buf = replay /\ session'[s].at = i
        <5>1. \/ session' = [session EXCEPT ![s].stage = "blocked",
                                            ![s].buf = SubSeq(replay, 1, ChanCap)]
              \/ session' = [session EXCEPT ![s].stage = "replaying", ![s].buf = replay,
                                            ![s].closed = TRUE]
              \/ session' = [session EXCEPT ![s].stage = "serving", ![s].buf = replay]
              \/ session' = [session EXCEPT ![s].stage = "panicked", ![s].up = FALSE]
          BY <2>2, <2>4 DEF Replayed
        <5> HIDE DEF replay
        <5>2. session \in [Session -> SessionType]
          BY DEF TypeOK
        <5> QED
          BY <1>c, <2>4, <3>2, <5>1, <5>2 DEF InLoop, SessionType
      <4>2. \A j \in 1..Len(replay) :
              replay[j].event = "complete" => es.done /\ replay[j].id = es.nextID - 1
        <5>1. \A e \in StreamType : WellNumbered(e) =>
                 \A n \in 1..(Len(e.events) + 1) :
                   \A j \in 1..Len(SubSeq(e.events, n, Len(e.events))) :
                     SubSeq(e.events, n, Len(e.events))[j].event = "complete" =>
                       e.done /\ SubSeq(e.events, n, Len(e.events))[j].id = e.nextID - 1
          BY ReplayLast
        <5> HIDE DEF es
        <5> QED
          BY <2>1, <5>1
      <4>3. es.done => streams'[i].done /\ streams'[i].nextID = es.nextID
        BY <2>1, StreamSteps
      <4> HIDE DEF replay, es, i
      <4> QED
        BY <4>1, <4>2, <4>3 DEF LastOf
    <3> QED
      BY <3>1, <3>2
  <2> QED
    BY <2>3, <2>4
<1>5. CASE \E v \in Session : Serve(v)
  <2> PICK v \in Session : Serve(v)
    BY <1>5
  <2>1. CASE v # s
    <3>1. session'[s] = session[s]
      BY <2>1 DEF Serve, TypeOK
    <3> QED
      BY <1>1, <3>1
  <2>2. CASE v = s
    <3>1. /\ InLoop(s) /\ session[s].buf # <<>>
          /\ session'[s].at = session[s].at /\ session'[s].buf = Tail(session[s].buf)
      BY <1>c, <2>2 DEF Serve, TypeOK, SessionType
    <3>2. /\ Len(session'[s].buf) = Len(session[s].buf) - 1 /\ Len(session[s].buf) \in Nat
          /\ \A j \in 1..Len(session'[s].buf) : session'[s].buf[j] = session[s].buf[j + 1]
      BY <1>c, <3>1, HeadTailProperties, LenProperties
    <3>3. \A j \in 1..Len(session'[s].buf) : j + 1 \in 1..Len(session[s].buf)
      BY <3>2
    <3> QED
      BY <1>b, <3>1, <3>2, <3>3, LastKept
  <2> QED
    BY <2>1, <2>2
<1>6. CASE \E v \in Session : CallSubscribe(v) \/ EndLoop(v) \/ Unsubscribe(v) \/ Request(v)
  <2> PICK v \in Session : CallSubscribe(v) \/ EndLoop(v) \/ Unsubscribe(v) \/ Request(v)
    BY <1>6
  <2>1. CASE v # s
    <3>1. session'[s] = session[s]
      <4> USE DEF TypeOK
      <4>1. CASE CallSubscribe(v)
        BY <2>1, <4>1 DEF CallSubscribe
      <4>2. CASE EndLoop(v)
        BY <2>1, <4>2 DEF EndLoop
      <4>3. CASE Unsubscribe(v)
        BY <2>1, <4>3 DEF Unsubscribe
      <4>4. CASE Request(v)
        BY <2>1, <4>4 DEF Request
      <4> QED
        BY <4>1, <4>2, <4>3, <4>4
    <3> QED
      BY <1>1, <3>1
  <2>2. CASE v = s
    <3>1. session'[s].stage \in {"subscribing", "leaving", "idle", "requested"}
      <4>a. session \in [Session -> SessionType]
        BY DEF TypeOK
      <4>1. CASE CallSubscribe(v)
        <5>1. PICK i \in 1..(Len(streams) + 1) :
                session' = [session EXCEPT ![s].stage = "subscribing", ![s].at = i]
          BY <2>2, <4>1 DEF CallSubscribe
        <5> QED
          BY <4>a, <5>1 DEF SessionType
      <4>2. CASE EndLoop(v)
        <5>1. \/ session' = [session EXCEPT ![s].stage = "leaving"]
              \/ session' = [session EXCEPT ![s] = IdleSession]
          BY <2>2, <4>2 DEF EndLoop
        <5> QED
          BY <4>a, <5>1 DEF SessionType, IdleSession
      <4>3. CASE Unsubscribe(v)
        BY <2>2, <4>a, <4>3 DEF Unsubscribe, IdleSession
      <4>4. CASE Request(v)
        BY <2>2, <4>a, <4>4 DEF Request, IdleSession
      <4> QED
        BY <4>1, <4>2, <4>3, <4>4
    <3> QED
      BY <3>1 DEF LastOf, InLoop
  <2> QED
    BY <2>1, <2>2
<1>7. CASE \/ \E v \in Session : Drop(v)
           \/ \E c \in Client : Reopen(c)
  <2>1. /\ session'[s].stage = session[s].stage /\ session'[s].at = session[s].at
        /\ session'[s].buf = session[s].buf
    <3>1. ASSUME NEW v \in Session, Drop(v)
          PROVE  /\ session'[s].stage = session[s].stage /\ session'[s].at = session[s].at
                 /\ session'[s].buf = session[s].buf
      BY <1>c, <3>1 DEF Drop, TypeOK, SessionType
    <3>2. ASSUME NEW c \in Client, Reopen(c)
          PROVE  /\ session'[s].stage = session[s].stage /\ session'[s].at = session[s].at
                 /\ session'[s].buf = session[s].buf
      BY <1>c, <3>2 DEF Reopen, TypeOK, SessionType
    <3> QED
      BY <1>7, <3>1, <3>2
  <2> QED
    BY <1>1, <2>1
<1>8. CASE Cleanup
  <2>1. /\ session'[s].stage = session[s].stage /\ session'[s].at = session[s].at
        /\ session'[s].buf = session[s].buf
    <3>1. CASE UNCHANGED session
      BY <3>1
    <3>2. CASE session' = Closed(session, streams[Len(streams)].subscribers)
      BY <3>2, ClosedChannels DEF TypeOK
    <3> QED
      BY <1>8, <3>1, <3>2 DEF Cleanup
  <2> QED
    BY <1>1, <2>1
<1>9. CASE CallPublish \/ (\E w \in Writer : CallComplete(w)) \/ UNCHANGED vars
  <2>1. UNCHANGED session
    BY <1>9 DEF CallPublish, CallComplete, vars
  <2> QED
    BY <1>1, <2>1
<1> QED
  BY <1>2, <1>3, <1>4, <1>5, <1>6, <1>7, <1>8, <1>9 DEF Next, Handle

LEMMA LastInit == Init => LastInv
  BY DEF Init, LastInv, LastOf, InLoop, IdleSession

LEMMA OneStep == TypeOK /\ OneStream /\ [Next]_vars => OneStream'
<1> SUFFICES ASSUME TypeOK, OneStream, [Next]_vars, cleanups' = 0
             PROVE  Len(streams') = IF mapped' THEN 1 ELSE 0
  BY DEF OneStream
<1>a. /\ Len(streams) \in Nat /\ Typed /\ streams \in Seq(StreamType)
      /\ cleanups \in Nat /\ mapped \in BOOLEAN
  BY LenProperties, TypeOKTyped, BoundsAssumption DEF TypeOK
<1>1. ASSUME NEW i \in 1..(Len(streams) + 1), GetOrCreateStream(i), UNCHANGED cleanups
      PROVE  Len(streams') = IF mapped' THEN 1 ELSE 0
  <2>1. CASE mapped
    BY <1>1, <1>a, <2>1 DEF GetOrCreateStream, OneStream
  <2>2. CASE ~mapped
    <3>1. Len(streams) = 0 /\ streams' = Append(streams, EmptyStream) /\ mapped'
      BY <1>1, <2>2 DEF GetOrCreateStream, OneStream
    <3>2. Len(streams') = Len(streams) + 1
      BY <1>a, <3>1, EmptyStreamType, AppendProperties
    <3> QED
      BY <3>1, <3>2
  <2> QED
    BY <2>1, <2>2
<1>2. ASSUME UNCHANGED <<mapped, cleanups>>, Len(streams') = Len(streams)
      PROVE  Len(streams') = IF mapped' THEN 1 ELSE 0
  BY <1>2 DEF OneStream
<1>3. CASE \/ CallPublish
           \/ \E w \in Writer : CallComplete(w)
           \/ \E s \in Session : CallSubscribe(s)
  BY <1>1, <1>3 DEF CallPublish, CallComplete, CallSubscribe, counters
<1>4. CASE DoPublish
  <2> DEFINE i == writer[Worker].at
  <2>1. i \in 1..Len(streams) /\ Publish(i) /\ UNCHANGED <<mapped, cleanups>>
    BY <1>4 DEF DoPublish, TypeOK, Writer, counters
  <2> HIDE DEF i
  <2>2. Len(streams') = Len(streams)
    BY <1>a, <2>1, PublishedStream
  <2> QED
    BY <1>2, <2>1, <2>2
<1>5. CASE \E w \in Writer : DoComplete(w)
  <2> PICK w \in Writer : DoComplete(w)
    BY <1>5
  <2> DEFINE i == writer[w].at
  <2>1. i \in 1..Len(streams) /\ Complete(i) /\ UNCHANGED <<mapped, cleanups>>
    BY DEF DoComplete, TypeOK, counters
  <2> HIDE DEF i
  <2>2. Len(streams') = Len(streams)
    BY <1>a, <2>1, CompletedStream
  <2> QED
    BY <1>2, <2>1, <2>2
<1>6. CASE \E s \in Session : Subscribe(s)
  <2> PICK s \in Session : Subscribe(s)
    BY <1>6
  <2>1. UNCHANGED <<mapped, cleanups>>
    BY DEF Subscribe, counters
  <2>2. \/ UNCHANGED streams
        \/ streams' = [streams EXCEPT ![session[s].at].subscribers = @ \cup {s}]
    BY DEF Subscribe, Replayed
  <2>3. Len(streams') = Len(streams)
    BY <1>a, <2>2
  <2> QED
    BY <1>2, <2>1, <2>3
<1>7. CASE \E s \in Session : Unsubscribe(s)
  <2> PICK s \in Session : Unsubscribe(s)
    BY <1>7
  <2>1. UNCHANGED <<mapped, cleanups>>
    BY DEF Unsubscribe, counters
  <2>2. Len(streams') = Len(streams)
    BY <1>a DEF Unsubscribe
  <2> QED
    BY <1>2, <2>1, <2>2
<1>8. CASE \/ \E s \in Session : Serve(s) \/ EndLoop(s) \/ Request(s) \/ Drop(s)
           \/ \E c \in Client : Reopen(c)
           \/ UNCHANGED vars
  <2>1. UNCHANGED <<streams, mapped, cleanups>>
    BY <1>8 DEF Serve, EndLoop, Request, Drop, Reopen, counters, vars
  <2> QED
    BY <1>2, <2>1
<1>9. CASE Cleanup
  BY <1>9, <1>a DEF Cleanup
<1> QED
  BY <1>3, <1>4, <1>5, <1>6, <1>7, <1>8, <1>9 DEF Next, Handle

\* Only the complete event finishes a page.
LEMMA PageSteps ==
  ASSUME TypeOK, [Next]_vars, NEW c \in Client
  PROVE  \/ page'[c] = page[c]
         \/ page'[c].stage # "finished"
         \/ \E s \in Session :
              /\ InLoop(s) /\ session[s].buf # <<>>
              /\ Head(session[s].buf).event = "complete"
              /\ page'[c].last = Head(session[s].buf).id
              /\ UNCHANGED <<streams, mapped, cleanups>>
<1>a. page \in [Client -> PageType] /\ page[c] \in PageType
  BY DEF TypeOK
<1>1. CASE UNCHANGED page
  BY <1>1
<1>2. CASE \E s \in Session : Serve(s)
  <2> PICK s \in Session : Serve(s)
    BY <1>2
  <2> DEFINE event == Head(session[s].buf)
             over == event.event = "complete"
  <2>1. /\ InLoop(s) /\ session[s].buf # <<>> /\ UNCHANGED <<streams, mapped, cleanups>>
        /\ \/ UNCHANGED page
           \/ page' = [page EXCEPT ![ClientOf[s]] =
                         [stage |-> IF over THEN "finished" ELSE "live",
                          shown |-> Append(@.shown, event.id),
                          last |-> event.id]]
    BY DEF Serve, counters
  <2>2. CASE page' = [page EXCEPT ![ClientOf[s]] =
                         [stage |-> IF over THEN "finished" ELSE "live",
                          shown |-> Append(@.shown, event.id),
                          last |-> event.id]]
    <3> HIDE DEF event
    <3>1. CASE ClientOf[s] # c
      BY <1>a, <2>2, <3>1
    <3>2. CASE ClientOf[s] = c
      <4>1. /\ page'[c].stage = IF over THEN "finished" ELSE "live"
            /\ page'[c].last = event.id
        BY <1>a, <2>2, <3>2
      <4> QED
        BY <2>1, <4>1 DEF event
    <3> QED
      BY <3>1, <3>2
  <2> QED
    BY <1>1, <2>1, <2>2
<1>3. CASE \E s \in Session : Subscribe(s)
  <2> PICK s \in Session : Subscribe(s)
    BY <1>3
  <2>1. \/ UNCHANGED page
        \/ page' = [page EXCEPT ![ClientOf[s]].stage = IF session[s].up THEN "failed" ELSE @]
    BY DEF Subscribe, Replayed
  <2>2. CASE page' = [page EXCEPT ![ClientOf[s]].stage = IF session[s].up THEN "failed" ELSE @]
    <3>1. CASE ClientOf[s] # c
      BY <1>a, <2>2, <3>1
    <3>2. CASE ClientOf[s] = c
      <4>1. page'[c] = [page[c] EXCEPT !.stage = IF session[s].up THEN "failed" ELSE @]
        BY <1>a, <2>2, <3>2
      <4> QED
        BY <1>a, <4>1 DEF PageType
    <3> QED
      BY <3>1, <3>2
  <2> QED
    BY <1>1, <2>1, <2>2
<1>4. CASE \E s \in Session : Request(s)
  <2> PICK s \in Session : Request(s)
    BY <1>4
  <2> QED
    BY <1>a DEF Request, PageType
<1>5. CASE \E d \in Client : Reopen(d)
  <2> PICK d \in Client : Reopen(d)
    BY <1>5
  <2> QED
    BY <1>a DEF Reopen, PageType
<1>6. CASE \/ CallPublish \/ DoPublish \/ Cleanup \/ UNCHANGED vars
           \/ \E w \in Writer : CallComplete(w) \/ DoComplete(w)
           \/ \E s \in Session : CallSubscribe(s) \/ EndLoop(s) \/ Unsubscribe(s) \/ Drop(s)
  <2>1. UNCHANGED page
    BY <1>6 DEF CallPublish, DoPublish, Cleanup, CallComplete, DoComplete, CallSubscribe,
                EndLoop, Unsubscribe, Drop, vars
  <2> QED
    BY <1>1, <2>1
<1> QED
  BY <1>2, <1>3, <1>4, <1>5, <1>6 DEF Next, Handle

LEMMA FinishedStep ==
  ASSUME TypeOK, BufferIsTheTail, LastInv, OneStream, FinishedInv, [Next]_vars
  PROVE  FinishedInv'
<1> SUFFICES ASSUME cleanups' = 0, NEW c \in Client, page'[c].stage = "finished"
             PROVE  /\ mapped' /\ streams'[1].done
                    /\ page'[c].last = streams'[1].nextID - 1
  BY DEF FinishedInv
<1>a. /\ Len(streams) \in Nat /\ cleanups \in Nat /\ mapped \in BOOLEAN
  BY LenProperties, BoundsAssumption DEF TypeOK
<1>b. cleanups = 0 /\ (mapped => mapped')
  <2>1. CASE Cleanup
    BY <1>a, <2>1 DEF Cleanup
  <2>2. CASE ~Cleanup
    <3>1. CASE \/ CallPublish
               \/ \E w \in Writer : CallComplete(w)
               \/ \E s \in Session : CallSubscribe(s)
      BY <3>1 DEF CallPublish, CallComplete, CallSubscribe, GetOrCreateStream, counters
    <3>2. CASE \/ DoPublish
               \/ \E w \in Writer : DoComplete(w)
               \/ \E s \in Session : Subscribe(s) \/ Serve(s) \/ EndLoop(s) \/ Unsubscribe(s)
      <4>1. UNCHANGED <<mapped, cleanups>>
        BY <3>2 DEF DoPublish, DoComplete, Subscribe, Serve, EndLoop, Unsubscribe, counters
      <4> QED
        BY <4>1
    <3>3. CASE \/ \E s \in Session : Request(s) \/ Drop(s)
               \/ \E d \in Client : Reopen(d)
               \/ UNCHANGED vars
      <4>1. UNCHANGED <<mapped, cleanups>>
        BY <3>3 DEF Request, Drop, Reopen, counters, vars
      <4> QED
        BY <4>1
    <3> QED
      BY <2>2, <3>1, <3>2, <3>3 DEF Next, Handle
  <2> QED
    BY <2>1, <2>2
<1>1. CASE page'[c] = page[c]
  <2>1. mapped /\ streams[1].done /\ page[c].last = streams[1].nextID - 1
    BY <1>1, <1>b DEF FinishedInv
  <2>2. 1 \in 1..Len(streams)
    <3>1. Len(streams) = 1
      BY <1>b, <2>1 DEF OneStream
    <3> QED
      BY <3>1
  <2>3. streams'[1].done /\ streams'[1].nextID = streams[1].nextID
    BY <2>1, <2>2, StreamSteps
  <2> QED
    BY <1>1, <1>b, <2>1, <2>3
<1>2. ASSUME NEW s \in Session, InLoop(s), session[s].buf # <<>>,
             Head(session[s].buf).event = "complete",
             page'[c].last = Head(session[s].buf).id,
             UNCHANGED <<streams, mapped, cleanups>>
      PROVE  /\ mapped' /\ streams'[1].done
             /\ page'[c].last = streams'[1].nextID - 1
  <2>1. /\ session[s].buf \in Seq(Event)
        /\ session[s].at \in 1..Len(streams)
    BY <1>2, SessionFields DEF InLoop
  <2>2. Head(session[s].buf) = session[s].buf[1] /\ 1 \in 1..Len(session[s].buf)
    BY <1>2, <2>1, HeadTailProperties, EmptySeq, LenProperties
  <2>3. /\ streams[session[s].at].done
        /\ session[s].buf[1].id = streams[session[s].at].nextID - 1
    BY <1>2, <2>2 DEF LastInv, LastOf
  <2>4. mapped /\ session[s].at = 1
    <3>1. Len(streams) = IF mapped THEN 1 ELSE 0
      BY <1>b DEF OneStream
    <3>2. Len(streams) # 0
      BY <2>1
    <3>3. mapped /\ Len(streams) = 1
      BY <3>1, <3>2
    <3> QED
      BY <2>1, <3>3
  <2> QED
    BY <1>2, <2>2, <2>3, <2>4
<1> QED
  BY <1>1, <1>2, PageSteps

LEMMA FinishedInit == Init => OneStream /\ FinishedInv
  BY EmptySeq DEF Init, OneStream, FinishedInv

\* Nothing is published behind the event that finished a page.
THEOREM FinishedLast == Spec => []FinishedWithTheLast
<1>1. Init => LastInv /\ OneStream /\ FinishedInv
  BY LastInit, FinishedInit
<1>2. TypeOK /\ OpenInv /\ BufferIsTheTail /\ LastInv /\ OneStream /\ FinishedInv /\ [Next]_vars
        => LastInv' /\ OneStream' /\ FinishedInv'
  BY LastStep, OneStep, FinishedStep
<1>3. OneStream /\ FinishedInv => FinishedWithTheLast
  BY DEF OneStream, FinishedInv, FinishedWithTheLast
<1> QED
  BY <1>1, <1>2, <1>3, TypeInit, TypeStep, OpenInit, OpenStep, NumberInit, NumberStep, PTL DEF Spec

-----------------------------------------------------------------------------
(* What a step does to the log, the sessions and the pages *)

LEMMA LengthType == TypeOK => Length \in Nat /\ Sealed \in BOOLEAN
<1> SUFFICES ASSUME TypeOK, streams # <<>> PROVE Length \in Nat /\ Sealed \in BOOLEAN
  BY DEF Length, Sealed
<1>1. 1 \in 1..Len(streams) /\ streams \in Seq(StreamType)
  BY EmptySeq, LenProperties DEF TypeOK
<1>2. streams[1] \in StreamType
  BY <1>1, ElementOfSeq
<1> QED
  BY <1>2 DEF Length, Sealed, StreamType

\* An event is written: it is the next of the log, and the handlers have it in
\* their channels or, where there is no room, have lost it.
Written(event) ==
  /\ event \in Event /\ event.id = Length + 1 /\ Length' = Length + 1
  /\ ~Sealed /\ Sealed' \in BOOLEAN /\ (event.event = "complete" <=> Sealed')
  /\ UNCHANGED <<page, reopens>>
  /\ \A s \in Session :
       /\ session'[s].stage = session[s].stage
       /\ session'[s].from = session[s].from
       /\ session'[s].up = session[s].up
       /\ session'[s].buf = session[s].buf \/ session'[s].buf = Append(session[s].buf, event)
       /\ s \in streams[1].subscribers /\ Len(session[s].buf) < ChanCap
            => session'[s].buf = Append(session[s].buf, event)

\* Nothing is written, and no page is shown anything.
Unseen ==
  /\ UNCHANGED <<Length, Sealed, page, reopens>>
  /\ \A s \in Session : session'[s].up =>
       /\ session[s].up
       /\ session'[s].from = session[s].from /\ session'[s].buf = session[s].buf
       /\ \/ session'[s].stage = session[s].stage
          \/ session[s].stage = "requested" /\ session'[s].stage = "subscribing"
          \/ session'[s].stage = "leaving"

LEMMA OfferedSource ==
  ASSUME TypeOK, NEW ss, NEW event \in Event, NEW tt
  PROVE  /\ \A s \in Session : 
              /\ Offer(ss, event)[s].from = session[s].from
              /\ Offer(ss, event)[s].up = session[s].up
              /\ s \in ss /\ Len(session[s].buf) < ChanCap
                   => Offer(ss, event)[s].buf = Append(session[s].buf, event)
         /\ \A s \in Session :
              /\ Closed(Offer(ss, event), tt)[s].from = session[s].from
              /\ Closed(Offer(ss, event), tt)[s].up = session[s].up
              /\ s \in ss /\ Len(session[s].buf) < ChanCap
                   => Closed(Offer(ss, event), tt)[s].buf = Append(session[s].buf, event)
<1>1. ASSUME NEW s \in Session
      PROVE  /\ Offer(ss, event)[s].from = session[s].from
             /\ Offer(ss, event)[s].up = session[s].up
             /\ s \in ss /\ Len(session[s].buf) < ChanCap
                  => Offer(ss, event)[s].buf = Append(session[s].buf, event)
  <2>1. Offer(ss, event)[s] = IF s \in ss /\ Len(session[s].buf) < ChanCap
                              THEN [session[s] EXCEPT !.buf = Append(@, event)]
                              ELSE session[s]
    BY DEF Offer
  <2>2. session[s] \in SessionType
    BY DEF TypeOK
  <2> QED
    BY <2>1, <2>2 DEF SessionType
<1>2. Offer(ss, event) \in [Session -> SessionType]
  BY Offered, TypeOKTyped
<1>3. ASSUME NEW s \in Session
      PROVE  /\ Closed(Offer(ss, event), tt)[s].from = Offer(ss, event)[s].from
             /\ Closed(Offer(ss, event), tt)[s].up = Offer(ss, event)[s].up
             /\ Closed(Offer(ss, event), tt)[s].buf = Offer(ss, event)[s].buf
  <2> DEFINE o == Offer(ss, event)
  <2>1. o[s] \in SessionType
    BY <1>2
  <2>2. Closed(o, tt)[s] = [o[s] EXCEPT !.closed = @ \/ s \in tt]
    BY DEF Closed
  <2> HIDE DEF o
  <2>3. /\ Closed(o, tt)[s].from = o[s].from /\ Closed(o, tt)[s].up = o[s].up
        /\ Closed(o, tt)[s].buf = o[s].buf
    BY <2>1, <2>2 DEF SessionType
  <2> QED
    BY <2>3 DEF o
<1> QED
  BY <1>1, <1>3

LEMMA PublishWrites ==
  ASSUME TypeOK, Publish(1), 1 \in 1..Len(streams), UNCHANGED <<page, reopens>>
  PROVE  Unseen \/ \E event : Written(event)
<1>a. Typed /\ Length \in Nat
  BY TypeOKTyped, LengthType
<1>1. CASE streams[1].done
  BY <1>1 DEF Publish, Unseen, Length, Sealed
<1>2. CASE ~streams[1].done
  <2> DEFINE event == [id |-> streams[1].nextID, event |-> "output"]
  <2>1. streams[1] \in StreamType
    BY ElementOfSeq DEF TypeOK
  <2>2. event \in Event /\ event.id = streams[1].nextID /\ event.event # "complete"
    BY <2>1 DEF StreamType, Event
  <2>3. session' = Offer(streams[1].subscribers, event)
    BY <1>2 DEF Publish
  <2>4. /\ streams' # <<>> /\ streams'[1].done = streams[1].done
        /\ streams'[1].nextID = streams[1].nextID + 1
    BY <1>a, <1>2, PublishedStream
  <2>5. streams # <<>>
    BY EmptySeq
  <2>6. \A s \in Session :
          /\ session'[s].stage = session[s].stage
          /\ session'[s].buf = session[s].buf \/ session'[s].buf = Append(session[s].buf, event)
    BY <1>a, PublishedSessions
  <2> HIDE DEF event
  <2>7. \A s \in Session :
          /\ session'[s].from = session[s].from /\ session'[s].up = session[s].up
          /\ s \in streams[1].subscribers /\ Len(session[s].buf) < ChanCap
               => session'[s].buf = Append(session[s].buf, event)
    BY <2>2, <2>3, OfferedSource
  <2>8. event.id = Length + 1 /\ Length' = Length + 1 /\ ~Sealed /\ Sealed' = FALSE
    BY <1>2, <2>1, <2>2, <2>4, <2>5 DEF Length, Sealed, StreamType
  <2>9. Written(event)
    BY <2>2, <2>6, <2>7, <2>8 DEF Written
  <2> QED
    BY <2>9
<1> QED
  BY <1>1, <1>2

LEMMA CompleteWrites ==
  ASSUME TypeOK, Complete(1), 1 \in 1..Len(streams), UNCHANGED <<page, reopens>>
  PROVE  Unseen \/ \E event : Written(event)
<1>a. Typed /\ Length \in Nat
  BY TypeOKTyped, LengthType
<1>1. CASE streams[1].done
  BY <1>1 DEF Complete, Unseen, Length, Sealed
<1>2. CASE ~streams[1].done
  <2> DEFINE event == [id |-> streams[1].nextID, event |-> "complete"]
  <2>1. streams[1] \in StreamType
    BY ElementOfSeq DEF TypeOK
  <2>2. event \in Event /\ event.id = streams[1].nextID /\ event.event = "complete"
    BY <2>1 DEF StreamType, Event
  <2>3. session' = Closed(Offer(streams[1].subscribers, event), streams[1].subscribers)
    BY <1>2 DEF Complete
  <2>4. /\ streams' # <<>> /\ streams'[1].done \in BOOLEAN /\ streams'[1].done
        /\ streams'[1].nextID = streams[1].nextID + 1
    <3>1. streams' \in Seq(StreamType) /\ Len(streams') = Len(streams)
      BY <1>a, CompletedStream
    <3>2. streams'[1] \in StreamType
      BY <3>1, ElementOfSeq
    <3> QED
      BY <1>a, <1>2, <3>2, CompletedStream DEF StreamType
  <2>5. streams # <<>>
    BY EmptySeq
  <2>6. \A s \in Session :
          /\ session'[s].stage = session[s].stage
          /\ session'[s].buf = session[s].buf \/ session'[s].buf = Append(session[s].buf, event)
    BY <1>a, CompletedSessions
  <2> HIDE DEF event
  <2>7. \A s \in Session :
          /\ session'[s].from = session[s].from /\ session'[s].up = session[s].up
          /\ s \in streams[1].subscribers /\ Len(session[s].buf) < ChanCap
               => session'[s].buf = Append(session[s].buf, event)
    BY <2>2, <2>3, OfferedSource
  <2>8. event.id = Length + 1 /\ Length' = Length + 1 /\ ~Sealed /\ Sealed' /\ Sealed' \in BOOLEAN
    BY <1>2, <2>1, <2>2, <2>4, <2>5 DEF Length, Sealed, StreamType
  <2>9. Written(event)
    BY <2>2, <2>6, <2>7, <2>8 DEF Written
  <2> QED
    BY <2>9
<1> QED
  BY <1>1, <1>2

\* A call of the manager gets a stream and adds no event.
LEMMA GotSameLog ==
  ASSUME TypeOK, NEW i \in 1..(Len(streams) + 1), GetOrCreateStream(i)
  PROVE  UNCHANGED <<Length, Sealed>>
<1>a. Typed /\ Len(streams) \in Nat
  BY TypeOKTyped, LenProperties DEF TypeOK
<1>1. CASE streams = <<>>
  <2>1. 1 \in 1..Len(streams') /\ Len(streams) = 0
    <3>1. Len(streams) = 0
      BY <1>1, EmptySeq
    <3>2. i \in 1..Len(streams')
      BY <1>a, GotStream
    <3> QED
      BY <3>1, <3>2
  <2>2. streams'[1] = EmptyStream /\ streams' # <<>>
    BY <1>a, <2>1, GotStream
  <2> QED
    BY <1>1, <2>2 DEF Length, Sealed, EmptyStream
<1>2. CASE streams # <<>>
  <2>1. 1 \in 1..Len(streams)
    BY <1>a, <1>2, EmptySeq DEF Typed
  <2>2. streams'[1] = streams[1] /\ streams' # <<>>
    BY <1>a, <2>1, GotStream
  <2> QED
    BY <1>2, <2>2 DEF Length, Sealed
<1> QED
  BY <1>1, <1>2

LEMMA UnseenCalls ==
  ASSUME TypeOK, \/ CallPublish \/ UNCHANGED vars
                 \/ \E w \in Writer : CallComplete(w)
                 \/ \E s \in Session : CallSubscribe(s)
  PROVE  Unseen
<1>a. \A s \in Session : session[s] \in SessionType
  BY DEF TypeOK
<1>1. ASSUME UNCHANGED <<Length, Sealed, session, page, reopens>> PROVE Unseen
  BY <1>1 DEF Unseen
<1>2. CASE CallPublish \/ \E w \in Writer : CallComplete(w)
  <2>1. UNCHANGED <<session, page, reopens>>
    BY <1>2 DEF CallPublish, CallComplete, counters
  <2>2. \E i \in 1..(Len(streams) + 1) : GetOrCreateStream(i)
    BY <1>2 DEF CallPublish, CallComplete
  <2> QED
    BY <1>1, <2>1, <2>2, GotSameLog
<1>3. CASE UNCHANGED vars
  BY <1>1, <1>3 DEF vars, Length, Sealed
<1>4. ASSUME NEW s \in Session, CallSubscribe(s) PROVE Unseen
  <2>1. PICK i \in 1..(Len(streams) + 1) :
          /\ GetOrCreateStream(i)
          /\ session' = [session EXCEPT ![s].stage = "subscribing", ![s].at = i]
    BY <1>4 DEF CallSubscribe
  <2>2. session[s].stage = "requested" /\ UNCHANGED <<page, reopens>>
    BY <1>4 DEF CallSubscribe, counters
  <2>3. UNCHANGED <<Length, Sealed>>
    BY <2>1, GotSameLog
  <2>4. /\ session'[s].stage = "subscribing" /\ session'[s].up = session[s].up
        /\ session'[s].from = session[s].from /\ session'[s].buf = session[s].buf
    BY <1>a, <2>1 DEF SessionType, TypeOK
  <2>5. \A t \in Session \ {s} : session'[t] = session[t]
    BY <2>1 DEF TypeOK
  <2> QED
    BY <2>2, <2>3, <2>4, <2>5 DEF Unseen
<1> QED
  BY <1>2, <1>3, <1>4

LEMMA SubscribersKept ==
  ASSUME TypeOK, NEW i \in 1..Len(streams), NEW x \in SUBSET Session,
         streams' = [streams EXCEPT ![i].subscribers = x]
  PROVE  UNCHANGED <<Length, Sealed>> /\ streams'[1].events = streams[1].events
<1>1. streams # <<>> /\ streams \in Seq(StreamType) /\ 1 \in 1..Len(streams) /\ Typed
  BY EmptySeq, TypeOKTyped DEF TypeOK
<1>2. streams[i] \in StreamType /\ streams[1] \in StreamType
  BY <1>1, ElementOfSeq
<1> DEFINE es == [streams[i] EXCEPT !.subscribers = x]
<1>3. es \in StreamType /\ es.nextID = streams[i].nextID /\ es.done = streams[i].done
      /\ es.events = streams[i].events
  BY <1>2 DEF StreamType
<1>4. streams' = [streams EXCEPT ![i] = es]
  OBVIOUS
<1> HIDE DEF es
<1>5. /\ streams' # <<>> /\ streams'[i] = es
      /\ \A j \in 1..Len(streams) : j # i => streams'[j] = streams[j]
  BY <1>1, <1>3, <1>4, StreamReplaced
<1> QED
  BY <1>1, <1>3, <1>5 DEF Length, Sealed

LEMMA UnseenEnds ==
  ASSUME TypeOK, NEW s \in Session,
         EndLoop(s) \/ Unsubscribe(s) \/ Drop(s) \/ (Serve(s) /\ ~session[s].up)
  PROVE  Unseen
<1>a. session[s] \in SessionType /\ session \in [Session -> SessionType]
  BY DEF TypeOK
<1>1. ASSUME UNCHANGED <<Length, Sealed, page, reopens>>,
             \A t \in Session \ {s} : session'[t] = session[t],
             ~session'[s].up \/ (session[s].up /\ session'[s] = [session[s] EXCEPT !.stage = "leaving"])
      PROVE  Unseen
  <2>1. session'[s].up => /\ session[s].up
                          /\ session'[s].from = session[s].from /\ session'[s].buf = session[s].buf
                          /\ session'[s].stage = "leaving"
    BY <1>a, <1>1 DEF SessionType
  <2> QED
    BY <1>1, <2>1 DEF Unseen
<1>2. CASE EndLoop(s)
  <2>1. \/ session' = [session EXCEPT ![s].stage = "leaving"]
        \/ session' = [session EXCEPT ![s] = IdleSession]
    BY <1>2 DEF EndLoop
  <2>2. UNCHANGED <<streams, page, reopens>>
    BY <1>2 DEF EndLoop, counters
  <2>3. CASE session' = [session EXCEPT ![s].stage = "leaving"]
    <3>1. session'[s] = [session[s] EXCEPT !.stage = "leaving"]
          /\ \A t \in Session \ {s} : session'[t] = session[t]
      BY <1>a, <2>3
    <3>2. session[s].up \in BOOLEAN /\ session'[s].up = session[s].up
      BY <1>a, <3>1 DEF SessionType
    <3> QED
      BY <1>1, <2>2, <3>1, <3>2 DEF Length, Sealed
  <2>4. CASE session' = [session EXCEPT ![s] = IdleSession]
    <3>1. ~session'[s].up /\ \A t \in Session \ {s} : session'[t] = session[t]
      BY <1>a, <2>4 DEF IdleSession
    <3> QED
      BY <1>1, <2>2, <3>1 DEF Length, Sealed
  <2> QED
    BY <2>1, <2>3, <2>4
<1>3. CASE Unsubscribe(s)
  <2>1. /\ session[s].at \in 1..Len(streams)
        /\ streams' = [streams EXCEPT ![session[s].at].subscribers = @ \ {s}]
        /\ session' = [session EXCEPT ![s] = IdleSession] /\ UNCHANGED <<page, reopens>>
    BY <1>3 DEF Unsubscribe, TypeOK, counters
  <2>2. streams[session[s].at].subscribers \ {s} \in SUBSET Session
    BY <2>1, SubscribersAreSessions
  <2>3. UNCHANGED <<Length, Sealed>>
    BY <2>1, <2>2, SubscribersKept
  <2>4. ~session'[s].up /\ \A t \in Session \ {s} : session'[t] = session[t]
    BY <1>a, <2>1 DEF IdleSession
  <2> QED
    BY <1>1, <2>1, <2>3, <2>4
<1>4. CASE Drop(s)
  <2>1. /\ session' = [session EXCEPT ![s].up = FALSE] /\ UNCHANGED <<streams, page, reopens>>
    BY <1>4 DEF Drop
  <2>2. ~session'[s].up /\ \A t \in Session \ {s} : session'[t] = session[t]
    BY <1>a, <2>1 DEF SessionType
  <2> QED
    BY <1>1, <2>1, <2>2 DEF Length, Sealed
<1>5. CASE Serve(s) /\ ~session[s].up
  <2>1. /\ \E b : session' = [session EXCEPT ![s].buf = Tail(@), ![s].up = @ /\ b]
        /\ UNCHANGED <<streams, page, reopens>>
    BY <1>5 DEF Serve, counters
  <2>2. ~session'[s].up /\ \A t \in Session \ {s} : session'[t] = session[t]
    BY <1>a, <1>5, <2>1 DEF SessionType
  <2> QED
    BY <1>1, <2>1, <2>2 DEF Length, Sealed
<1> QED
  BY <1>2, <1>3, <1>4, <1>5

\* Before the first Cleanup a step writes an event, or shows one, or begins or
\* ends a request, or is not seen.
LEMMA Kinds ==
  ASSUME TypeOK, OneStream, [Next]_vars, cleanups' = 0
  PROVE  /\ cleanups = 0
         /\ \/ Unseen
            \/ \E event : Written(event)
            \/ \E s \in Session : (Serve(s) /\ session[s].up) \/ Subscribe(s) \/ Request(s)
            \/ \E c \in Client : Reopen(c)
<1>a. /\ Len(streams) \in Nat /\ cleanups \in Nat /\ mapped \in BOOLEAN
  BY LenProperties, BoundsAssumption DEF TypeOK
<1>1. CASE Cleanup
  BY <1>a, <1>1 DEF Cleanup
<1>2. CASE ~Cleanup
  <2>1. CASE \/ CallPublish \/ UNCHANGED vars
             \/ \E w \in Writer : CallComplete(w)
             \/ \E s \in Session : CallSubscribe(s)
    <3>1. UNCHANGED cleanups
      BY <2>1 DEF CallPublish, CallComplete, CallSubscribe, counters, vars
    <3> QED
      BY <2>1, <3>1, UnseenCalls
  <2>2. CASE DoPublish \/ \E w \in Writer : DoComplete(w)
    <3>1. /\ \E i \in 1..Len(streams) : Publish(i) \/ Complete(i)
          /\ UNCHANGED <<page, reopens, cleanups>>
      BY <2>2 DEF DoPublish, DoComplete, TypeOK, Writer, counters
    <3>2. Len(streams) = IF mapped THEN 1 ELSE 0
      <4>1. cleanups = 0
        BY <3>1
      <4> QED
        BY <4>1 DEF OneStream
    <3>4. Len(streams) <= 1
      BY <3>2
    <3>5. \A i \in 1..Len(streams) : i = 1
      BY <1>a, <3>4
    <3> QED
      BY <3>1, <3>5, PublishWrites, CompleteWrites
  <2>3. CASE \E s \in Session : EndLoop(s) \/ Unsubscribe(s) \/ Drop(s) \/ Serve(s)
    <3>1. UNCHANGED cleanups
      BY <2>3 DEF EndLoop, Unsubscribe, Drop, Serve, counters
    <3>2. \A s \in Session : session[s].up \in BOOLEAN
      BY SessionFields
    <3> QED
      BY <2>3, <3>1, <3>2, UnseenEnds
  <2>4. CASE \/ \E s \in Session : Subscribe(s) \/ Request(s)
             \/ \E c \in Client : Reopen(c)
    <3>1. UNCHANGED cleanups
      BY <2>4 DEF Subscribe, Request, Reopen, counters
    <3> QED
      BY <2>4, <3>1
  <2> QED
    BY <1>2, <2>1, <2>2, <2>3, <2>4 DEF Next, Handle
<1> QED
  BY <1>1, <1>2

-----------------------------------------------------------------------------
(* What a page is shown *)

\* A replay is the last events of the log, and all of those after the id from
\* when none is trimmed.
RestOf(es, from, replay) ==
  /\ Len(replay) \in Nat
  /\ \A j \in 1..Len(replay) :
       /\ replay[j].id = es.nextID - 1 - Len(replay) + j
       /\ replay[j].id > from
       /\ replay[j].event = "complete" <=> (es.done /\ j = Len(replay))
  /\ Len(es.events) = es.nextID - 1 /\ from <= es.nextID - 1
       => Len(replay) + from = es.nextID - 1

\* The replay is the last events of the log, all of them after the header's.
LEMMA ReplayNumbers ==
  ASSUME NEW es \in StreamType, WellNumbered(es), NEW k \in 1..(Len(es.events) + 1),
         NEW from \in Nat, ReplaysFrom(es.events, from, k),
         NEW replay, replay = SubSeq(es.events, k, Len(es.events))
  PROVE  RestOf(es, from, replay)
<1>1. es.events \in Seq(Event) /\ es.nextID \in Nat \ {0}
  BY DEF StreamType
<1>2. Len(es.events) \in Nat
  BY <1>1, LenProperties
<1>3. \A j \in k..Len(es.events) : es.events[j] \in Event
  <2>1. \A j \in k..Len(es.events) : j \in 1..Len(es.events)
    BY <1>2
  <2> QED
    BY <1>1, <2>1, ElementOfSeq
<1>4. /\ Len(replay) = IF k <= Len(es.events) THEN Len(es.events) - k + 1 ELSE 0
      /\ \A j \in 1..(Len(es.events) - k + 1) : replay[j] = es.events[k + j - 1]
  <2>1. k \in Int /\ Len(es.events) \in Int
    BY <1>2
  <2> QED
    BY <1>3, <2>1, SubSeqProperties
<1> DEFINE N == es.nextID
           E == Len(es.events)
           R == Len(replay)
<1>5. /\ N \in Nat \ {0} /\ E \in Nat /\ R \in Nat /\ k \in Nat /\ R = E - k + 1
      /\ 1 <= k /\ k <= E + 1
  BY <1>1, <1>2, <1>4
<1>6. /\ \A j \in 1..R : replay[j] = es.events[k + j - 1]
      /\ \A j \in 1..E : /\ es.events[j].id = N - 1 - E + j
                         /\ es.events[j].event = "complete" <=> (es.done /\ j = E)
      /\ \A j \in 1..(k - 1) : es.events[j].id <= from
      /\ k <= E => es.events[k].id > from
  BY <1>4, <1>5 DEF WellNumbered, ReplaysFrom
<1> HIDE DEF N, E, R
<1>7. ASSUME NEW j \in 1..R
      PROVE  /\ replay[j].id = N - 1 - R + j
             /\ replay[j].id > from
             /\ replay[j].event = "complete" <=> (es.done /\ j = R)
  <2>1. /\ k + j - 1 \in 1..E /\ k \in 1..E /\ k <= E
    BY <1>5
  <2>2. /\ replay[j].id = N - 1 - E + (k + j - 1)
        /\ replay[j].event = "complete" <=> (es.done /\ k + j - 1 = E)
        /\ N - 1 - E + k > from
    BY <1>6, <2>1
  <2>3. /\ k + j - 1 = E <=> j = R
        /\ N - 1 - E + (k + j - 1) = N - 1 - R + j
        /\ N - 1 - E + (k + j - 1) >= N - 1 - E + k
    BY <1>5
  <2>4. N - 1 - E + (k + j - 1) > from
    BY <1>5, <2>2, <2>3
  <2> QED
    BY <2>2, <2>3, <2>4
<1>8. ASSUME E = N - 1, from <= N - 1
      PROVE  R + from = N - 1
  <2>1. ASSUME NEW j \in 1..E PROVE es.events[j].id = j
    <3>1. es.events[j].id = N - 1 - E + j
      BY <1>6
    <3>2. N - 1 - E + j = j
      BY <1>5, <1>8
    <3> QED
      BY <3>1, <3>2
  <2>2. k - 1 <= from
    <3>1. CASE k = 1
      BY <3>1
    <3>2. CASE k # 1
      <4>1. k - 1 \in 1..(k - 1) /\ k - 1 \in 1..E
        BY <1>5, <3>2
      <4>2. es.events[k - 1].id <= from /\ es.events[k - 1].id = k - 1
        BY <1>6, <2>1, <4>1
      <4> QED
        BY <4>2
    <3> QED
      BY <3>1, <3>2
  <2>3. from <= k - 1
    <3>1. CASE k = E + 1
      BY <1>5, <1>8, <3>1
    <3>2. CASE k # E + 1
      <4>1. k \in 1..E /\ k <= E
        BY <1>5, <3>2
      <4>2. es.events[k].id > from /\ es.events[k].id = k
        BY <1>6, <2>1, <4>1
      <4> QED
        BY <1>5, <4>2
    <3> QED
      BY <3>1, <3>2
  <2> QED
    BY <1>5, <1>8, <2>2, <2>3
<1> QED
  BY <1>5, <1>7, <1>8 DEF N, E, R, RestOf

\* The events follow the id n and end at most with the last of the log.
InOrder(buf, n, length, sealed) ==
  \A j \in 1..Len(buf) :
    /\ n < buf[j].id /\ buf[j].id <= length
    /\ buf[j].event = "complete" <=> (sealed /\ buf[j].id = length)
    /\ \A k \in 1..(j - 1) : buf[k].id < buf[j].id

\* The events are all those of the log that follow the id n.
Complements(buf, n, length) ==
  /\ Len(buf) + n = length
  /\ \A j \in 1..Len(buf) : buf[j].id = n + j

\* All the events there have been are buffered.
AllBuffered == streams # <<>> => Len(streams[1].events) = Length

\* What Subscribe does to the page and to the session.
Subscribed(s) ==
  /\ session[s].stage = "subscribing"
  /\ UNCHANGED <<Length, Sealed, reopens>>
  /\ \A t \in Session \ {s} : session'[t] = session[t]
  /\ session'[s].up => session[s].up
  /\ \/ session'[s].stage = "blocked" /\ UNCHANGED page
     \/ /\ InLoop(s)' /\ UNCHANGED page
        /\ InOrder(session'[s].buf, session[s].from, Length, Sealed)
        /\ AllBuffered /\ session[s].from <= Length
             => Complements(session'[s].buf, session[s].from, Length)
     \/ /\ ~session'[s].up
        /\ session[s].up \/ UNCHANGED page
        /\ page' = [page EXCEPT ![ClientOf[s]].stage = IF session[s].up THEN "failed" ELSE @]

LEMMA SubscribeEffect ==
  ASSUME TypeOK, BufferIsTheTail, OneStream, cleanups = 0, NEW s \in Session, Subscribe(s)
  PROVE  Subscribed(s)
<1>a. /\ session \in [Session -> SessionType] /\ session[s] \in SessionType
      /\ Len(streams) \in Nat /\ streams \in Seq(StreamType)
  BY LenProperties DEF TypeOK
<1>1. session[s].stage = "subscribing" /\ session[s].at \in 1..Len(streams)
  BY DEF Subscribe, TypeOK
<1>2. session[s].at = 1 /\ 1 \in 1..Len(streams) /\ streams # <<>>
  <2>1. Len(streams) = IF mapped THEN 1 ELSE 0
    BY DEF OneStream
  <2>2. Len(streams) <= 1
    BY <2>1
  <2> QED
    BY <1>a, <1>1, <2>2, EmptySeq
<1> DEFINE es == streams[1]
<1>3. es \in StreamType /\ WellNumbered(es) /\ session[s].from \in Nat
  BY <1>a, <1>2, ElementOfSeq DEF BufferIsTheTail, SessionType
<1>4. Length = es.nextID - 1 /\ Sealed = es.done /\ es.nextID \in Nat \ {0} /\ es.done \in BOOLEAN
  BY <1>2, <1>3 DEF Length, Sealed, StreamType
<1>5. PICK k \in 1..(Len(es.events) + 1) :
        /\ ReplaysFrom(es.events, session[s].from, k)
        /\ Replayed(s, SubSeq(es.events, k, Len(es.events)))
  BY <1>2 DEF Subscribe
<1> DEFINE replay == SubSeq(es.events, k, Len(es.events))
<1>6. /\ Len(replay) \in Nat
      /\ \A j \in 1..Len(replay) :
           /\ replay[j].id = es.nextID - 1 - Len(replay) + j
           /\ replay[j].id > session[s].from
           /\ replay[j].event = "complete" <=> (es.done /\ j = Len(replay))
      /\ Len(es.events) = es.nextID - 1 /\ session[s].from <= es.nextID - 1
           => Len(replay) + session[s].from = es.nextID - 1
  <2>1. es \in StreamType /\ WellNumbered(es) /\ session[s].from \in Nat
    BY <1>3
  <2>2. k \in 1..(Len(es.events) + 1) /\ ReplaysFrom(es.events, session[s].from, k)
    BY <1>5
  <2>3. replay = SubSeq(es.events, k, Len(es.events))
    OBVIOUS
  <2> DEFINE n == session[s].from
  <2>4. n \in Nat /\ ReplaysFrom(es.events, n, k)
    BY <2>1, <2>2
  <2> HIDE DEF es, replay, n
  <2>5. RestOf(es, n, replay)
    BY <2>1, <2>2, <2>3, <2>4, ReplayNumbers
  <2> QED
    BY <2>5 DEF n, RestOf
<1>7. Replayed(s, replay)
  BY <1>5
<1>k. k \in Nat
  OBVIOUS
<1> HIDE DEF replay
<1>8. InOrder(replay, session[s].from, Length, Sealed)
  <2> SUFFICES ASSUME NEW j \in 1..Len(replay)
               PROVE  /\ session[s].from < replay[j].id /\ replay[j].id <= Length
                      /\ replay[j].event = "complete" <=> (Sealed /\ replay[j].id = Length)
                      /\ \A i \in 1..(j - 1) : replay[i].id < replay[j].id
    BY DEF InOrder
  <2>0. Len(replay) \in Nat /\ Length \in Nat
    BY <1>4, <1>6
  <2>1. replay[j].id = Length - Len(replay) + j /\ Len(replay) \in Nat /\ Length \in Nat
    <3>1. replay[j].id = es.nextID - 1 - Len(replay) + j
      BY <1>6
    <3>2. replay[j].id = Length - Len(replay) + j
      BY <1>4, <3>1
    <3> QED
      BY <2>0, <3>2
  <2>2. replay[j].id <= Length /\ (replay[j].id = Length <=> j = Len(replay))
    BY <2>1
  <2>3. \A i \in 1..(j - 1) : replay[i].id = Length - Len(replay) + i
    BY <1>4, <1>6
  <2>4. \A i \in 1..(j - 1) : replay[i].id < replay[j].id
    BY <2>1, <2>3
  <2>5. replay[j].event = "complete" <=> (Sealed /\ replay[j].id = Length)
    BY <1>4, <1>6, <2>2
  <2>6. replay[j].id > session[s].from
    BY <1>6
  <2> QED
    BY <1>3, <2>1, <2>2, <2>4, <2>5, <2>6
<1>9. AllBuffered /\ session[s].from <= Length => Complements(replay, session[s].from, Length)
  <2> SUFFICES ASSUME AllBuffered, session[s].from <= Length
               PROVE  Complements(replay, session[s].from, Length)
    OBVIOUS
  <2>1. Len(es.events) = es.nextID - 1
    BY <1>2, <1>4 DEF AllBuffered
  <2>2. Len(replay) + session[s].from = Length /\ Length \in Nat
    BY <1>4, <1>6, <2>1
  <2>3. \A j \in 1..Len(replay) : replay[j].id = session[s].from + j
    <3>1. \A j \in 1..Len(replay) : replay[j].id = Length - Len(replay) + j
      BY <1>4, <1>6
    <3>2. session[s].from \in Nat /\ Len(replay) \in Nat
      BY <1>3, <1>6
    <3>3. \A j \in 1..Len(replay) : Length - Len(replay) + j = session[s].from + j
      BY <2>2, <3>2
    <3> QED
      BY <3>1, <3>3
  <2> QED
    BY <2>2, <2>3 DEF Complements
<1>10. UNCHANGED <<Length, Sealed, reopens>>
  <2>1. UNCHANGED reopens
    BY DEF Subscribe, counters
  <2>2. CASE UNCHANGED streams
    BY <2>1, <2>2 DEF Length, Sealed
  <2>3. CASE streams' = [streams EXCEPT ![1].subscribers = @ \cup {s}]
    <3>1. streams[1].subscribers \cup {s} \in SUBSET Session
      BY <1>2, SubscribersAreSessions
    <3> QED
      BY <1>2, <2>1, <2>3, <3>1, SubscribersKept
  <2> QED
    BY <1>2, <1>7, <2>2, <2>3 DEF Replayed
<1>11. CASE /\ session' = [session EXCEPT ![s].stage = "blocked",
                                          ![s].buf = SubSeq(replay, 1, ChanCap)]
            /\ UNCHANGED page
  <2>1. session'[s].stage = "blocked" /\ session'[s].up = session[s].up
        /\ \A t \in Session \ {s} : session'[t] = session[t]
    BY <1>a, <1>11 DEF SessionType
  <2> QED
    BY <1>1, <1>10, <1>11, <2>1 DEF Subscribed
<1>12. CASE /\ \/ session' = [session EXCEPT ![s].stage = "replaying", ![s].buf = replay,
                                             ![s].closed = TRUE]
               \/ session' = [session EXCEPT ![s].stage = "serving", ![s].buf = replay]
            /\ UNCHANGED page
  <2>1. /\ session'[s].stage \in {"serving", "replaying"} /\ session'[s].up = session[s].up
        /\ session'[s].buf = replay
        /\ \A t \in Session \ {s} : session'[t] = session[t]
    BY <1>a, <1>12 DEF SessionType
  <2>2. InLoop(s)'
    BY <2>1 DEF InLoop
  <2> QED
    BY <1>1, <1>8, <1>9, <1>10, <1>12, <2>1, <2>2 DEF Subscribed
<1>13. CASE /\ session' = [session EXCEPT ![s].stage = "panicked", ![s].up = FALSE]
            /\ page' = [page EXCEPT ![ClientOf[s]].stage = IF session[s].up THEN "failed" ELSE @]
  <2>1. ~session'[s].up /\ \A t \in Session \ {s} : session'[t] = session[t]
    BY <1>a, <1>13 DEF SessionType
  <2>2. session[s].up \/ UNCHANGED page
    <3>1. page \in [Client -> PageType] /\ ClientOf[s] \in Client /\ session[s].up \in BOOLEAN
      BY <1>a, ClientsAssumption DEF TypeOK, SessionType
    <3>2. CASE ~session[s].up
      <4>1. page' = [page EXCEPT ![ClientOf[s]].stage = page[ClientOf[s]].stage]
        BY <1>13, <3>2
      <4>2. [page[ClientOf[s]] EXCEPT !.stage = page[ClientOf[s]].stage] = page[ClientOf[s]]
        BY <3>1 DEF PageType
      <4>3. page' = [page EXCEPT ![ClientOf[s]] = page[ClientOf[s]]]
        BY <4>1, <4>2
      <4> QED
        BY <3>1, <4>3
    <3> QED
      BY <3>1, <3>2
  <2> QED
    BY <1>1, <1>10, <1>13, <2>1, <2>2 DEF Subscribed
<1> QED
  BY <1>2, <1>7, <1>11, <1>12, <1>13 DEF Replayed

\* What a handler does to the page that it writes an event to.
Shown(s) ==
  /\ session[s].up /\ InLoop(s)
  /\ UNCHANGED <<Length, Sealed, reopens>>
  /\ \A t \in Session \ {s} : session'[t] = session[t]
  /\ session'[s].stage = session[s].stage
  /\ 1 \in 1..Len(session[s].buf)
  /\ Len(session'[s].buf) = Len(session[s].buf) - 1
  /\ \A j \in 1..Len(session'[s].buf) :
       j + 1 \in 1..Len(session[s].buf) /\ session'[s].buf[j] = session[s].buf[j + 1]
  /\ session'[s].up => session[s].buf[1].event # "complete"
  /\ \A c \in Client \ {ClientOf[s]} : page'[c] = page[c]
  /\ page'[ClientOf[s]] =
       [stage |-> IF session[s].buf[1].event = "complete" THEN "finished" ELSE "live",
        shown |-> Append(page[ClientOf[s]].shown, session[s].buf[1].id),
        last  |-> session[s].buf[1].id]

LEMMA ServeShows ==
  ASSUME TypeOK, NEW s \in Session, Serve(s), session[s].up
  PROVE  Shown(s)
<1>t. /\ session \in [Session -> SessionType] /\ page \in [Client -> PageType]
      /\ ClientOf[s] \in Client
  BY ClientsAssumption DEF TypeOK
<1> DEFINE buf == session[s].buf
           event == Head(buf)
           over == event.event = "complete"
<1>1. buf \in Seq(Event) /\ buf # <<>> /\ InLoop(s)
  BY SessionFields DEF Serve
<1>2. /\ event = buf[1] /\ Len(buf) \in Nat /\ Len(buf) # 0 /\ Len(Tail(buf)) = Len(buf) - 1
      /\ \A j \in 1..Len(Tail(buf)) : Tail(buf)[j] = buf[j + 1]
  BY <1>1, HeadTailProperties, EmptySeq, LenProperties
<1>3. \A j \in 1..Len(Tail(buf)) : j + 1 \in 1..Len(buf)
  BY <1>2
<1>4. UNCHANGED <<Length, Sealed, reopens>>
  BY DEF Serve, Length, Sealed, counters
<1>5. /\ session' = [session EXCEPT ![s].buf = Tail(@), ![s].up = @ /\ ~over]
      /\ page' = [page EXCEPT ![ClientOf[s]] = [stage |-> IF over THEN "finished" ELSE "live",
                                                shown |-> Append(@.shown, event.id),
                                                last |-> event.id]]
  BY DEF Serve
<1>6. /\ \A t \in Session \ {s} : session'[t] = session[t]
      /\ session'[s].stage = session[s].stage /\ session'[s].buf = Tail(buf)
      /\ session'[s].up => ~over
  BY <1>t, <1>5 DEF SessionType
<1>7. /\ \A c \in Client \ {ClientOf[s]} : page'[c] = page[c]
      /\ page'[ClientOf[s]] = [stage |-> IF over THEN "finished" ELSE "live",
                               shown |-> Append(page[ClientOf[s]].shown, event.id),
                               last |-> event.id]
  <2> HIDE DEF event, over
  <2> QED
    BY <1>t, <1>5
<1> QED
  BY <1>1, <1>2, <1>3, <1>4, <1>6, <1>7 DEF Shown

\* While nothing was cleaned up, a page that has a connection shows a live
\* event source, has no other connection, and is ahead of nothing its channel holds.
Source(s) ==
  /\ page[ClientOf[s]].stage = "live"
  /\ \A t \in Session : session[t].up /\ ClientOf[t] = ClientOf[s] => t = s
  /\ session[s].stage \in {"requested", "subscribing"}
       => session[s].from = page[ClientOf[s]].last
  /\ InLoop(s) => InOrder(session[s].buf, page[ClientOf[s]].last, Length, Sealed)

ShowInv ==
  cleanups = 0 =>
    /\ \A c \in Client : page[c].last <= Length
    /\ \A s \in Session : session[s].up => Source(s)

LEMMA InOrderGrown ==
  ASSUME NEW buf \in Seq(Event), NEW n, InOrder(buf, n, Length, Sealed), n \in Nat, n <= Length, Length \in Nat,
         NEW event, Written(event),
         NEW new, new = buf \/ new = Append(buf, event)
  PROVE  InOrder(new, n, Length', Sealed')
<1>1. /\ \A j \in 1..Len(buf) : /\ n < buf[j].id /\ buf[j].id <= Length
                                /\ buf[j].event # "complete"
                                /\ buf[j].id \in Nat
                                /\ \A k \in 1..(j - 1) : buf[k].id < buf[j].id
      /\ Len(buf) \in Nat
  <2>1. /\ \A j \in 1..Len(buf) : buf[j] \in Event
        /\ Len(buf) \in Nat /\ ~Sealed
    BY ElementOfSeq, LenProperties DEF Written
  <2>2. \A j \in 1..Len(buf) : buf[j].id \in Nat
    BY <2>1 DEF Event
  <2> QED
    BY <2>1, <2>2 DEF InOrder
<1>2. /\ event.id = Length + 1 /\ Length' = Length + 1
      /\ event.event = "complete" <=> Sealed'
  BY DEF Written
<1>3. CASE new = buf
  BY <1>1, <1>2, <1>3 DEF InOrder
<1>4. CASE new = Append(buf, event)
  <2>1. /\ Len(new) = Len(buf) + 1 /\ new[Len(buf) + 1] = event
        /\ \A j \in 1..Len(buf) : new[j] = buf[j]
    BY <1>4, AppendProperties DEF Written
  <2>2. ASSUME NEW j \in 1..Len(new)
        PROVE  /\ n < new[j].id /\ new[j].id <= Length'
               /\ new[j].event = "complete" <=> (Sealed' /\ new[j].id = Length')
               /\ \A k \in 1..(j - 1) : new[k].id < new[j].id
    <3>1. CASE j \in 1..Len(buf)
      <4>1. \A k \in 1..(j - 1) : k \in 1..Len(buf)
        BY <1>1, <3>1
      <4>2. /\ new[j] = buf[j] /\ \A k \in 1..(j - 1) : new[k] = buf[k]
        BY <2>1, <3>1, <4>1
      <4>3. /\ n < buf[j].id /\ buf[j].id <= Length /\ buf[j].event # "complete" /\ buf[j].id \in Nat
            /\ \A k \in 1..(j - 1) : buf[k].id < buf[j].id
        BY <1>1, <3>1
      <4>4. buf[j].id <= Length + 1 /\ buf[j].id # Length + 1
        BY <4>3
      <4> QED
        BY <1>2, <4>2, <4>3, <4>4
    <3>2. CASE j = Len(buf) + 1
      <4>1. \A k \in 1..(j - 1) : k \in 1..Len(buf) /\ new[k] = buf[k]
        BY <1>1, <2>1, <3>2
      <4>2. new[j] = event
        BY <2>1, <3>2
      <4>3. \A k \in 1..(j - 1) : new[k].id < new[j].id
        BY <1>1, <1>2, <4>1, <4>2
      <4> QED
        BY <1>2, <4>2, <4>3
    <3> QED
      BY <1>1, <2>1, <3>1, <3>2
  <2> QED
    BY <2>2 DEF InOrder
<1> QED
  BY <1>3, <1>4

LEMMA ShowInit == Init => ShowInv
BY DEF Init, ShowInv, IdleSession, Length

LEMMA RequestEffect ==
  ASSUME TypeOK, NEW s \in Session, Request(s)
  PROVE  /\ session'[s].stage = "requested" /\ session'[s].from = page[ClientOf[s]].last
         /\ \A t \in Session \ {s} : session'[t] = session[t]
         /\ \A t \in Session : session[t].up => ClientOf[t] # ClientOf[s]
         /\ page'[ClientOf[s]].stage = "live"
         /\ \A c \in Client : /\ page'[c].last = page[c].last /\ page'[c].shown = page[c].shown
                              /\ c # ClientOf[s] => page'[c] = page[c]
         /\ page[ClientOf[s]].stage # "finished"
         /\ UNCHANGED <<Length, Sealed, reopens>>
<1>t. /\ session \in [Session -> SessionType] /\ page \in [Client -> PageType]
      /\ ClientOf[s] \in Client
  BY ClientsAssumption DEF TypeOK
<1>1. \A t \in Session : session[t].up => ClientOf[t] # ClientOf[s]
  BY DEF Request, Connected, SessionsOf
<1>2. /\ session' = [session EXCEPT ![s] = [IdleSession EXCEPT !.stage = "requested",
                                          !.from = page[ClientOf[s]].last, !.up = TRUE]]
      /\ page' = [page EXCEPT ![ClientOf[s]].stage = "live"]
      /\ page[ClientOf[s]].stage \in {"closed", "live"}
      /\ UNCHANGED <<streams, reopens>>
  BY DEF Request, counters
<1>3. /\ session'[s].stage = "requested" /\ session'[s].from = page[ClientOf[s]].last
      /\ \A t \in Session \ {s} : session'[t] = session[t]
  BY <1>t, <1>2 DEF IdleSession
<1>4. /\ page'[ClientOf[s]].stage = "live"
      /\ \A c \in Client : /\ page'[c].last = page[c].last /\ page'[c].shown = page[c].shown
                           /\ c # ClientOf[s] => page'[c] = page[c]
  BY <1>t, <1>2 DEF PageType
<1> QED
  BY <1>1, <1>2, <1>3, <1>4 DEF Length, Sealed

LEMMA ShowStep ==
  ASSUME TypeOK, BufferIsTheTail, OneStream, ShowInv, [Next]_vars
  PROVE  ShowInv'
<1> SUFFICES ASSUME cleanups' = 0
             PROVE  /\ \A c \in Client : page'[c].last <= Length'
                    /\ \A s \in Session : session'[s].up => Source(s)'
  BY DEF ShowInv
<1>t. /\ session \in [Session -> SessionType] /\ page \in [Client -> PageType]
      /\ \A s \in Session : ClientOf[s] \in Client
      /\ Length \in Nat
  BY LengthType, ClientsAssumption DEF TypeOK
<1>l. \A c \in Client : page[c].last \in Nat
  BY <1>t DEF PageType
<1>b. \A s \in Session : session[s].buf \in Seq(Event) /\ session[s].up \in BOOLEAN
  BY <1>t DEF SessionType
<1>k. /\ cleanups = 0
      /\ \/ Unseen
         \/ \E event : Written(event)
         \/ \E s \in Session : (Serve(s) /\ session[s].up) \/ Subscribe(s) \/ Request(s)
         \/ \E c \in Client : Reopen(c)
  BY Kinds
<1>i. /\ \A c \in Client : page[c].last <= Length
      /\ \A s \in Session : session[s].up => Source(s)
  BY <1>k DEF ShowInv
<1>1. CASE Unseen
  <2>1. ASSUME NEW s \in Session, session'[s].up PROVE Source(s)'
    <3>1. session[s].up /\ Source(s)
      BY <1>1, <1>i, <2>1 DEF Unseen
    <3>2. \A t \in Session : session'[t].up => session[t].up
      BY <1>1 DEF Unseen
    <3>3. /\ session'[s].from = session[s].from /\ session'[s].buf = session[s].buf
          /\ page' = page /\ Length' = Length /\ Sealed' = Sealed
          /\ \/ session'[s].stage = session[s].stage
             \/ session[s].stage = "requested" /\ session'[s].stage = "subscribing"
             \/ session'[s].stage = "leaving"
      BY <1>1, <2>1 DEF Unseen
    <3> QED
      BY <3>1, <3>2, <3>3 DEF Source, InLoop, InOrder
  <2>2. page' = page /\ Length' = Length
    BY <1>1 DEF Unseen
  <2> QED
    BY <1>i, <2>1, <2>2
<1>2. ASSUME NEW event, Written(event)
      PROVE  /\ \A c \in Client : page'[c].last <= Length'
             /\ \A s \in Session : session'[s].up => Source(s)'
  <2>1. page' = page /\ Length' = Length + 1
    BY <1>2 DEF Written
  <2>2. ASSUME NEW s \in Session, session'[s].up PROVE Source(s)'
    <3>1. /\ session[s].up /\ Source(s)
          /\ \A t \in Session : session'[t].up = session[t].up
          /\ session'[s].stage = session[s].stage /\ session'[s].from = session[s].from
          /\ session'[s].buf = session[s].buf \/ session'[s].buf = Append(session[s].buf, event)
      BY <1>2, <1>i, <2>2 DEF Written
    <3>2. InLoop(s)' => InOrder(session[s].buf, page[ClientOf[s]].last, Length, Sealed)
      BY <3>1 DEF Source, InLoop
    <3>3. InLoop(s)' => InOrder(session'[s].buf, page[ClientOf[s]].last, Length', Sealed')
      <4> DEFINE n == page[ClientOf[s]].last
                 new == session'[s].buf
      <4> SUFFICES ASSUME InLoop(s)' PROVE InOrder(new, n, Length', Sealed')
        BY <2>1
      <4>1. /\ n \in Nat /\ n <= Length /\ InOrder(session[s].buf, n, Length, Sealed)
            /\ session[s].buf \in Seq(Event)
            /\ new = session[s].buf \/ new = Append(session[s].buf, event)
        BY <1>t, <1>l, <1>b, <1>i, <3>1, <3>2
      <4> HIDE DEF n, new
      <4> QED
        BY <1>t, <1>2, <4>1, InOrderGrown
    <3> QED
      BY <2>1, <3>1, <3>3 DEF Source
  <2> QED
    BY <1>t, <1>l, <1>i, <2>1, <2>2
<1>3. ASSUME NEW s \in Session, Serve(s), session[s].up
      PROVE  /\ \A c \in Client : page'[c].last <= Length'
             /\ \A t \in Session : session'[t].up => Source(t)'
  <2>1. Shown(s) /\ Source(s) /\ \A t \in Session : session[t].up => Source(t)
    BY <1>3, <1>i, ServeShows
  <2> DEFINE buf == session[s].buf
             new == session'[s].buf
             c == ClientOf[s]
  <2>2. /\ InOrder(buf, page[c].last, Length, Sealed) /\ 1 \in 1..Len(buf)
        /\ Length' = Length /\ Sealed' = Sealed
    BY <2>1 DEF Source, Shown
  <2>3. page'[c].last = buf[1].id /\ buf[1].id <= Length
    BY <2>1, <2>2 DEF Shown, InOrder
  <2>4. \A d \in Client : d # c => page'[d] = page[d]
    BY <2>1 DEF Shown
  <2>5. InOrder(new, buf[1].id, Length, Sealed)
    <3>1. /\ Len(new) = Len(buf) - 1 /\ Len(buf) \in Nat
          /\ \A j \in 1..Len(new) : j + 1 \in 1..Len(buf) /\ new[j] = buf[j + 1]
      BY <1>b, <2>1, LenProperties DEF Shown
    <3> HIDE DEF buf, new
    <3> SUFFICES ASSUME NEW j \in 1..Len(new)
                 PROVE  /\ buf[1].id < new[j].id /\ new[j].id <= Length
                        /\ new[j].event = "complete" <=> (Sealed /\ new[j].id = Length)
                        /\ \A k \in 1..(j - 1) : new[k].id < new[j].id
      BY DEF InOrder
    <3>2. j + 1 \in 1..Len(buf) /\ new[j] = buf[j + 1]
      BY <3>1
    <3>3. /\ 1 \in 1..((j + 1) - 1)
          /\ \A k \in 1..(j - 1) : k + 1 \in 1..((j + 1) - 1) /\ k \in 1..Len(new)
      BY <3>1
    <3>4. \A k \in 1..(j - 1) : new[k] = buf[k + 1]
      BY <3>1, <3>3
    <3>5. /\ new[j].id <= Length
          /\ new[j].event = "complete" <=> (Sealed /\ new[j].id = Length)
          /\ \A k \in 1..((j + 1) - 1) : buf[k].id < new[j].id
      BY <2>2, <3>2 DEF InOrder
    <3> QED
      BY <3>3, <3>4, <3>5
  <2>6. ASSUME NEW t \in Session, session'[t].up PROVE Source(t)'
    <3>1. CASE t = s
      <4>1. /\ page'[c].stage = "live" /\ session'[s].stage = session[s].stage /\ InLoop(s)
            /\ \A u \in Session : session'[u].up => session[u].up
        BY <2>1, <2>6, <3>1 DEF Shown
      <4> QED
        BY <2>1, <2>2, <2>3, <2>5, <3>1, <4>1 DEF Source, InLoop
    <3>2. CASE t # s
      <4>1. session'[t] = session[t] /\ \A u \in Session : session'[u].up => session[u].up
        BY <2>1, <3>2 DEF Shown
      <4>2. ClientOf[t] # c /\ ClientOf[t] \in Client
        BY <1>t, <2>1, <2>6, <3>2, <4>1 DEF Source
      <4>3. page'[ClientOf[t]] = page[ClientOf[t]] /\ Source(t)
        BY <2>1, <2>4, <2>6, <4>1, <4>2
      <4> QED
        BY <2>2, <4>1, <4>3 DEF Source, InLoop
    <3> QED
      BY <3>1, <3>2
  <2> QED
    BY <1>i, <2>2, <2>3, <2>4, <2>6
<1>4. ASSUME NEW s \in Session, Subscribe(s)
      PROVE  /\ \A c \in Client : page'[c].last <= Length'
             /\ \A t \in Session : session'[t].up => Source(t)'
  <2>1. Subscribed(s)
    BY <1>4, <1>k, SubscribeEffect
  <2>2. /\ \A t \in Session : session'[t].up => session[t].up /\ Source(t)
        /\ Length' = Length /\ Sealed' = Sealed
        /\ \A t \in Session \ {s} : session'[t] = session[t]
    BY <1>i, <2>1 DEF Subscribed
  <2>3. \A c \in Client : page'[c].last = page[c].last
    <3>1. \/ page' = page
          \/ page' = [page EXCEPT ![ClientOf[s]].stage = IF session[s].up THEN "failed" ELSE @]
      BY <2>1 DEF Subscribed
    <3>2. \A w : \A c \in Client : page[c].last = [page[c] EXCEPT !.stage = w].last
      BY <1>t DEF PageType
    <3>3. CASE page' = [page EXCEPT ![ClientOf[s]].stage = IF session[s].up THEN "failed" ELSE @]
      <4>1. PICK w : page' = [page EXCEPT ![ClientOf[s]] = [page[ClientOf[s]] EXCEPT !.stage = w]]
        BY <3>3
      <4> QED
        BY <1>t, <3>2, <4>1
    <3> QED
      BY <3>1, <3>3
  <2>4. ASSUME NEW t \in Session, session'[t].up PROVE Source(t)'
    <3>1. CASE t = s
      <4>1. /\ Source(s) /\ page' = page /\ session[s].stage = "subscribing"
            /\ \/ session'[s].stage = "blocked"
               \/ /\ InLoop(s)'
                  /\ InOrder(session'[s].buf, session[s].from, Length, Sealed)
        BY <2>1, <2>2, <2>4, <3>1 DEF Subscribed
      <4> QED
        BY <2>2, <3>1, <4>1 DEF Source, InLoop
    <3>2. CASE t # s
      <4>1. session'[t] = session[t] /\ Source(t) /\ session[t].up
        BY <2>2, <2>4, <3>2
      <4>2. page'[ClientOf[t]] = page[ClientOf[t]]
        <5>1. CASE page' = page
          BY <5>1
        <5>2. CASE page' # page
          <6>1. session[s].up
                /\ page' = [page EXCEPT ![ClientOf[s]].stage = IF session[s].up THEN "failed" ELSE @]
            BY <2>1, <5>2 DEF Subscribed
          <6>2. ClientOf[t] # ClientOf[s]
            BY <1>i, <3>2, <4>1, <6>1 DEF Source
          <6> QED
            BY <1>t, <6>1, <6>2
        <5> QED
          BY <5>1, <5>2
      <4> QED
        BY <2>2, <4>1, <4>2 DEF Source, InLoop
    <3> QED
      BY <3>1, <3>2
  <2> QED
    BY <1>i, <2>2, <2>3, <2>4
<1>5. ASSUME NEW s \in Session, Request(s)
      PROVE  /\ \A c \in Client : page'[c].last <= Length'
             /\ \A t \in Session : session'[t].up => Source(t)'
  <2> DEFINE c == ClientOf[s]
  <2>1. /\ session'[s].stage = "requested" /\ session'[s].from = page[c].last
        /\ \A t \in Session \ {s} : session'[t] = session[t]
        /\ \A t \in Session : session[t].up => ClientOf[t] # c
        /\ page'[c].stage = "live" /\ page'[c].last = page[c].last
        /\ \A d \in Client : page'[d].last = page[d].last /\ (d # c => page'[d] = page[d])
        /\ Length' = Length /\ Sealed' = Sealed
    BY <1>t, <1>5, RequestEffect
  <2>2. ASSUME NEW t \in Session, session'[t].up PROVE Source(t)'
    <3>1. CASE t = s
      BY <2>1, <3>1 DEF Source, InLoop
    <3>2. CASE t # s
      <4>1. /\ session'[t] = session[t] /\ Source(t) /\ ClientOf[t] # c
            /\ page'[ClientOf[t]] = page[ClientOf[t]]
        BY <1>t, <1>i, <2>1, <2>2, <3>2
      <4> QED
        BY <2>1, <4>1 DEF Source, InLoop
    <3> QED
      BY <3>1, <3>2
  <2> QED
    BY <1>i, <2>1, <2>2
<1>6. ASSUME NEW c \in Client, Reopen(c)
      PROVE  /\ \A d \in Client : page'[d].last <= Length'
             /\ \A t \in Session : session'[t].up => Source(t)'
  <2>1. /\ \A t \in Session : session'[t] = IF ClientOf[t] = c THEN [session[t] EXCEPT !.up = FALSE]
                                            ELSE session[t]
        /\ page' = [page EXCEPT ![c].stage = "live", ![c].last = 0]
        /\ Length' = Length /\ Sealed' = Sealed
    BY <1>6 DEF Reopen, Length, Sealed
  <2>2. page'[c].last = 0 /\ \A d \in Client : d # c => page'[d] = page[d]
    BY <1>t, <2>1 DEF PageType
  <2>3. \A t \in Session : session'[t].up => session[t].up /\ ClientOf[t] # c /\ session'[t] = session[t]
    BY <1>t, <2>1 DEF SessionType
  <2>4. ASSUME NEW t \in Session, session'[t].up PROVE Source(t)'
    <3>1. Source(t) /\ session'[t] = session[t] /\ page'[ClientOf[t]] = page[ClientOf[t]]
      BY <1>t, <1>i, <2>2, <2>3, <2>4
    <3> QED
      BY <2>1, <2>3, <3>1 DEF Source, InLoop
  <2> QED
    BY <1>t, <1>i, <2>1, <2>2, <2>4
<1> QED
  BY <1>k, <1>1, <1>2, <1>3, <1>4, <1>5, <1>6

\* What the steps do to a page that keeps its event source.
LEMMA PageKinds ==
  ASSUME TypeOK, BufferIsTheTail, OneStream, ShowInv, [Next]_vars, cleanups' = 0, reopens' = 0,
         NEW c \in Client
  PROVE  /\ cleanups = 0 /\ reopens = 0
         /\ \/ page'[c].last = page[c].last /\ page'[c].shown = page[c].shown
            \/ \E s \in Session : c = ClientOf[s] /\ Shown(s) /\ Source(s)
<1>t. /\ page \in [Client -> PageType] /\ \A s \in Session : ClientOf[s] \in Client
      /\ reopens \in Nat
  BY ClientsAssumption, BoundsAssumption DEF TypeOK
<1>k. /\ cleanups = 0
      /\ \/ Unseen
         \/ \E event : Written(event)
         \/ \E s \in Session : (Serve(s) /\ session[s].up) \/ Subscribe(s) \/ Request(s)
         \/ \E d \in Client : Reopen(d)
  BY Kinds
<1>i. \A s \in Session : session[s].up => Source(s)
  BY <1>k DEF ShowInv
<1>1. CASE Unseen \/ \E event : Written(event)
  <2>1. page' = page /\ reopens' = reopens
    BY <1>1 DEF Unseen, Written
  <2> QED
    BY <1>k, <2>1
<1>2. ASSUME NEW s \in Session, Serve(s), session[s].up
      PROVE  /\ reopens = 0
             /\ \/ page'[c].last = page[c].last /\ page'[c].shown = page[c].shown
                \/ c = ClientOf[s] /\ Shown(s) /\ Source(s)
  <2>1. Shown(s) /\ Source(s)
    BY <1>2, <1>i, ServeShows
  <2>2. reopens' = reopens /\ (c # ClientOf[s] => page'[c] = page[c])
    BY <2>1 DEF Shown
  <2> QED
    BY <2>1, <2>2
<1>3. ASSUME NEW s \in Session, Subscribe(s)
      PROVE  reopens = 0 /\ page'[c].last = page[c].last /\ page'[c].shown = page[c].shown
  <2>1. Subscribed(s)
    BY <1>3, <1>k, SubscribeEffect
  <2>2. /\ reopens' = reopens
        /\ \/ page' = page
           \/ page' = [page EXCEPT ![ClientOf[s]].stage = IF session[s].up THEN "failed" ELSE @]
    BY <2>1 DEF Subscribed
  <2>3. \A w : /\ page[c].last = [page[c] EXCEPT !.stage = w].last
               /\ page[c].shown = [page[c] EXCEPT !.stage = w].shown
    BY <1>t DEF PageType
  <2>4. CASE page' = [page EXCEPT ![ClientOf[s]].stage = IF session[s].up THEN "failed" ELSE @]
    <3>1. PICK w : page' = [page EXCEPT ![ClientOf[s]] = [page[ClientOf[s]] EXCEPT !.stage = w]]
      BY <2>4
    <3>2. page'[c] = page[c] \/ page'[c] = [page[c] EXCEPT !.stage = w]
      BY <1>t, <3>1
    <3> QED
      BY <2>2, <2>3, <3>2
  <2> QED
    BY <2>2, <2>4
<1>4. ASSUME NEW s \in Session, Request(s)
      PROVE  reopens = 0 /\ page'[c].last = page[c].last /\ page'[c].shown = page[c].shown
  BY <1>4, RequestEffect
<1>5. \A d \in Client : ~Reopen(d)
  BY <1>t DEF Reopen
<1> QED
  BY <1>k, <1>1, <1>2, <1>3, <1>4, <1>5

ShownInv ==
  reopens = 0 /\ cleanups = 0 =>
    \A c \in Client :
      /\ Increasing(page[c].shown)
      /\ \A j \in 1..Len(page[c].shown) : page[c].shown[j] <= page[c].last

LEMMA ShownInit == Init => ShownInv
<1> SUFFICES ASSUME Init, NEW c \in Client
             PROVE  /\ Increasing(page[c].shown)
                    /\ \A j \in 1..Len(page[c].shown) : page[c].shown[j] <= page[c].last
  BY DEF ShownInv
<1>1. page[c].shown = <<>>
  BY DEF Init
<1>2. Len(page[c].shown) = 0
  BY <1>1, EmptySeq
<1> QED
  BY <1>2 DEF Increasing

\* The event a channel holds first is later than all that its page has shown.
LEMMA FirstIsNext ==
  ASSUME TypeOK, NEW s \in Session, Shown(s), Source(s)
  PROVE  /\ page[ClientOf[s]].last < session[s].buf[1].id /\ session[s].buf[1].id <= Length
         /\ session[s].buf[1].id \in Nat /\ page[ClientOf[s]].last \in Nat
         /\ session[s].buf[1].event = "complete" <=> (Sealed /\ session[s].buf[1].id = Length)
<1>1. /\ InOrder(session[s].buf, page[ClientOf[s]].last, Length, Sealed)
      /\ 1 \in 1..Len(session[s].buf)
  BY DEF Shown, Source
<1>2. session[s].buf[1] \in Event /\ page[ClientOf[s]] \in PageType
  BY <1>1, SessionFields, ElementOfSeq, ClientsAssumption DEF TypeOK
<1> QED
  BY <1>1, <1>2 DEF InOrder, Event, PageType

LEMMA ShownStep ==
  ASSUME TypeOK, BufferIsTheTail, OneStream, ShowInv, ShownInv, [Next]_vars
  PROVE  ShownInv'
<1> SUFFICES ASSUME cleanups' = 0, reopens' = 0, NEW c \in Client
             PROVE  /\ Increasing(page'[c].shown)
                    /\ \A j \in 1..Len(page'[c].shown) : page'[c].shown[j] <= page'[c].last
  BY DEF ShownInv
<1>1. /\ Increasing(page[c].shown)
      /\ \A j \in 1..Len(page[c].shown) : page[c].shown[j] <= page[c].last
  BY PageKinds DEF ShownInv
<1>2. CASE page'[c].last = page[c].last /\ page'[c].shown = page[c].shown
  BY <1>1, <1>2
<1>3. ASSUME NEW s \in Session, c = ClientOf[s], Shown(s), Source(s)
      PROVE  /\ Increasing(page'[c].shown)
             /\ \A j \in 1..Len(page'[c].shown) : page'[c].shown[j] <= page'[c].last
  <2> DEFINE id == session[s].buf[1].id
             old == page[c].shown
             new == page'[c].shown
  <2>1. page[c].last < id /\ id \in Nat /\ page[c].last \in Nat
    BY <1>3, FirstIsNext
  <2>2. page'[c].last = id /\ new = Append(old, id) /\ old \in Seq(Nat)
    BY <1>3 DEF Shown, TypeOK, PageType
  <2>3. \A j \in 1..Len(old) : old[j] \in Nat /\ old[j] <= page[c].last
    BY <1>1, <2>2, ElementOfSeq
  <2>4. Increasing(old)
    BY <1>1
  <2> HIDE DEF id, old, new
  <2>5. /\ Len(new) = Len(old) + 1 /\ Len(old) \in Nat /\ new[Len(old) + 1] = id
        /\ \A j \in 1..Len(old) : new[j] = old[j] /\ new[j] < id /\ new[j] \in Nat
    BY <2>1, <2>2, <2>3, AppendProperties, LenProperties
  <2>6. \A j \in 1..Len(new) : j \in 1..Len(old) \/ j = Len(old) + 1
    BY <2>5
  <2>7. \A j \in 1..Len(new) : new[j] <= id
    BY <2>1, <2>5, <2>6
  <2>8. Increasing(new)
    <3> SUFFICES ASSUME NEW j \in 1..Len(new), NEW k \in 1..(j - 1) PROVE new[k] < new[j]
      BY DEF Increasing
    <3>1. k \in 1..Len(old)
      BY <2>5
    <3>2. CASE j \in 1..Len(old)
      BY <2>4, <2>5, <3>1, <3>2 DEF Increasing
    <3>3. CASE j = Len(old) + 1
      BY <2>5, <3>1, <3>3
    <3> QED
      BY <2>6, <3>2, <3>3
  <2> QED
    BY <2>2, <2>7, <2>8 DEF new
<1> QED
  BY <1>2, <1>3, PageKinds

\* No page is shown an event twice or out of order, whatever connections it
\* loses, until it makes a second event source or the stream is cleaned up.
THEOREM PagesInOrder == Spec => []ShownInOrder
<1>1. Init => ShowInv /\ ShownInv
  BY ShowInit, ShownInit
<1>2. TypeOK /\ BufferIsTheTail /\ OneStream /\ ShowInv /\ ShownInv /\ [Next]_vars
        => ShowInv' /\ ShownInv'
  BY ShowStep, ShownStep
<1>3. ShownInv => ShownInOrder
  BY DEF ShownInv, ShownInOrder
<1> QED
  BY <1>1, <1>2, <1>3, TypeInit, TypeStep, FinishedInit, OneStep, NumberInit, NumberStep, PTL DEF Spec

-----------------------------------------------------------------------------
(* The pages as viewers of a log *)

LEMMA LogInit == Init => Log!Init
<1> SUFFICES ASSUME Init PROVE Log!Init
  OBVIOUS
<1>1. \A c \in Client : page[c].shown = <<>> /\ page[c].stage # "finished"
  BY DEF Init
<1>2. /\ [c \in Client |-> page[c].shown] = [c \in Client |-> <<>>]
      /\ [c \in Client |-> page[c].stage = "finished"] = [c \in Client |-> FALSE]
  BY <1>1
<1> QED
  BY <1>2 DEF Init, Log!Init, Length, Sealed

\* A step that shows nothing and ends nothing is none of the log's.
LEMMA NotSeen ==
  ASSUME UNCHANGED <<Length, Sealed>>,
         \A c \in Client : /\ page'[c].shown = page[c].shown
                           /\ (page'[c].stage = "finished") = (page[c].stage = "finished")
  PROVE  UNCHANGED Log!log
<1>1. /\ [c \in Client |-> page'[c].shown] = [c \in Client |-> page[c].shown]
      /\ [c \in Client |-> page'[c].stage = "finished"]
           = [c \in Client |-> page[c].stage = "finished"]
  OBVIOUS
<1> QED
  BY <1>1 DEF Log!log

LEMMA LogShow ==
  ASSUME TypeOK, NEW s \in Session, Shown(s), Source(s), ShownInv, reopens = 0, cleanups = 0
  PROVE  Log!Show(ClientOf[s])
<1> DEFINE c == ClientOf[s]
           id == session[s].buf[1].id
           ended == session[s].buf[1].event = "complete"
<1>1. /\ page[c].last < id /\ id <= Length /\ id \in Nat /\ page[c].last \in Nat
      /\ ended <=> (Sealed /\ id = Length)
      /\ c \in Client /\ page[c] \in PageType /\ Length \in Nat
  BY FirstIsNext, LengthType, ClientsAssumption DEF TypeOK
<1>2. /\ UNCHANGED <<Length, Sealed>>
      /\ \A d \in Client \ {c} : page'[d] = page[d]
      /\ page'[c].shown = Append(page[c].shown, id)
      /\ page'[c].stage = IF ended THEN "finished" ELSE "live"
  BY DEF Shown
<1>3. page[c].stage = "live"
  BY DEF Source
<1>4. \A j \in 1..Len(page[c].shown) : page[c].shown[j] < id
  <2>1. \A j \in 1..Len(page[c].shown) : page[c].shown[j] \in Nat
    BY <1>1, ElementOfSeq DEF PageType
  <2>2. \A j \in 1..Len(page[c].shown) : page[c].shown[j] <= page[c].last
    BY <1>1 DEF ShownInv
  <2> HIDE DEF c, id, ended
  <2> QED
    BY <1>1, <2>1, <2>2
<1>5. id \in 1..Length
  BY <1>1
<1> HIDE DEF c, id, ended
<1> DEFINE shown == [d \in Client |-> page[d].shown]
           over == [d \in Client |-> page[d].stage = "finished"]
<1>6. [d \in Client |-> page'[d].shown] = [shown EXCEPT ![c] = Append(shown[c], id)]
  BY <1>1, <1>2
<1>7. [d \in Client |-> page'[d].stage = "finished"] = [over EXCEPT ![c] = (Sealed /\ id = Length)]
  <2>1. (page'[c].stage = "finished") = (Sealed /\ id = Length)
    BY <1>1, <1>2
  <2> QED
    BY <1>1, <1>2, <2>1
<1>8. ~over[c] /\ shown[c] = page[c].shown
  BY <1>1, <1>3
<1>9. /\ \A j \in 1..Len(shown[c]) : shown[c][j] < id
      /\ shown' = [shown EXCEPT ![c] = Append(shown[c], id)]
      /\ over' = [over EXCEPT ![c] = (Sealed /\ id = Length)]
  BY <1>4, <1>6, <1>7, <1>8
<1>10. Log!Show(c)
  BY <1>2, <1>5, <1>8, <1>9 DEF Log!Show
<1> QED
  BY <1>10 DEF c

LEMMA LogStep ==
  ASSUME TypeOK, BufferIsTheTail, OneStream, ShowInv, ShownInv, [Next]_vars,
         cleanups' = 0, reopens' = 0
  PROVE  [Log!Next]_Log!log
<1>t. /\ page \in [Client -> PageType] /\ \A s \in Session : ClientOf[s] \in Client
      /\ reopens \in Nat
  BY ClientsAssumption, BoundsAssumption DEF TypeOK
<1>k. /\ cleanups = 0
      /\ \/ Unseen
         \/ \E event : Written(event)
         \/ \E s \in Session : (Serve(s) /\ session[s].up) \/ Subscribe(s) \/ Request(s)
         \/ \E d \in Client : Reopen(d)
  BY Kinds
<1>i. \A s \in Session : session[s].up => Source(s)
  BY <1>k DEF ShowInv
<1>1. CASE Unseen
  <2>1. page' = page /\ UNCHANGED <<Length, Sealed>>
    BY <1>1 DEF Unseen
  <2> QED
    BY <2>1, NotSeen
<1>2. ASSUME NEW event, Written(event) PROVE Log!Grow
  <2>1. page' = page /\ ~Sealed /\ Length' = Length + 1 /\ Sealed' \in BOOLEAN
    BY <1>2 DEF Written
  <2> QED
    BY <2>1 DEF Log!Grow
<1>3. ASSUME NEW s \in Session, Serve(s), session[s].up PROVE Log!Next
  <2>1. Shown(s) /\ Source(s)
    BY <1>3, <1>i, ServeShows
  <2>2. reopens = 0
    BY <2>1 DEF Shown
  <2> QED
    BY <1>t, <1>k, <2>1, <2>2, LogShow DEF Log!Next
<1>4. ASSUME NEW s \in Session, Subscribe(s) PROVE UNCHANGED Log!log
  <2>1. Subscribed(s) /\ UNCHANGED <<Length, Sealed>>
    BY <1>4, <1>k, SubscribeEffect DEF Subscribed
  <2>2. CASE page' = page
    BY <2>1, <2>2, NotSeen
  <2>3. CASE page' # page
    <3>1. /\ session[s].up /\ page[ClientOf[s]].stage = "live"
          /\ page' = [page EXCEPT ![ClientOf[s]].stage = "failed"]
      BY <1>i, <2>1, <2>3 DEF Subscribed, Source
    <3>2. \A c \in Client : /\ page'[c].shown = page[c].shown
                            /\ (page'[c].stage = "finished") = (page[c].stage = "finished")
      BY <1>t, <3>1 DEF PageType
    <3> QED
      BY <2>1, <3>2, NotSeen
  <2> QED
    BY <2>2, <2>3
<1>5. ASSUME NEW s \in Session, Request(s) PROVE UNCHANGED Log!log
  <2>1. \A c \in Client : /\ page'[c].shown = page[c].shown
                          /\ (page'[c].stage = "finished") = (page[c].stage = "finished")
    BY <1>5, RequestEffect
  <2>2. UNCHANGED <<Length, Sealed>>
    BY <1>5, RequestEffect
  <2> QED
    BY <2>1, <2>2, NotSeen
<1>6. \A d \in Client : ~Reopen(d)
  BY <1>t DEF Reopen
<1> QED
  BY <1>k, <1>1, <1>2, <1>3, <1>4, <1>5, <1>6 DEF Log!Next

\* While no page makes a second event source and nothing is cleaned up, the
\* pages are viewers of one log.
THEOREM LogImplemented ==
  ASSUME MaxReopens = 0, MaxCleanups = 0
  PROVE  Spec => ImplementsLog
<1>1. TypeOK => reopens = 0 /\ cleanups = 0
  BY DEF TypeOK
<1>2. Init => ShowInv /\ ShownInv /\ Log!Init
  BY ShowInit, ShownInit, LogInit
<1>3. TypeOK /\ BufferIsTheTail /\ OneStream /\ ShowInv /\ ShownInv /\ [Next]_vars
        => ShowInv' /\ ShownInv'
  BY ShowStep, ShownStep
<1>4. TypeOK' => reopens' = 0 /\ cleanups' = 0
  BY DEF TypeOK
<1>5. TypeOK /\ TypeOK' /\ BufferIsTheTail /\ OneStream /\ ShowInv /\ ShownInv /\ [Next]_vars
        => [Log!Next]_Log!log
  BY <1>4, LogStep
<1> QED
  BY <1>2, <1>3, <1>5, TypeInit, TypeStep, FinishedInit, OneStep, NumberInit, NumberStep, PTL
     DEF Spec, ImplementsLog, Log!Spec

-----------------------------------------------------------------------------
(* What fits is all shown *)

\* Before the first Cleanup only a stream that is done has closed channels.
EndedInv ==
  cleanups = 0 =>
    \A s \in Session : session[s].closed \/ session[s].stage = "replaying" => Sealed

\* While the log is no longer than a channel, its buffer holds all of it.
AllInv == cleanups = 0 /\ Length <= ChanCap => AllBuffered

LEMMA SealedStays ==
  ASSUME TypeOK, BufferIsTheTail, [Next]_vars, Sealed
  PROVE  Sealed'
<1>1. streams # <<>> /\ streams[1].done
  BY DEF Sealed
<1>2. 1 \in 1..Len(streams) /\ Len(streams') \in Nat /\ Len(streams) <= Len(streams')
      /\ Len(streams) \in Nat
  BY <1>1, EmptySeq, LenProperties, StreamSteps DEF TypeOK
<1>3. streams'[1].done
  BY <1>1, <1>2, StreamSteps
<1>4. Len(streams') # 0
  BY <1>2
<1>5. streams' # <<>>
  BY <1>4, EmptySeq
<1> QED
  BY <1>3, <1>5 DEF Sealed

\* Who closes a channel, or makes a closed one, ends the stream or found it ended.
LEMMA WhoCloses ==
  ASSUME TypeOK, OneStream, [Next]_vars, cleanups' = 0, NEW s \in Session,
         session'[s].closed \/ session'[s].stage = "replaying"
  PROVE  session[s].closed \/ session[s].stage = "replaying" \/ Sealed \/ Sealed'
<1>t. /\ session \in [Session -> SessionType] /\ Typed
      /\ Len(streams) \in Nat /\ cleanups \in Nat
  BY TypeOKTyped, LenProperties, BoundsAssumption DEF TypeOK
<1>1. ASSUME session'[s].closed = session[s].closed, session'[s].stage = session[s].stage
      PROVE  session[s].closed \/ session[s].stage = "replaying"
  BY <1>1
<1>2. CASE CallPublish \/ UNCHANGED vars \/ \E w \in Writer : CallComplete(w)
  <2>1. UNCHANGED session
    BY <1>2 DEF CallPublish, CallComplete, vars
  <2> QED
    BY <2>1
<1>3. CASE DoPublish \/ \E w \in Writer : DoComplete(w)
  <2>1. /\ \E i \in 1..Len(streams) : Publish(i) \/ Complete(i)
        /\ UNCHANGED <<page, reopens, cleanups>>
    BY <1>3 DEF DoPublish, DoComplete, TypeOK, Writer, counters
  <2>2. Len(streams) = IF mapped THEN 1 ELSE 0
    <3>1. cleanups = 0
      BY <2>1
    <3> QED
      BY <3>1 DEF OneStream
  <2>3. \A i \in 1..Len(streams) : i = 1 /\ 1 \in 1..Len(streams)
    <3>1. Len(streams) <= 1
      BY <2>2
    <3> QED
      BY <1>t, <3>1
  <2>4. CASE 1 \in 1..Len(streams) /\ Publish(1)
    <3>1. session'[s].closed = session[s].closed /\ session'[s].stage = session[s].stage
      BY <1>t, <2>4, PublishedSessions
    <3> QED
      BY <1>1, <3>1
  <2>5. CASE 1 \in 1..Len(streams) /\ Complete(1)
    <3>1. CASE streams[1].done
      <4>1. streams # <<>>
        BY <2>5, EmptySeq
      <4> QED
        BY <3>1, <4>1 DEF Sealed
    <3>2. CASE ~streams[1].done
      <4>1. streams'[1].done /\ streams' # <<>>
        BY <1>t, <2>5, <3>2, CompletedStream
      <4> QED
        BY <4>1 DEF Sealed
    <3> QED
      BY <3>1, <3>2
  <2> QED
    BY <2>1, <2>3, <2>4, <2>5
<1>4. ASSUME NEW u \in Session, CallSubscribe(u)
      PROVE  session[s].closed \/ session[s].stage = "replaying"
  <2>1. PICK i : session' = [session EXCEPT ![u].stage = "subscribing", ![u].at = i]
    BY <1>4 DEF CallSubscribe
  <2> QED
    BY <1>t, <2>1 DEF SessionType
<1>5. ASSUME NEW u \in Session, Subscribe(u)
      PROVE  session[s].closed \/ session[s].stage = "replaying" \/ Sealed
  <2>1. /\ session[u].stage = "subscribing" /\ session[u].at \in 1..Len(streams)
        /\ UNCHANGED cleanups
    BY <1>5 DEF Subscribe, TypeOK, counters
  <2>2. session[u].at = 1 /\ streams # <<>>
    <3>1. Len(streams) = IF mapped THEN 1 ELSE 0
      BY <2>1 DEF OneStream
    <3>2. Len(streams) <= 1
      BY <3>1
    <3> QED
      BY <1>t, <2>1, <3>2, EmptySeq
  <2>3. PICK replay : Replayed(u, replay)
    BY <1>5 DEF Subscribe
  <2>4. CASE streams[1].done
    BY <2>2, <2>4 DEF Sealed
  <2>5. CASE ~streams[1].done
    <3>1. \/ session' = [session EXCEPT ![u].stage = "blocked", ![u].buf = SubSeq(replay, 1, ChanCap)]
          \/ session' = [session EXCEPT ![u].stage = "serving", ![u].buf = replay]
          \/ session' = [session EXCEPT ![u].stage = "panicked", ![u].up = FALSE]
      BY <2>2, <2>3, <2>5 DEF Replayed
    <3>2. CASE s # u
      BY <1>t, <3>1, <3>2
    <3>3. CASE s = u
      <4>1. session[u] \in SessionType
        BY <1>t
      <4>2. \/ session'[u] = [session[u] EXCEPT !.stage = "blocked", !.buf = SubSeq(replay, 1, ChanCap)]
            \/ session'[u] = [session[u] EXCEPT !.stage = "serving", !.buf = replay]
            \/ session'[u] = [session[u] EXCEPT !.stage = "panicked", !.up = FALSE]
        BY <1>t, <3>1
      <4>3. session'[u].closed = session[u].closed /\ session'[u].stage # "replaying"
        BY <4>1, <4>2 DEF SessionType
      <4> QED
        BY <3>3, <4>3
    <3> QED
      BY <3>2, <3>3
  <2> QED
    BY <2>4, <2>5
<1>6. ASSUME NEW u \in Session, Serve(u)
      PROVE  session[s].closed \/ session[s].stage = "replaying"
  <2>1. \E b : session' = [session EXCEPT ![u].buf = Tail(@), ![u].up = @ /\ b]
    BY <1>6 DEF Serve
  <2> QED
    BY <1>t, <2>1 DEF SessionType
<1>7. ASSUME NEW u \in Session, EndLoop(u) \/ Unsubscribe(u)
      PROVE  session[s].closed \/ session[s].stage = "replaying"
  <2>1. \/ session' = [session EXCEPT ![u].stage = "leaving"]
        \/ session' = [session EXCEPT ![u] = IdleSession]
    BY <1>7 DEF EndLoop, Unsubscribe
  <2>2. \/ session'[s] = session[s]
        \/ session'[s] = IdleSession
        \/ session'[s] = [session[s] EXCEPT !.stage = "leaving"]
    BY <1>t, <2>1
  <2>3. IdleSession.closed = FALSE /\ IdleSession.stage = "idle"
    BY DEF IdleSession
  <2>4. CASE session'[s] = [session[s] EXCEPT !.stage = "leaving"]
    <3>1. session[s] \in SessionType
      BY <1>t
    <3> QED
      BY <2>4, <3>1 DEF SessionType
  <2> QED
    BY <2>2, <2>3, <2>4
<1>8. ASSUME NEW u \in Session, Request(u)
      PROVE  session[s].closed \/ session[s].stage = "replaying"
  <2> DEFINE new == [IdleSession EXCEPT !.stage = "requested",
                                          !.from = page[ClientOf[u]].last, !.up = TRUE]
  <2>1. session' = [session EXCEPT ![u] = new]
    BY <1>8 DEF Request
  <2>2. new.stage = "requested" /\ new.closed = FALSE
    BY DEF IdleSession
  <2> HIDE DEF new
  <2>3. session'[s] = session[s] \/ session'[s] = new
    BY <1>t, <2>1
  <2> QED
    BY <2>2, <2>3
<1>9. ASSUME NEW u \in Session, Drop(u)
      PROVE  session[s].closed \/ session[s].stage = "replaying"
  <2>1. session' = [session EXCEPT ![u].up = FALSE]
    BY <1>9 DEF Drop
  <2> QED
    BY <1>t, <2>1 DEF SessionType
<1>10. ASSUME NEW c \in Client, Reopen(c)
      PROVE  session[s].closed \/ session[s].stage = "replaying"
  <2>1. session'[s] = session[s] \/ session'[s] = [session[s] EXCEPT !.up = FALSE]
    BY <1>10 DEF Reopen
  <2>2. session[s] \in SessionType
    BY <1>t
  <2> QED
    BY <2>1, <2>2 DEF SessionType
<1>11. ~Cleanup
  BY <1>t DEF Cleanup
<1> QED
  BY <1>2, <1>3, <1>4, <1>5, <1>6, <1>7, <1>8, <1>9, <1>10, <1>11 DEF Next, Handle

LEMMA EndedStep ==
  ASSUME TypeOK, BufferIsTheTail, OneStream, EndedInv, [Next]_vars
  PROVE  EndedInv'
<1> SUFFICES ASSUME cleanups' = 0, NEW s \in Session,
                    session'[s].closed \/ session'[s].stage = "replaying"
             PROVE  Sealed'
  BY DEF EndedInv
<1>1. cleanups = 0
  BY Kinds
<1>2. session[s].closed \/ session[s].stage = "replaying" \/ Sealed \/ Sealed'
  BY WhoCloses
<1> QED
  BY <1>1, <1>2, SealedStays DEF EndedInv

LEMMA EndedInit == Init => EndedInv
BY DEF Init, EndedInv, IdleSession

LEMMA AllInit == Init => AllInv
BY DEF Init, AllInv, AllBuffered

LEMMA AllPublished ==
  ASSUME TypeOK, 1 \in 1..Len(streams), Publish(1) \/ Complete(1), AllBuffered,
         Length' <= ChanCap
  PROVE  AllBuffered'
<1>t. Typed /\ streams # <<>> /\ streams[1] \in StreamType
  BY TypeOKTyped, EmptySeq, ElementOfSeq DEF TypeOK
<1>1. CASE streams[1].done
  <2>1. UNCHANGED streams
    BY <1>t, <1>1, PublishedStream, CompletedStream
  <2> QED
    BY <2>1 DEF AllBuffered, Length
<1>2. CASE ~streams[1].done
  <2> DEFINE es == streams[1]
  <2>1. PICK event \in Event :
          /\ streams' # <<>> /\ streams'[1].nextID = es.nextID + 1
          /\ \/ streams'[1].events = Trimmed(Append(es.events, event))
             \/ streams'[1].events = Append(es.events, event)
    <3>1. \A e \in {"output", "complete"} : [id |-> es.nextID, event |-> e] \in Event
      BY <1>t DEF StreamType, Event
    <3>2. \E e \in {"output", "complete"} :
          /\ streams' # <<>> /\ streams'[1].nextID = es.nextID + 1
          /\ \/ streams'[1].events = Trimmed(Append(es.events, [id |-> es.nextID, event |-> e]))
             \/ streams'[1].events = Append(es.events, [id |-> es.nextID, event |-> e])
      BY <1>t, <1>2, PublishedStream, CompletedStream
    <3> QED
      BY <3>1, <3>2
  <2>2. /\ Length' = es.nextID /\ Length = es.nextID - 1 /\ es.nextID \in Nat \ {0}
        /\ Len(es.events) = es.nextID - 1 /\ es.events \in Seq(Event)
    BY <1>t, <2>1 DEF AllBuffered, Length, StreamType
  <2>3. Len(Append(es.events, event)) = es.nextID
    BY <2>2, AppendProperties
  <2>4. ~(Len(Append(es.events, event)) > MaxBuffered)
    BY <2>2, <2>3, BoundsAssumption
  <2>5. streams'[1].events = Append(es.events, event)
    BY <2>1, <2>4 DEF Trimmed
  <2> QED
    BY <2>2, <2>3, <2>5 DEF AllBuffered
<1> QED
  BY <1>1, <1>2

LEMMA LengthStays ==
  ASSUME TypeOK, OneStream, [Next]_vars, cleanups' = 0
  PROVE  Length \in Nat /\ (Length' = Length \/ Length' = Length + 1)
<1>1. ASSUME UNCHANGED Length
      PROVE  Length' = Length \/ Length' = Length + 1
  BY <1>1
<1>k. /\ cleanups = 0
      /\ \/ Unseen
         \/ \E event : Written(event)
         \/ \E s \in Session : (Serve(s) /\ session[s].up) \/ Subscribe(s) \/ Request(s)
         \/ \E c \in Client : Reopen(c)
  BY Kinds
<1>2. ASSUME (\E s \in Session : Serve(s) \/ Request(s)) \/ \E c \in Client : Reopen(c)
      PROVE  UNCHANGED Length
  <2>1. UNCHANGED streams
    BY <1>2 DEF Serve, Request, Reopen
  <2> QED
    BY <2>1 DEF Length
<1>4. ASSUME NEW s \in Session, Subscribe(s) PROVE UNCHANGED Length
  <2>1. PICK replay : Replayed(s, replay) /\ session[s].at \in 1..Len(streams)
    BY <1>4 DEF Subscribe, TypeOK
  <2>2. CASE UNCHANGED streams
    BY <2>2 DEF Length
  <2>3. CASE streams' = [streams EXCEPT ![session[s].at].subscribers = @ \cup {s}]
    <3>1. streams[session[s].at].subscribers \cup {s} \in SUBSET Session
      BY <2>1, SubscribersAreSessions
    <3> QED
      BY <2>1, <2>3, <3>1, SubscribersKept
  <2> QED
    BY <2>1, <2>2, <2>3 DEF Replayed
<1> QED
  BY <1>k, <1>2, <1>4, LengthType DEF Unseen, Written

LEMMA AllStep ==
  ASSUME TypeOK, OneStream, AllInv, [Next]_vars
  PROVE  AllInv'
<1> SUFFICES ASSUME cleanups' = 0, Length' <= ChanCap PROVE AllBuffered'
  BY DEF AllInv
<1>t. /\ Typed /\ Len(streams) \in Nat /\ cleanups \in Nat /\ ChanCap \in Nat
      /\ streams \in Seq(StreamType)
  BY TypeOKTyped, LenProperties, BoundsAssumption DEF TypeOK
<1>1. cleanups = 0 /\ AllBuffered
  <2>1. cleanups = 0
    BY Kinds
  <2>2. Length <= ChanCap
    BY <1>t, LengthStays
  <2> QED
    BY <2>1, <2>2 DEF AllInv
<1>2. CASE UNCHANGED streams
  BY <1>1, <1>2 DEF AllBuffered, Length
<1>3. ASSUME NEW i \in 1..(Len(streams) + 1), GetOrCreateStream(i) PROVE AllBuffered'
  <2>1. CASE streams = <<>>
    <3>1. Len(streams) = 0
      BY <2>1, EmptySeq
    <3>2. 1 \in 1..Len(streams') /\ 1 > Len(streams)
      <4>1. i \in 1..Len(streams')
        BY <1>t, <1>3, GotStream
      <4> QED
        BY <3>1, <4>1
    <3>3. streams'[1] = EmptyStream /\ streams' # <<>>
      BY <1>t, <1>3, <3>2, GotStream
    <3> QED
      BY <3>3, EmptySeq DEF AllBuffered, Length, EmptyStream
  <2>2. CASE streams # <<>>
    <3>1. 1 \in 1..Len(streams)
      BY <1>t, <2>2, EmptySeq
    <3>2. streams'[1] = streams[1] /\ streams' # <<>>
      BY <1>t, <1>3, <3>1, GotStream
    <3> QED
      BY <1>1, <2>2, <3>2 DEF AllBuffered, Length
  <2> QED
    BY <2>1, <2>2
<1>4. CASE DoPublish \/ \E w \in Writer : DoComplete(w)
  <2>1. \E i \in 1..Len(streams) : Publish(i) \/ Complete(i)
    BY <1>4 DEF DoPublish, DoComplete, TypeOK, Writer
  <2>2. Len(streams) = IF mapped THEN 1 ELSE 0
    BY <1>1 DEF OneStream
  <2>3. \A i \in 1..Len(streams) : i = 1 /\ 1 \in 1..Len(streams)
    <3>1. Len(streams) <= 1
      BY <2>2
    <3> QED
      BY <1>t, <3>1
  <2> QED
    BY <1>1, <2>1, <2>3, AllPublished
<1>5. ASSUME NEW i \in 1..Len(streams), NEW x \in SUBSET Session,
             streams' = [streams EXCEPT ![i].subscribers = x]
      PROVE  AllBuffered'
  <2>1. streams # <<>>
    BY EmptySeq
  <2>2. UNCHANGED Length /\ streams'[1].events = streams[1].events
    BY <1>5, SubscribersKept
  <2> QED
    BY <1>1, <2>1, <2>2 DEF AllBuffered
<1>6. ASSUME NEW s \in Session, Subscribe(s) PROVE AllBuffered'
  <2>1. PICK replay : Replayed(s, replay) /\ session[s].at \in 1..Len(streams)
    BY <1>6 DEF Subscribe, TypeOK
  <2>2. CASE streams' = [streams EXCEPT ![session[s].at].subscribers = @ \cup {s}]
    <3>1. streams[session[s].at].subscribers \cup {s} \in SUBSET Session
      BY <2>1, SubscribersAreSessions
    <3> QED
      BY <1>5, <2>1, <2>2, <3>1
  <2> QED
    BY <1>2, <2>1, <2>2 DEF Replayed
<1>7. ASSUME NEW s \in Session, Unsubscribe(s) PROVE AllBuffered'
  <2>1. /\ session[s].at \in 1..Len(streams)
        /\ streams' = [streams EXCEPT ![session[s].at].subscribers = @ \ {s}]
    BY <1>7 DEF Unsubscribe, TypeOK
  <2>2. streams[session[s].at].subscribers \ {s} \in SUBSET Session
    BY <2>1, SubscribersAreSessions
  <2> QED
    BY <1>5, <2>1, <2>2
<1>8. CASE CallPublish \/ (\E w \in Writer : CallComplete(w)) \/ \E s \in Session : CallSubscribe(s)
  <2>1. \E i \in 1..(Len(streams) + 1) : GetOrCreateStream(i)
    BY <1>8 DEF CallPublish, CallComplete, CallSubscribe
  <2> QED
    BY <1>3, <2>1
<1>9. CASE UNCHANGED vars \/ (\E s \in Session : Serve(s) \/ EndLoop(s) \/ Request(s) \/ Drop(s))
           \/ \E c \in Client : Reopen(c)
  <2>1. UNCHANGED streams
    BY <1>9 DEF vars, Serve, EndLoop, Request, Drop, Reopen
  <2> QED
    BY <1>2, <2>1
<1>10. ~Cleanup
  BY <1>t DEF Cleanup
<1> QED
  BY <1>4, <1>6, <1>7, <1>8, <1>9, <1>10 DEF Next, Handle

\* While the log is no longer than a channel, a connection holds in its channel
\* all that its page has not been shown, and its page was shown the rest.
FitInv ==
  cleanups = 0 /\ Length <= ChanCap =>
    /\ \A s \in Session :
         session[s].up /\ InLoop(s) => Complements(session[s].buf, page[ClientOf[s]].last, Length)
    /\ reopens = 0 =>
         \A c \in Client : /\ page[c].last = Len(page[c].shown)
                           /\ \A j \in 1..Len(page[c].shown) : page[c].shown[j] = j

LEMMA FitInit == Init => FitInv
<1> SUFFICES ASSUME Init PROVE FitInv
  OBVIOUS
<1>1. \A s \in Session : ~session[s].up
  BY DEF Init, IdleSession
<1>2. \A c \in Client : page[c].shown = <<>> /\ page[c].last = 0
  BY DEF Init
<1> QED
  BY <1>1, <1>2, EmptySeq DEF FitInv

\* An event goes to every handler that a page waits for.
LEMMA WrittenToAll ==
  ASSUME TypeOK, OneStream, NobodyIsForgotten, EndedInv, cleanups = 0,
         NEW event, Written(event), NEW s \in Session, InLoop(s), Len(session[s].buf) < ChanCap
  PROVE  session'[s].buf = Append(session[s].buf, event)
<1>t. Len(streams) \in Nat /\ session[s].at \in 1..Len(streams)
  BY LenProperties DEF TypeOK, InLoop
<1>1. session[s].stage = "serving" /\ ~session[s].closed
  BY DEF EndedInv, Written, InLoop
<1>2. session[s].at = 1
  <2>1. Len(streams) = IF mapped THEN 1 ELSE 0
    BY DEF OneStream
  <2>2. Len(streams) <= 1
    BY <2>1
  <2> QED
    BY <1>t, <2>2
<1>3. s \in streams[1].subscribers
  BY <1>1, <1>2 DEF NobodyIsForgotten
<1> QED
  BY <1>3 DEF Written

LEMMA FitStep ==
  ASSUME TypeOK, BufferIsTheTail, NobodyIsForgotten, OneStream, ShowInv, EndedInv, AllInv,
         FitInv, [Next]_vars
  PROVE  FitInv'
<1> SUFFICES ASSUME cleanups' = 0, Length' <= ChanCap
             PROVE  /\ \A s \in Session : session'[s].up /\ InLoop(s)' =>
                         Complements(session'[s].buf, page'[ClientOf[s]].last, Length')
                    /\ reopens' = 0 =>
                         \A c \in Client :
                           /\ page'[c].last = Len(page'[c].shown)
                           /\ \A j \in 1..Len(page'[c].shown) : page'[c].shown[j] = j
  BY DEF FitInv
<1>t. /\ session \in [Session -> SessionType] /\ page \in [Client -> PageType]
      /\ \A s \in Session : ClientOf[s] \in Client
      /\ Length \in Nat /\ ChanCap \in Nat /\ Length <= ChanCap
  BY LengthStays, ClientsAssumption, BoundsAssumption DEF TypeOK
<1>b. /\ \A s \in Session : session[s].buf \in Seq(Event) /\ Len(session[s].buf) \in Nat
      /\ \A c \in Client : page[c].last \in Nat
  BY <1>t, LenProperties DEF SessionType, PageType
<1>k. /\ cleanups = 0
      /\ \/ Unseen
         \/ \E event : Written(event)
         \/ \E s \in Session : (Serve(s) /\ session[s].up) \/ Subscribe(s) \/ Request(s)
         \/ \E c \in Client : Reopen(c)
  BY Kinds
<1>i. /\ \A s \in Session : session[s].up => Source(s)
      /\ \A c \in Client : page[c].last <= Length
      /\ AllBuffered
      /\ \A s \in Session : session[s].up /\ InLoop(s) =>
           Complements(session[s].buf, page[ClientOf[s]].last, Length)
  BY <1>t, <1>k DEF ShowInv, FitInv, AllInv
<1>1. ASSUME reopens' = 0, NEW c \in Client
      PROVE  /\ page'[c].last = Len(page'[c].shown)
             /\ \A j \in 1..Len(page'[c].shown) : page'[c].shown[j] = j
  <2>1. /\ page[c].last = Len(page[c].shown)
        /\ \A j \in 1..Len(page[c].shown) : page[c].shown[j] = j
    BY <1>t, <1>1, PageKinds DEF FitInv
  <2>2. CASE page'[c].last = page[c].last /\ page'[c].shown = page[c].shown
    BY <2>1, <2>2
  <2>3. ASSUME NEW s \in Session, c = ClientOf[s], Shown(s), Source(s)
        PROVE  /\ page'[c].last = Len(page'[c].shown)
               /\ \A j \in 1..Len(page'[c].shown) : page'[c].shown[j] = j
    <3> DEFINE id == session[s].buf[1].id
               old == page[c].shown
               new == page'[c].shown
    <3>1. id = page[c].last + 1
      BY <1>i, <2>3 DEF Shown, Complements
    <3>2. page'[c].last = id /\ new = Append(old, id) /\ old \in Seq(Nat) /\ id \in Nat
      BY <1>t, <1>b, <2>3, <3>1 DEF Shown, PageType
    <3>3. page[c].last = Len(old) /\ \A j \in 1..Len(old) : old[j] = j
      BY <2>1
    <3> HIDE DEF id, old, new
    <3>4. /\ Len(new) = Len(old) + 1 /\ Len(old) \in Nat /\ new[Len(old) + 1] = id
          /\ \A j \in 1..Len(old) : new[j] = old[j]
      BY <3>2, AppendProperties, LenProperties
    <3>5. page'[c].last = Len(new) /\ \A j \in 1..Len(new) : new[j] = j
      BY <3>1, <3>2, <3>3, <3>4
    <3> QED
      BY <3>5 DEF new
  <2> QED
    BY <1>1, <2>2, <2>3, PageKinds
<1>2. CASE Unseen
  <2>1. page' = page /\ Length' = Length
    BY <1>2 DEF Unseen
  <2>2. ASSUME NEW s \in Session, session'[s].up, InLoop(s)'
        PROVE  session[s].up /\ InLoop(s) /\ session'[s].buf = session[s].buf
    BY <1>2, <2>2 DEF Unseen, InLoop
  <2> QED
    BY <1>1, <1>i, <2>1, <2>2
<1>3. ASSUME NEW event, Written(event), NEW s \in Session, session'[s].up, InLoop(s)'
      PROVE  Complements(session'[s].buf, page'[ClientOf[s]].last, Length')
  <2> DEFINE n == page[ClientOf[s]].last
             buf == session[s].buf
             new == session'[s].buf
  <2>1. /\ session[s].up /\ InLoop(s) /\ page' = page
        /\ Length' = Length + 1 /\ event.id = Length + 1 /\ event \in Event
    BY <1>3 DEF Written, InLoop
  <2>2. /\ Len(buf) + n = Length /\ \A j \in 1..Len(buf) : buf[j].id = n + j
        /\ n \in Nat /\ Len(buf) \in Nat /\ buf \in Seq(Event)
    BY <1>t, <1>b, <1>i, <2>1 DEF Complements
  <2>3. Len(session[s].buf) < ChanCap
    BY <1>t, <2>1, <2>2
  <2>4. new = Append(buf, event)
    BY <1>k, <1>3, <2>1, <2>3, WrittenToAll
  <2> HIDE DEF n, buf, new
  <2>5. /\ Len(new) = Len(buf) + 1 /\ new[Len(buf) + 1] = event
        /\ \A j \in 1..Len(buf) : new[j] = buf[j]
    BY <2>1, <2>2, <2>4, AppendProperties
  <2>6. \A j \in 1..Len(new) : j \in 1..Len(buf) \/ j = Len(buf) + 1
    BY <2>2, <2>5
  <2>7. event.id = n + (Len(buf) + 1) /\ Len(new) + n = Length + 1
    <3>1. Len(buf) + n = Length /\ n \in Nat /\ Len(buf) \in Nat
      BY <2>2
    <3>2. n + (Len(buf) + 1) = Length + 1 /\ (Len(buf) + 1) + n = Length + 1
      BY <3>1
    <3>3. event.id = Length + 1 /\ Len(new) = Len(buf) + 1
      BY <2>1, <2>5
    <3> QED
      BY <3>2, <3>3
  <2>8. \A j \in 1..Len(new) : new[j].id = n + j
    BY <2>2, <2>5, <2>6, <2>7
  <2>9. Complements(new, n, Length')
    BY <2>1, <2>7, <2>8 DEF Complements
  <2> QED
    BY <2>1, <2>9 DEF n, new
<1>4. ASSUME NEW s \in Session, Serve(s), session[s].up,
             NEW t \in Session, session'[t].up, InLoop(t)'
      PROVE  Complements(session'[t].buf, page'[ClientOf[t]].last, Length')
  <2>1. Shown(s) /\ Source(s) /\ Length' = Length
    BY <1>4, <1>i, ServeShows DEF Shown
  <2>2. CASE t = s
    <3> DEFINE n == page[ClientOf[s]].last
               buf == session[s].buf
               new == session'[s].buf
    <3>1. /\ Len(buf) + n = Length /\ \A j \in 1..Len(buf) : buf[j].id = n + j
          /\ n \in Nat /\ Len(buf) \in Nat /\ 1 \in 1..Len(buf)
      BY <1>t, <1>b, <1>i, <2>1 DEF Complements, Shown
    <3>2. /\ Len(new) = Len(buf) - 1
          /\ \A j \in 1..Len(new) : j + 1 \in 1..Len(buf) /\ new[j] = buf[j + 1]
          /\ page'[ClientOf[s]].last = buf[1].id
      BY <2>1 DEF Shown
    <3> HIDE DEF n, buf, new
    <3>3. page'[ClientOf[s]].last = n + 1
      BY <3>1, <3>2
    <3>4. Len(new) + (n + 1) = Length
      BY <3>1, <3>2
    <3>5. \A j \in 1..Len(new) : new[j].id = n + 1 + j
      <4>1. \A j \in 1..Len(new) : new[j].id = n + (j + 1) /\ n + (j + 1) = n + 1 + j
        BY <3>1, <3>2
      <4> QED
        BY <4>1
    <3>6. Complements(new, n + 1, Length)
      BY <3>4, <3>5 DEF Complements
    <3> QED
      BY <2>1, <2>2, <3>3, <3>6 DEF new
  <2>3. CASE t # s
    <3>1. session'[t] = session[t]
      BY <2>1, <2>3 DEF Shown
    <3>2. ClientOf[t] # ClientOf[s] /\ session[t].up /\ InLoop(t)
      BY <1>4, <2>1, <2>3, <3>1 DEF Source, InLoop
    <3>3. page'[ClientOf[t]] = page[ClientOf[t]]
      BY <1>t, <2>1, <3>2 DEF Shown
    <3> QED
      BY <1>i, <2>1, <3>1, <3>2, <3>3
  <2> QED
    BY <2>2, <2>3
<1>5. ASSUME NEW s \in Session, Subscribe(s),
             NEW t \in Session, session'[t].up, InLoop(t)'
      PROVE  Complements(session'[t].buf, page'[ClientOf[t]].last, Length')
  <2>1. Subscribed(s) /\ Length' = Length
    BY <1>5, <1>k, SubscribeEffect DEF Subscribed
  <2>2. CASE t = s
    <3>1. /\ session[s].up /\ session[s].stage = "subscribing" /\ page' = page
          /\ AllBuffered /\ session[s].from <= Length
               => Complements(session'[s].buf, session[s].from, Length)
      BY <1>5, <2>1, <2>2 DEF Subscribed, InLoop
    <3>2. session[s].from = page[ClientOf[s]].last /\ session[s].from <= Length
      BY <1>t, <1>i, <3>1 DEF Source
    <3> QED
      BY <1>i, <2>1, <2>2, <3>1, <3>2
  <2>3. CASE t # s
    <3>1. session'[t] = session[t] /\ session[t].up /\ InLoop(t)
      BY <1>5, <2>1, <2>3 DEF Subscribed, InLoop
    <3>2. page'[ClientOf[t]] = page[ClientOf[t]]
      <4>1. CASE page' = page
        BY <4>1
      <4>2. CASE page' # page
        <5>1. /\ session[s].up
              /\ page' = [page EXCEPT ![ClientOf[s]].stage = IF session[s].up THEN "failed" ELSE @]
          BY <2>1, <4>2 DEF Subscribed
        <5>2. ClientOf[t] # ClientOf[s]
          BY <1>i, <2>3, <3>1, <5>1 DEF Source
        <5> QED
          BY <1>t, <5>1, <5>2
      <4> QED
        BY <4>1, <4>2
    <3> QED
      BY <1>i, <2>1, <3>1, <3>2
  <2> QED
    BY <2>2, <2>3
<1>6. ASSUME NEW s \in Session, Request(s),
             NEW t \in Session, session'[t].up, InLoop(t)'
      PROVE  Complements(session'[t].buf, page'[ClientOf[t]].last, Length')
  <2>1. /\ session'[s].stage = "requested" /\ Length' = Length
        /\ \A u \in Session \ {s} : session'[u] = session[u]
        /\ \A c \in Client : page'[c].last = page[c].last
    BY <1>6, RequestEffect
  <2>2. t # s
    BY <1>6, <2>1 DEF InLoop
  <2>3. session'[t] = session[t] /\ session[t].up /\ InLoop(t)
    BY <1>6, <2>1, <2>2 DEF InLoop
  <2> QED
    BY <1>t, <1>i, <2>1, <2>3
<1>7. ASSUME NEW c \in Client, Reopen(c),
             NEW t \in Session, session'[t].up, InLoop(t)'
      PROVE  Complements(session'[t].buf, page'[ClientOf[t]].last, Length')
  <2>1. /\ \A u \in Session : session'[u] = IF ClientOf[u] = c THEN [session[u] EXCEPT !.up = FALSE]
                                            ELSE session[u]
        /\ page' = [page EXCEPT ![c].stage = "live", ![c].last = 0]
        /\ Length' = Length
    BY <1>7 DEF Reopen, Length
  <2>2. ClientOf[t] # c
    BY <1>t, <1>7, <2>1 DEF SessionType
  <2>3. session'[t] = session[t] /\ session[t].up /\ InLoop(t)
    BY <1>7, <2>1, <2>2 DEF InLoop
  <2>4. page'[ClientOf[t]] = page[ClientOf[t]]
    BY <1>t, <2>1, <2>2
  <2> QED
    BY <1>i, <2>1, <2>3, <2>4
<1> QED
  BY <1>k, <1>1, <1>2, <1>3, <1>4, <1>5, <1>6, <1>7

\* While a stream has no more events than a channel holds, a page is shown the
\* log from its beginning, whatever connections it loses, until it makes a second
\* event source or the stream is cleaned up.
THEOREM NothingLost == Spec => []NothingLostWhileItFits
<1>1. Init => ShowInv /\ EndedInv /\ AllInv /\ FitInv
  BY ShowInit, EndedInit, AllInit, FitInit
<1>2. TypeOK /\ OpenInv /\ BufferIsTheTail /\ OneStream /\ ShowInv /\ EndedInv /\ AllInv /\ FitInv
        /\ [Next]_vars => ShowInv' /\ EndedInv' /\ AllInv' /\ FitInv'
  BY ShowStep, EndedStep, AllStep, FitStep DEF OpenInv
<1>3. FitInv => NothingLostWhileItFits
  BY DEF FitInv, NothingLostWhileItFits, Length
<1> QED
  BY <1>1, <1>2, <1>3, TypeInit, TypeStep, OpenInit, OpenStep, FinishedInit, OneStep,
     NumberInit, NumberStep, PTL DEF Spec

=============================================================================
