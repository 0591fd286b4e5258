-------------------------- MODULE NotificationHub --------------------------
(***************************************************************************)
(* gorge-notification: the admin port publishes messages into the hub, the *)
(* client port serves one WebSocket per browser.  A connection has a read  *)
(* loop (the handler) and a writer that drains its bounded queue; the hub  *)
(* keeps one list of connections per instance and one bounded history that *)
(* a browser replays after it (re)connects.  Publish only holds the hub's  *)
(* lock while it appends to the history, and a list's while it copies it.  *)
(***************************************************************************)
EXTENDS Integers, Sequences, SequencesExt, FiniteSets, FiniteSetsExt, Functions

CONSTANTS
  Conns, Instances, Topics, Msgs,
  Bytes,           \* message -> the size of its encoding
  MaxInstances, HistorySize, HistoryBytes, HistoryAge,
  QueueFrames, QueueBytes, MaxTopics,
  MaxFrames        \* bound: connection -> the frames its browser sends

VARIABLES
  registry,   \* h.instances: name -> its list, for the names in it
  ticket,     \* h.instanceClock
  history,    \* sequence of [m, inst, topics, age]
  pub,        \* message -> the progress of the request that publishes it
  conn        \* connection -> listener and handler

hubVars == <<registry, ticket, history, pub, conn>>

NoFrame == [m |-> "none", replay |-> FALSE]
Pong == [m |-> "pong", replay |-> FALSE]
Frame(m, replay) == [m |-> m, replay |-> replay]
FrameBytes(f) == IF f.m \in Msgs THEN Bytes[f.m] ELSE IF f = Pong THEN 1 ELSE 0

\* got, synced and covered record what the connection was given; frames is
\* the number of frames its browser may still send
Fresh ==
  [stage |-> "new", inst |-> "none", topics |-> {}, queue |-> <<>>, flight |-> NoFrame,
   writer |-> FALSE, done |-> FALSE, left |-> <<>>, full |-> FALSE, waiting |-> FALSE,
   synced |-> FALSE, covered |-> {}, got |-> {}, frames |-> 0]

\* the handler has returned; what a writer that has yet to notice holds is lost
Gone == [Fresh EXCEPT !.stage = "gone", !.done = TRUE]

HubInit ==
  /\ registry = <<>> /\ ticket = 0 /\ history = <<>>
  /\ pub = [m \in Msgs |-> [stage |-> "none", inst |-> "none", topics |-> {}, born |-> 0, targets |-> {}]]
  /\ conn = [c \in Conns |-> Fresh]

-----------------------------------------------------------------------------
(***************************************************************************)
(* The history.                                                            *)
(***************************************************************************)
HeldBytes(h) == FoldSeq(LAMBDA e, n : n + Bytes[e.m], 0, h)

purgeHistory(h) ==
  LET within(k) == \/ k = Len(h)
                   \/ /\ Len(h) - k <= HistorySize
                      /\ HeldBytes(SubSeq(h, k + 1, Len(h))) <= HistoryBytes
                      /\ h[k + 1].age <= HistoryAge
  IN SubSeq(h, Min({k \in 0..Len(h) : within(k)}) + 1, Len(h))

Addressed(topics, mine) == topics = {} \/ topics \cap mine # {}

NotBefore(age, limit) == age <= limit

GetHistory(h, i, limit) == SelectSeq(h, LAMBDA e : e.inst = i /\ NotBefore(e.age, limit))

HubTick ==
  /\ \E k \in DOMAIN history : history[k].age <= HistoryAge
  /\ history' = [k \in DOMAIN history |->
       [history[k] EXCEPT !.age = IF @ > HistoryAge THEN @ ELSE @ + 1]]
  /\ UNCHANGED <<registry, ticket, pub, conn>>

Status ==
  /\ history # purgeHistory(history)
  /\ history' = purgeHistory(history)
  /\ UNCHANGED <<registry, ticket, pub, conn>>

-----------------------------------------------------------------------------
(***************************************************************************)
(* A connection's queue and writer.                                        *)
(***************************************************************************)
Closed(l) == [l EXCEPT !.done = TRUE]

\* what queuedBytes counts: a frame in flight is held until it is written
Queued(l) == FoldSeq(LAMBDA f, n : n + FrameBytes(f), FrameBytes(l.flight), l.queue)

Fits(l, f) == Queued(l) + FrameBytes(f) <= QueueBytes /\ Len(l.queue) < QueueFrames

\* [the listener, whether the frame was accepted]
enqueue(l, f) ==
  IF l.done THEN [l |-> l, ok |-> FALSE]
  ELSE IF ~Fits(l, f) THEN [l |-> Closed(l), ok |-> FALSE]
  ELSE [l |-> [l EXCEPT !.queue = Append(@, f), !.got = @ \cup ({f.m} \cap Msgs)], ok |-> TRUE]

Set(c, l) == conn' = [conn EXCEPT ![c] = l]
OnlyConn == UNCHANGED <<registry, ticket, history, pub>>

WriterTakes(c) ==
  LET l == conn[c] IN
  /\ l.writer /\ ~l.done /\ l.flight = NoFrame /\ l.queue # <<>>
  /\ Set(c, [l EXCEPT !.queue = Tail(@), !.flight = Head(l.queue)]) /\ OnlyConn

WriterWrites(c) ==
  LET l == conn[c] IN
  /\ l.writer /\ l.flight # NoFrame
  /\ Set(c, [l EXCEPT !.flight = NoFrame, !.waiting = @ /\ ~l.flight.replay]) /\ OnlyConn

LeavesOpen(l) == [l EXCEPT !.writer = FALSE, !.flight = NoFrame]   \* a bug: no defer l.Close()
WriterEnds(l) == Closed([l EXCEPT !.writer = FALSE, !.flight = NoFrame])

WriterFails(c) ==
  /\ conn[c].writer /\ (conn[c].flight # NoFrame \/ conn[c].done)
  /\ Set(c, WriterEnds(conn[c])) /\ OnlyConn

-----------------------------------------------------------------------------
(***************************************************************************)
(* Connecting and leaving.                                                 *)
(***************************************************************************)
IdleOrActive(i, h) == \A k \in DOMAIN h : h[k].inst # i   \* a bug: activeCount not consulted
IdleInstance(i, h) == registry[i].conns = {} /\ \A k \in DOMAIN h : h[k].inst # i

\* the names that remain when evictIdleInstance has made room, or all of them
evictIdleInstance(h) ==
  LET idle == {i \in DOMAIN registry : IdleInstance(i, h)}
      oldest == CHOOSE i \in idle : \A j \in idle : registry[i].used <= registry[j].used
  IN IF idle = {} THEN DOMAIN registry ELSE DOMAIN registry \ {oldest}

AddListener(c, i) ==
  /\ conn[c].stage = "new"
  /\ LET room == i \in DOMAIN registry \/ Cardinality(DOMAIN registry) < MaxInstances
         h == IF room THEN history ELSE purgeHistory(history)
         kept == IF room THEN DOMAIN registry ELSE evictIdleInstance(h)
         list == IF i \in DOMAIN registry
                 THEN [registry[i] EXCEPT !.conns = @ \cup {c}, !.used = ticket + 1]
                 ELSE [conns |-> {c}, used |-> ticket + 1, born |-> ticket + 1]
     IN /\ history' = h
        /\ \/ /\ room \/ kept # DOMAIN registry
              /\ registry' = [j \in kept \cup {i} |-> IF j = i THEN list ELSE registry[j]]
              /\ ticket' = ticket + 1
              /\ Set(c, [conn[c] EXCEPT !.stage = "reading", !.inst = i, !.writer = TRUE,
                              !.frames = MaxFrames[c]])
           \/ /\ ~room /\ kept = DOMAIN registry     \* ErrResourceLimit
              /\ Set(c, Gone)
              /\ UNCHANGED <<registry, ticket>>
  /\ UNCHANGED pub

\* the deferred RemoveListener and Close of the handler
RemoveListener(c) ==
  LET i == conn[c].inst IN
  /\ conn[c].stage = "closing"
  /\ Set(c, Gone)
  /\ IF i \in DOMAIN registry
     THEN /\ ticket' = ticket + 1
          /\ registry' = [registry EXCEPT ![i].conns = @ \ {c}, ![i].used = ticket + 1]
     ELSE UNCHANGED <<registry, ticket>>
  /\ UNCHANGED <<history, pub>>

-----------------------------------------------------------------------------
(***************************************************************************)
(* Publish.                                                                *)
(***************************************************************************)
PublishRecords(m, i, topics) ==
  /\ pub[m].stage = "none"
  /\ history' = purgeHistory(Append(history, [m |-> m, inst |-> i, topics |-> topics, age |-> 0]))
  /\ pub' = [pub EXCEPT ![m] = [@ EXCEPT !.stage = "recorded", !.inst = i, !.topics = topics]]
  /\ UNCHANGED <<registry, ticket, conn>>

\* getList; the list is copied in a step of its own
PublishLooksUp(m) ==
  LET i == pub[m].inst IN
  /\ pub[m].stage = "recorded"
  /\ pub' = [pub EXCEPT ![m].stage = IF i \in DOMAIN registry THEN "found" ELSE "done",
                        ![m].born = IF i \in DOMAIN registry THEN registry[i].born ELSE 0]
  /\ UNCHANGED <<registry, ticket, history, conn>>

\* A list that was evicted meanwhile is empty, and stays so.
snapshot(i, born) ==
  IF i \in DOMAIN registry /\ registry[i].born = born THEN registry[i].conns ELSE {}

PublishCopies(m) ==
  LET targets == snapshot(pub[m].inst, pub[m].born) IN
  /\ pub[m].stage = "found"
  /\ pub' = [pub EXCEPT ![m].stage = IF targets = {} THEN "done" ELSE "sending", ![m].targets = targets]
  /\ UNCHANGED <<registry, ticket, history, conn>>

PublishSends(m, c) ==
  LET i == pub[m].inst
      r == enqueue(conn[c], Frame(m, FALSE))
      addressed == Addressed(pub[m].topics, conn[c].topics)
  IN
  /\ pub[m].stage = "sending" /\ c \in pub[m].targets
  /\ pub' = [pub EXCEPT ![m].targets = @ \ {c},
                        ![m].stage = IF pub[m].targets = {c} THEN "done" ELSE "sending"]
  /\ conn' = [conn EXCEPT ![c] = IF ~addressed THEN @ ELSE IF r.ok THEN r.l ELSE Closed(r.l)]
  /\ registry' = IF addressed /\ ~r.ok /\ i \in DOMAIN registry
                 THEN [registry EXCEPT ![i].conns = @ \ {c}] ELSE registry
  /\ UNCHANGED <<ticket, history>>

-----------------------------------------------------------------------------
(***************************************************************************)
(* The read loop.                                                          *)
(***************************************************************************)
Reading(c) == conn[c].stage = "reading" /\ ~conn[c].done /\ conn[c].frames > 0
ReadFrame(l) == [l EXCEPT !.frames = @ - 1]

Subscribe(c, T) ==
  /\ Reading(c)
  /\ Set(c, IF Cardinality(conn[c].topics \cup T) > MaxTopics
            THEN [conn[c] EXCEPT !.stage = "closing"]
            ELSE [ReadFrame(conn[c]) EXCEPT !.topics = @ \cup T])
  /\ OnlyConn

Unsubscribe(c, T) ==
  /\ Reading(c)
  /\ Set(c, [ReadFrame(conn[c]) EXCEPT !.topics = @ \ T, !.covered = @ \ T]) /\ OnlyConn

Ping(c) ==
  LET r == enqueue(ReadFrame(conn[c]), Pong) IN
  /\ Reading(c)
  /\ Set(c, IF r.ok THEN r.l ELSE [r.l EXCEPT !.stage = "closing"]) /\ OnlyConn

\* an age of zero, negative, or over a minute is a minute
ReplayAge(a) == IF a \in 1..HistoryAge THEN a ELSE HistoryAge

Replay(c, a) ==
  /\ Reading(c)
  /\ history' = purgeHistory(history)
  /\ Set(c, [ReadFrame(conn[c]) EXCEPT !.stage = "replaying", !.full = (ReplayAge(a) = HistoryAge),
               !.left = SelectSeq(GetHistory(history', conn[c].inst, ReplayAge(a)),
                          LAMBDA e : Addressed(e.topics, conn[c].topics))])
  /\ UNCHANGED <<registry, ticket, pub>>

\* WriteJSONContext: the frame is queued, and the loop waits until it is written
ReplaySends(c) ==
  LET r == enqueue(conn[c], Frame(Head(conn[c].left).m, TRUE)) IN
  /\ conn[c].stage = "replaying" /\ ~conn[c].waiting /\ conn[c].left # <<>>
  /\ Set(c, IF r.ok THEN [r.l EXCEPT !.left = Tail(@), !.waiting = TRUE]
                    ELSE [r.l EXCEPT !.stage = "closing"])
  /\ OnlyConn

ReplayEnds(c) ==
  LET l == conn[c] IN
  /\ l.stage = "replaying" /\ ~l.waiting /\ l.left = <<>>
  /\ Set(c, [l EXCEPT !.stage = "reading", !.full = FALSE,
               !.synced = @ \/ l.full, !.covered = IF l.full THEN l.topics ELSE @])
  /\ OnlyConn

\* the connection is closed under the replay, or its deadline passes
ReplayFails(c) ==
  /\ conn[c].stage = "replaying" /\ (conn[c].waiting \/ conn[c].left # <<>>)
  /\ Set(c, Closed([conn[c] EXCEPT !.stage = "closing"])) /\ OnlyConn

\* ReadMessage fails: the browser went away, or Close closed the connection
ReadFails(c) ==
  /\ conn[c].stage = "reading"
  /\ Set(c, [conn[c] EXCEPT !.stage = "closing"]) /\ OnlyConn

readLoop(c) ==
  \/ \E T \in (SUBSET Topics) \ {{}} : Subscribe(c, T) \/ Unsubscribe(c, T)
  \/ Ping(c)
  \/ \E a \in 0..HistoryAge : Replay(c, a)
  \/ ReplaySends(c) \/ ReplayEnds(c) \/ ReplayFails(c) \/ ReadFails(c)

PublishStep(m) ==
  \/ PublishLooksUp(m) \/ PublishCopies(m) \/ \E c \in Conns : PublishSends(m, c)

HubNext ==
  \/ \E m \in Msgs : PublishStep(m)
  \/ \E m \in Msgs, i \in Instances, T \in SUBSET Topics : PublishRecords(m, i, T)
  \/ \E c \in Conns :
       \/ \E i \in Instances : AddListener(c, i)
       \/ readLoop(c) \/ RemoveListener(c)
       \/ WriterTakes(c) \/ WriterWrites(c) \/ WriterFails(c)
  \/ HubTick \/ Status

-----------------------------------------------------------------------------
(* A browser that subscribed and then replayed misses nothing: every message
   of its instance that is still in the history, and whose Publish has
   returned, was put into the queue of its connection, either live or by the
   replay, however the registration, the eviction of idle instances and the
   steps of Publish interleave. *)
NoGap ==
  \A c \in Conns : conn[c].synced /\ ~conn[c].done /\ conn[c].stage \in {"reading", "replaying"} =>
    \A k \in DOMAIN history :
      /\ history[k].inst = conn[c].inst
      /\ Addressed(history[k].topics, conn[c].covered)
      /\ pub[history[k].m].stage = "done"
      => history[k].m \in conn[c].got

(* What one connection holds in memory, the frame its writer is blocked on
   included, never exceeds the byte budget of its queue. *)
ConnectionBudget == \A c \in Conns :
  FoldSeq(LAMBDA f, n : n + FrameBytes(f), FrameBytes(conn[c].flight), conn[c].queue) <= QueueBytes

(* A connection whose writer has stopped (a failed or timed-out write) is
   taken out of the registry and its handler returns, even when the browser
   never sends another frame. *)
DeadConnectionLeaves ==
  \A c \in Conns :
    conn[c].stage \notin {"new", "gone"} /\ ~conn[c].writer
      ~> conn[c].stage = "gone" /\ \A i \in DOMAIN registry : c \notin registry[i].conns

\* The handler and the publishing request run until they block; a read that
\* fails because the connection was closed is not delayed for ever, and the
\* writer notices a closed connection.  Nothing is assumed of the browser.
HubFairness ==
  /\ \A m \in Msgs : WF_hubVars(PublishStep(m))
  /\ \A c \in Conns :
       /\ WF_hubVars(RemoveListener(c))
       /\ WF_hubVars(conn[c].done /\ (ReadFails(c) \/ ReplayFails(c)))
       /\ WF_hubVars(ReplayFails(c))
       /\ WF_hubVars(ReplayEnds(c) \/ ReplaySends(c))

\* A connection in step has every message of the history it asked for, and its
\* queue stays within its byte budget however slow it is (Publish, Replay).
HubDelivers == NoGap /\ ConnectionBudget
=============================================================================
