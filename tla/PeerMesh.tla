----------------------------- MODULE PeerMesh -----------------------------
(***************************************************************************)
(* The notification servers of a cluster and the worker handler that posts *)
(* notifications to them.  A server stamps a message with the fingerprint  *)
(* of its process, publishes it into its hub (NotificationHub) and relays  *)
(* it to its peers through one bounded queue and one writer each.  Relays  *)
(* are plain POSTs to the peer's admin port: they may be lost, time out    *)
(* and arrive anyway, or lose their receipt, and none is repeated.         *)
(***************************************************************************)
EXTENDS Integers, Sequences, FiniteSets

CONSTANTS
  Servers,
  PeersOf,       \* server -> the cluster section of its configuration
  RelayFrames,   \* the relay queue of one peer (64)
  Modes,         \* notification policies: subsets of {"required", "fallback", "off"}
  MaxPosts,      \* bound: POSTs of the handler
  MaxStarts      \* bound: server -> its processes

VARIABLES
  life,      \* server -> the number of its processes so far; life names the fingerprint
  learned,   \* server -> peer -> its fingerprint as of its last receipt, or 0
  relays,    \* server -> peer -> queue of copies
  sending,   \* server -> peer -> the request its writer waits on
  stray,     \* requests whose client gave up, still in the network
  hub,       \* server -> posts its present process has published, with repetitions
  task,      \* the notification task and its handler
  posts      \* number of POSTs of the handler so far; a post keeps its number

meshVars == <<life, learned, relays, sending, stray, hub, task, posts>>

NotSending == [phase |-> "idle"]
Fingerprint(s) == <<s, life[s]>>

MeshInit ==
  /\ life = [s \in Servers |-> 1]
  /\ learned = [s \in Servers |-> [p \in PeersOf[s] |-> 0]]
  /\ relays = [s \in Servers |-> [p \in PeersOf[s] |-> <<>>]]
  /\ sending = [s \in Servers |-> [p \in PeersOf[s] |-> NotSending]]
  /\ stray = {}
  /\ hub = [s \in Servers |-> <<>>]
  /\ task = [stage |-> "queued", mode |-> "none", todo |-> {}, to |-> "none", rejected |-> FALSE]
  /\ posts = 0

-----------------------------------------------------------------------------
(***************************************************************************)
(* A server handles POST / : postMessage.                                  *)
(***************************************************************************)
IsNew(s, touched) == Fingerprint(s) \notin touched

\* whether peer p of s is offered a copy with these stamps
Offered(s, p, touched) == learned[s][p] = 0 \/ <<p, learned[s][p]>> \notin touched

\* BroadcastMessage: queue the copy for each peer, or drop it when the queue is full
Relayed(s, copy) ==
  [p \in PeersOf[s] |->
     IF Offered(s, p, copy.touched) /\ Len(relays[s][p]) < RelayFrames
     THEN Append(relays[s][p], copy) ELSE relays[s][p]]

postMessage(s, copy) ==
  IF IsNew(s, copy.touched)
  THEN /\ hub' = [hub EXCEPT ![s] = Append(@, copy.post)]
       /\ relays' = [relays EXCEPT ![s] = Relayed(s, [copy EXCEPT !.touched = @ \cup {Fingerprint(s)}])]
  ELSE UNCHANGED <<hub, relays>>

-----------------------------------------------------------------------------
(***************************************************************************)
(* The writer of one peer: run and send.                                   *)
(***************************************************************************)
RelayStarts(s, p) ==
  /\ sending[s][p] = NotSending /\ relays[s][p] # <<>>
  /\ sending' = [sending EXCEPT ![s][p] = [phase |-> "sent", copy |-> Head(relays[s][p])]]
  /\ relays' = [relays EXCEPT ![s][p] = Tail(@)]
  /\ UNCHANGED <<life, learned, stray, hub, task, posts>>

RelayArrives(s, p) ==
  /\ sending[s][p].phase = "sent"
  /\ postMessage(p, sending[s][p].copy)
  /\ sending' = [sending EXCEPT ![s][p] = [phase |-> "answered", receipt |-> life[p]]]
  /\ UNCHANGED <<life, learned, stray, task, posts>>

RelayEnds(s, p) ==
  /\ sending[s][p].phase = "answered"
  /\ learned' = [learned EXCEPT ![s][p] = sending[s][p].receipt]
  /\ sending' = [sending EXCEPT ![s][p] = NotSending]
  /\ UNCHANGED <<life, relays, stray, hub, task, posts>>

\* no connection, a status other than 200, or five seconds without an answer
RelayFails(s, p) ==
  /\ sending[s][p] # NotSending
  /\ stray' \in {stray} \cup
       (IF sending[s][p].phase = "sent" THEN {stray \cup {[to |-> p, copy |-> sending[s][p].copy]}} ELSE {})
  /\ sending' = [sending EXCEPT ![s][p] = NotSending]
  /\ UNCHANGED <<life, learned, relays, hub, task, posts>>

StrayArrives(r) ==
  /\ r \in stray /\ stray' = stray \ {r}
  /\ postMessage(r.to, r.copy)
  /\ UNCHANGED <<life, learned, sending, task, posts>>

\* Everything a server holds is in memory, its fingerprint included.
Restart(s) ==
  /\ life[s] < MaxStarts[s]
  /\ life' = [life EXCEPT ![s] = @ + 1]
  /\ learned' = [learned EXCEPT ![s] = [p \in PeersOf[s] |-> 0]]
  /\ relays' = [relays EXCEPT ![s] = [p \in PeersOf[s] |-> <<>>]]
  /\ sending' = [sending EXCEPT ![s] = [p \in PeersOf[s] |-> NotSending]]
  /\ hub' = [hub EXCEPT ![s] = <<>>]
  /\ UNCHANGED <<stray, task, posts>>

-----------------------------------------------------------------------------
(***************************************************************************)
(* The notification handler of the worker.  The queue repeats a task whose *)
(* handler returned an error.                                              *)
(***************************************************************************)
\* the policy file is read at the start of every execution
HandlerStarts(mode, endpoints, valid) ==
  /\ task.stage = "queued"
  /\ task' = [task EXCEPT
       !.stage = IF ~valid THEN "permanent"
                 ELSE IF mode = "off" \/ endpoints = {} THEN "done" ELSE "posting",
       !.mode = mode, !.todo = endpoints, !.rejected = FALSE]
  /\ UNCHANGED <<life, learned, relays, sending, stray, hub, posts>>

\* the endpoints are tried one by one, in a random order
HandlerPosts(e) ==
  /\ task.stage = "posting" /\ e \in task.todo /\ posts < MaxPosts
  /\ posts' = posts + 1
  /\ task' = [task EXCEPT !.stage = "waiting", !.to = e, !.todo = @ \ {e}]
  /\ UNCHANGED <<life, learned, relays, sending, stray, hub>>

Copy == [post |-> posts, touched |-> {}]

HandlerAccepted ==
  /\ task.stage = "waiting"
  /\ postMessage(task.to, Copy)
  /\ task' = [task EXCEPT !.stage = "done"]
  /\ UNCHANGED <<life, learned, sending, stray, posts>>

\* two seconds without an answer: the message may arrive all the same
HandlerTimesOut(arrives) ==
  /\ task.stage = "waiting"
  /\ task' = [task EXCEPT !.stage = "posting"]
  /\ stray' = IF arrives THEN stray \cup {[to |-> task.to, copy |-> Copy]} ELSE stray
  /\ UNCHANGED <<life, learned, relays, sending, hub, posts>>

HandlerRefused ==
  /\ task.stage = "waiting"
  /\ task' = [task EXCEPT !.stage = "posting", !.rejected = TRUE]
  /\ UNCHANGED <<life, learned, relays, sending, stray, hub, posts>>

AlwaysDegrades(rejected, mode) == TRUE   \* a bug: the mode is not consulted
Degrades(rejected, mode) == ~rejected /\ mode = "fallback"

\* every endpoint failed: give up, or ask for another execution
HandlerEnds ==
  /\ task.stage = "posting" /\ task.todo = {}
  /\ task' = [task EXCEPT !.stage = IF Degrades(task.rejected, task.mode) THEN "done" ELSE "queued"]
  /\ UNCHANGED <<life, learned, relays, sending, stray, hub, posts>>

\* the execution's context ends: the handler returns its error
HandlerCancelled ==
  /\ task.stage = "posting"
  /\ task' = [task EXCEPT !.stage = "queued"]
  /\ UNCHANGED <<life, learned, relays, sending, stray, hub, posts>>

RelaySteps(s, p) == RelayStarts(s, p) \/ RelayArrives(s, p) \/ RelayEnds(s, p) \/ RelayFails(s, p)

MeshNext ==
  \/ \E s \in Servers : Restart(s) \/ \E p \in PeersOf[s] : RelaySteps(s, p)
  \/ \E r \in stray : StrayArrives(r)
  \/ \E mode \in Modes, E \in SUBSET Servers, valid \in BOOLEAN : HandlerStarts(mode, E, valid)
  \/ \E e \in Servers : HandlerPosts(e)
  \/ HandlerAccepted \/ HandlerRefused \/ HandlerEnds \/ HandlerCancelled
  \/ \E arrives \in BOOLEAN : HandlerTimesOut(arrives)

-----------------------------------------------------------------------------
(* Between two servers, one post reaches the hub of one server process once:
   the stamps of the copy keep a message that came back from being published
   again.  (Of three servers the third receives it from both others.) *)
PublishedOnce ==
  \A s \in Servers : \A j, k \in DOMAIN hub[s] : hub[s][j] = hub[s][k] => j = k

(* A task that ends under the required policy was accepted by a server: no
   sequence of time-outs, refused credentials, policy changes and repeated
   executions lets it end without one. *)
RequiredAccepted ==
  [][task.stage \in {"posting", "waiting"} /\ task'.stage = "done" /\ task.mode = "required"
       => \E s \in Servers : Len(hub'[s]) = Len(hub[s]) + 1]_meshVars

\* Of two servers each publishes a message once, and a task that ends under the
\* required policy was accepted by one of them.
MeshDelivers == []PublishedOnce /\ RequiredAccepted
=============================================================================
