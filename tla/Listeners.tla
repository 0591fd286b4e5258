----------------------------- MODULE Listeners -----------------------------
(***************************************************************************)
(* How a gorge binary with several ports starts and stops                  *)
(* (platform/httpx/server.go RunAll): bind every address, serve each in a  *)
(* goroutine, wait until all serve, then for a signal or the first that    *)
(* stops.  Shutdown closes only the sockets an app has begun to serve.     *)
(***************************************************************************)
EXTENDS Integers, Sequences, FiniteSets

CONSTANT Ports   \* number of servers of the binary

Apps == 1..Ports

VARIABLES
  main,      \* RunAll: binding, starting, running, draining or returned
  bound,     \* addresses bound so far
  socket,    \* server -> closed or open
  routine,   \* server -> none, spawned, registered, accepting, returned
  started,   \* serveStarted: signals not received yet
  stopped,   \* serveErr: results not received yet
  awaited,   \* start signals RunAll still waits for
  signalled  \* SIGINT or SIGTERM has arrived

listenVars == <<main, bound, socket, routine, started, stopped, awaited, signalled>>

ListenInit ==
  /\ main = "binding" /\ bound = 0
  /\ socket = [s \in Apps |-> "closed"]
  /\ routine = [s \in Apps |-> "none"]
  /\ started = 0 /\ stopped = 0 /\ awaited = Ports /\ signalled = FALSE

Signal ==
  /\ ~signalled
  /\ signalled' = TRUE
  /\ UNCHANGED <<main, bound, socket, routine, started, stopped, awaited>>

AllClosed == [s \in Apps |-> "closed"]

Bind ==
  /\ main = "binding" /\ bound < Ports
  /\ bound' = bound + 1
  /\ socket' = [socket EXCEPT ![bound + 1] = "open"]
  /\ UNCHANGED <<main, routine, started, stopped, awaited, signalled>>

BindFails ==
  /\ main = "binding" /\ bound < Ports
  /\ socket' = AllClosed
  /\ main' = "returned"
  /\ UNCHANGED <<bound, routine, started, stopped, awaited, signalled>>

Spawn ==
  /\ main = "binding" /\ bound = Ports
  /\ routine' = [s \in Apps |-> "spawned"]
  /\ main' = "starting"
  /\ UNCHANGED <<bound, socket, started, stopped, awaited, signalled>>

\* the goroutine of s: Serve takes the socket over, the first Accept reports
Registers(s) ==
  /\ routine[s] = "spawned"
  /\ routine' = [routine EXCEPT ![s] = "registered"]
  /\ UNCHANGED <<main, bound, socket, started, stopped, awaited, signalled>>

Accepts(s) ==
  /\ routine[s] = "registered"
  /\ routine' = [routine EXCEPT ![s] = "accepting"]
  /\ started' = started + 1
  /\ UNCHANGED <<main, bound, socket, stopped, awaited, signalled>>

\* Accept fails: the socket was closed, or by itself
ServeReturns(s) ==
  /\ routine[s] = "accepting"
  /\ routine' = [routine EXCEPT ![s] = "returned"]
  /\ stopped' = stopped + 1
  /\ UNCHANGED <<main, bound, socket, started, awaited, signalled>>

\* the wait for every app to serve
Started ==
  /\ main = "starting" /\ awaited > 0 /\ started > 0
  /\ started' = started - 1 /\ awaited' = awaited - 1
  /\ main' = IF awaited = 1 THEN "running" ELSE "starting"
  /\ UNCHANGED <<bound, socket, routine, stopped, signalled>>

ClosedBeforeDrain(s) == "closed"

StartInterrupted ==
  /\ main = "starting" /\ (stopped > 0 \/ signalled)
  /\ socket' = [s \in Apps |-> ClosedBeforeDrain(s)]
  /\ main' = "draining"
  /\ UNCHANGED <<bound, routine, started, stopped, awaited, signalled>>

WaitsForSignal(n) == signalled   \* a bug: a listener that stops is not noticed
OneStopped(n) == n > 0 \/ signalled

Interrupted ==
  /\ main = "running" /\ OneStopped(stopped)
  /\ main' = "draining"
  /\ UNCHANGED <<bound, socket, routine, started, stopped, awaited, signalled>>

\* shutdownAll closes what the apps serve and returns within the timeout
ShutdownAll ==
  /\ main = "draining"
  /\ socket' = [s \in Apps |-> IF routine[s] \in {"registered", "accepting", "returned"} THEN "closed" ELSE socket[s]]
  /\ main' = "returned"
  /\ UNCHANGED <<bound, routine, started, stopped, awaited, signalled>>

RunAll == Bind \/ BindFails \/ Spawn \/ Started \/ StartInterrupted \/ Interrupted \/ ShutdownAll

Serve(s) == Registers(s) \/ Accepts(s) \/ (socket[s] = "closed" /\ ServeReturns(s))

ListenNext == Signal \/ RunAll \/ \E s \in Apps : Registers(s) \/ Accepts(s) \/ ServeReturns(s)

-----------------------------------------------------------------------------
(* When RunAll has returned no socket is open, so that a goroutine that was
   late to serve cannot accept behind it, whichever of a bind error, a
   signal and a failing listener came first. *)
ReturnedIsClosed == main = "returned" => \A s \in Apps : socket[s] = "closed"

(* No listener outlives another: once one has stopped, or a signal has come,
   RunAll takes the others down and returns. *)
AllStopTogether ==
  (\E s \in Apps : routine[s] = "returned") \/ signalled ~> main = "returned"

\* As soon as one listener stops or a signal comes the process returns, and then
\* no socket is open (RunAll).
StopsTogether == []ReturnedIsClosed /\ AllStopTogether
=============================================================================
