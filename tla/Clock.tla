------------------------------- MODULE Clock -------------------------------
(***************************************************************************)
(* The Unix clock the services of one deployment read with time.Now.  A    *)
(* tick stands for the coarsest interval the properties tell apart.        *)
(***************************************************************************)
EXTENDS Integers

CONSTANTS
  MaxTime,   \* bound: the last instant
  NULL       \* no row, no owner, no position

VARIABLE now

ClockInit == now = 0

Advance == now < MaxTime /\ now' = now + 1

Later(d) == IF now + d < MaxTime THEN now + d ELSE MaxTime
=============================================================================
