----------------------------- MODULE LeaseTokens -----------------------------
(***************************************************************************)
(* The lease a worker presents to Finalize, Renew and Resolve is a task,   *)
(* an owner and an expiry in whole seconds.  This module asks whether such *)
(* a lease is ever good again once its execution was resolved: the worker  *)
(* retries a Resolve whose answer was lost, and the retry must not end an  *)
(* execution that began since.  It runs the queue with the MySQL store's   *)
(* lease condition and remembers every lease that an accepted Resolve      *)
(* ended.                                                                  *)
(***************************************************************************)
EXTENDS TaskQueue

\* A class with no follow-ups: one task is enough for a lease to come back.
NoFollowups == [c \in Classes |-> 0]

VARIABLE ended       \* history: leases whose Resolve was accepted
tokenVars == <<vars, ended>>

\* The store's lease condition: a fresh task, or an expiry strictly past.
Overdue(r) == r.expires # NULL /\ r.expires < now
LeaseNow(o, S) ==
  /\ \A i \in S : Available(active[i], now) /\ (active[i].expires = NULL \/ Overdue(active[i]))
  /\ Lease(o, now, S)
  /\ UNCHANGED ended

ResolveAndEnd(l, outcome, w) == Resolve(l, outcome, w) /\ ended' = ended \cup {l}

TokenInit == Init /\ ended = {}
TokenNext ==
  \/ Tick /\ UNCHANGED ended
  \/ \E c \in Classes : Enqueue(c, NULL) /\ UNCHANGED ended
  \/ \E o \in Owners, S \in SUBSET DOMAIN active : LeaseNow(o, S)
  \/ \E S \in SUBSET DOMAIN active : Awaken(S) /\ UNCHANGED ended
  \/ \E i \in DOMAIN active :
        \/ Cancel(i) /\ UNCHANGED ended
        \/ \E permanent \in BOOLEAN, w \in Waits : Fail(i, permanent, w) /\ UNCHANGED ended
        \/ \E d \in Waits : Yield(i, d) /\ UNCHANGED ended
        \/ \E d \in RenewDurations : Renew(LeaseOf(active, i), d) /\ UNCHANGED ended
        \/ \E outcome \in {"failure", "retry", "yield"}, w \in Waits :
              ResolveAndEnd(LeaseOf(active, i), outcome, w)
        \/ Finalize(LeaseOf(active, i)) /\ UNCHANGED ended

TokenSpec == TokenInit /\ [][TokenNext]_tokenVars

-----------------------------------------------------------------------------
\* A Resolve that was accepted ends its lease for good: the same lease
\* presented again, by a retry whose first answer was lost, is a conflict.
DuplicateResolveRejected == \A l \in ended : ~Holds(l)
=============================================================================
