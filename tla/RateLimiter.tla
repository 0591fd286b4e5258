---------------------------- MODULE RateLimiter ----------------------------
(***************************************************************************)
(* The Conduit gateway's limiter (conduit/ratelimit.go, http.go): a token  *)
(* bucket per client address, refilled on access, forgotten by a clean-up  *)
(* loop, in a map of bounded size.  full is a bucket per client that is    *)
(* refilled continuously and never forgotten, to compare with.             *)
(***************************************************************************)
EXTENDS Integers, FiniteSets

CONSTANTS
  Clients,
  Rps,          \* tokens per tick
  Burst,        \* size of a bucket
  MaxVisitors,  \* 100,000
  Retention,    \* ticks after which an untouched bucket is evicted (ten minutes)
  EvictEvery    \* ticks between two clean-ups (five minutes)

(* A bucket that may be evicted is full again: the configuration's burst is
   at most what ten minutes refill. *)
ASSUME RefilledBeforeEviction ==
  /\ Rps \in Nat /\ Burst \in Nat /\ Retention \in Nat
  /\ Burst <= Rps * Retention

VARIABLES
  visitors,  \* client -> [tokens, idle], for the clients in the map
  full,      \* client -> tokens of the reference bucket
  cleanup    \* ticks until the clean-up loop runs

limiterVars == <<visitors, full, cleanup>>

LimiterInit ==
  /\ visitors = <<>>
  /\ full = [c \in Clients |-> Burst]
  /\ cleanup = EvictEvery

Filled(tokens, ticks) ==
  LET refilled == tokens + Rps * ticks IN IF refilled > Burst THEN Burst ELSE refilled

EarlyCutoff(v) == v.idle >= Retention - 1   \* a bug: one tick too early
BeforeCutoff(v) == v.idle > Retention

Evicted(vs) == [c \in {c \in DOMAIN vs : ~BeforeCutoff(vs[c])} |-> vs[c]]

\* beyond the retention the idle ticks need no counting
Aged(v) == [tokens |-> v.tokens, idle |-> IF v.idle > Retention THEN v.idle ELSE v.idle + 1]

\* a tick of the clock, and with it the loop's timer
LimiterTick ==
  LET aged == [c \in DOMAIN visitors |-> Aged(visitors[c])]
  IN /\ visitors' = IF cleanup = 1 THEN Evicted(aged) ELSE aged
     /\ cleanup' = IF cleanup = 1 THEN EvictEvery ELSE cleanup - 1
     /\ full' = [c \in Clients |-> Filled(full[c], 1)]

\* a client that is not in the map gets a full bucket
Bucket(c) == IF c \in DOMAIN visitors THEN visitors[c] ELSE [tokens |-> Burst, idle |-> 0]

\* Allow, for a method that is not exempt; when the map is full, a client that
\* is not in it is refused and nothing changes
Allow(c) ==
  LET tokens == Filled(Bucket(c).tokens, Bucket(c).idle)
      pass == tokens >= 1
  IN /\ c \in DOMAIN visitors \/ Cardinality(DOMAIN visitors) < MaxVisitors
     /\ visitors' = [x \in DOMAIN visitors \cup {c} |->
                       IF x = c THEN [tokens |-> IF pass THEN tokens - 1 ELSE tokens, idle |-> 0]
                       ELSE visitors[x]]
     /\ full' = [full EXCEPT ![c] = IF pass THEN @ - 1 ELSE @]
     /\ UNCHANGED cleanup

LimiterNext == LimiterTick \/ \E c \in Clients : Allow(c)

LimiterSpec == LimiterInit /\ [][LimiterNext]_limiterVars

-----------------------------------------------------------------------------
(* However requests, refills on access, evictions and new buckets follow
   each other, a client gets what one bucket kept for ever would give it:
   never more than the burst and the rate allow, and no request is refused
   for its own rate while that bucket holds a token. *)
BucketsExact ==
  \A c \in Clients :
    full[c] = IF c \in DOMAIN visitors THEN Filled(visitors[c].tokens, visitors[c].idle) ELSE Burst
=============================================================================
