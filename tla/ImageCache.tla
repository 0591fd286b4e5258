----------------------------- MODULE ImageCache -----------------------------
(***************************************************************************)
(* The image service: its execution slots and the process-local cache of   *)
(* results with one computation per key (imagetransform/cache.go,          *)
(* service.go).  Decoding itself succeeds or fails.  An entry carries the  *)
(* ticks it has left, its age since the lookup that started its            *)
(* computation and the ticks since its last use; uses within one tick are  *)
(* in any order.                                                           *)
(***************************************************************************)
EXTENDS Integers, Sequences, FiniteSets, FiniteSetsExt

CONSTANTS
  ImageRequests,      \* bound: the requests of a behaviour
  ImageKeys,     \* input digest, recipe, animation policy and revisions
  ResultBytes,   \* ResultBytes[k]: bytes of the result for k, at most CacheBudget
  Slots,         \* GORGE_IMAGE_CONCURRENCY
  CacheBudget,   \* 64 MiB
  CacheEntries,  \* 32
  CacheTTL       \* five minutes, in ticks

VARIABLES
  cache,     \* [entries, bytes]: entries is a partial function on keys
  flights,   \* key -> the request that computes it
  image        \* every request: stage, key, the flight it waits on, outcome and the age of its result

imageVars == <<cache, flights, image>>

NotAsked == [stage |-> "idle"]

ImageInit ==
  /\ cache = [entries |-> <<>>, bytes |-> 0]
  /\ flights = <<>>
  /\ image = [r \in ImageRequests |-> NotAsked]

Without(f, keys) == [k \in DOMAIN f \ keys |-> f[k]]
With(f, k, v) == [x \in DOMAIN f \cup {k} |-> IF x = k THEN v ELSE f[x]]
SizeOf(keys) == MapThenSumSet(LAMBDA k : ResultBytes[k], keys)

-----------------------------------------------------------------------------
Decoding == {r \in ImageRequests : image[r].stage \in {"decoding", "probing"}}

DropExpired(c) ==
  LET expired == {k \in DOMAIN c.entries : c.entries[k].left = 0}
  IN [entries |-> Without(c.entries, expired),
      bytes |-> c.bytes - SizeOf(expired)]

Touched(e) == [e EXCEPT !.idle = 0]

InFlight(r) == \E k \in DOMAIN flights : flights[k] = r

NoFlight(k) == TRUE   \* a bug: a computation in progress is not looked up
NotInFlight(k) == k \notin DOMAIN flights

\* Transform up to the computation: one critical section, then the hit or the wait
Lookup(r, k) ==
  LET c == DropExpired(cache)
  IN /\ image[r] = NotAsked
     /\ \/ /\ k \in DOMAIN c.entries
           /\ cache' = [c EXCEPT !.entries[k] = Touched(@)]
           /\ image' = [image EXCEPT ![r] = [stage |-> "done", key |-> k, outcome |-> "hit", age |-> c.entries[k].age]]
           /\ UNCHANGED flights
        \/ /\ k \notin DOMAIN c.entries /\ ~NotInFlight(k)
           /\ cache' = c
           /\ image' = [image EXCEPT ![r] = [stage |-> "waiting", key |-> k, on |-> flights[k]]]
           /\ UNCHANGED flights
        \/ /\ k \notin DOMAIN c.entries /\ NotInFlight(k)
           /\ cache' = c
           /\ flights' = With(flights, k, r)
           /\ image' = [image EXCEPT ![r] = [stage |-> "starting", key |-> k, age |-> 0]]

\* withInput: a slot, or ErrBusy at once
TakesSlot(r) ==
  /\ image[r].stage = "starting"
  /\ image' = [image EXCEPT ![r] =
               IF Cardinality(Decoding) < Slots THEN [@ EXCEPT !.stage = "decoding"]
               ELSE [stage |-> "computed", key |-> @.key, age |-> @.age, outcome |-> "busy"]]
  /\ UNCHANGED <<cache, flights>>

\* the decoder ends: an answer, or a refusal, a timeout or the caller's end
Decoded(r) ==
  /\ image[r].stage = "decoding"
  /\ \E outcome \in {"ok", "failed"} :
       image' = [image EXCEPT ![r] = [stage |-> "computed", key |-> @.key, age |-> @.age, outcome |-> outcome]]
  /\ UNCHANGED <<cache, flights>>

\* the caches that evicting until the result fits can leave: least recently used first
Fitting(c, k) ==
  {keep \in SUBSET DOMAIN c.entries :
     LET gone == DOMAIN c.entries \ keep IN
     /\ \A x \in gone, y \in keep : c.entries[x].idle >= c.entries[y].idle
     /\ keep = {} \/ /\ SizeOf(keep) + ResultBytes[k] <= CacheBudget
                     /\ Cardinality(keep) < CacheEntries
     /\ gone = {} \/ \E x \in gone :
          /\ \A y \in gone : c.entries[x].idle <= c.entries[y].idle
          /\ \/ SizeOf(keep \cup {x}) + ResultBytes[k] > CacheBudget
             \/ Cardinality(keep) + 1 >= CacheEntries}

KeepsFlight(k, outcome) ==   \* a bug: a failure returns before the flight is closed
  IF outcome = "ok" THEN Without(flights, {k}) ELSE flights
FlightClosed(k, outcome) == Without(flights, {k})

\* Transform after the computation: evict, insert, close the flight
Store(r) ==
  LET k == image[r].key IN
  /\ image[r].stage = "computed"
  /\ IF image[r].outcome = "ok"
     THEN \E keep \in Fitting(cache, k) :
            LET gone == DOMAIN cache.entries \ keep
            IN cache' = [entries |-> With(Without(cache.entries, gone), k, 
                                       [left |-> CacheTTL - image[r].age, age |-> image[r].age, idle |-> image[r].age]),
                         bytes |-> cache.bytes - SizeOf(gone) + ResultBytes[k]]
     ELSE UNCHANGED cache
  /\ flights' = FlightClosed(k, image[r].outcome)
  /\ image' = [image EXCEPT ![r] = [@ EXCEPT !.stage = "done"]]

\* a waiter takes the owner's answer, or its own context ends first
Wakes(r) ==
  /\ image[r].stage = "waiting" /\ ~InFlight(image[r].on)
  /\ image' = [image EXCEPT ![r] = [stage |-> "done", key |-> @.key, age |-> image[@.on].age,
                                    outcome |-> image[@.on].outcome]]
  /\ UNCHANGED <<cache, flights>>

WaitCancelled(r) ==
  /\ image[r].stage = "waiting"
  /\ image' = [image EXCEPT ![r] = [stage |-> "done", key |-> @.key, age |-> 0, outcome |-> "cancelled"]]
  /\ UNCHANGED <<cache, flights>>

\* Probe: a slot like any other request
ProbeStarts(r) ==
  /\ image[r] = NotAsked
  /\ image' = [image EXCEPT ![r] = IF Cardinality(Decoding) < Slots THEN [stage |-> "probing"]
                               ELSE [stage |-> "done", outcome |-> "busy", age |-> 0]]
  /\ UNCHANGED <<cache, flights>>

ProbeEnds(r) ==
  /\ image[r].stage = "probing"
  /\ image' = [image EXCEPT ![r] = [stage |-> "done", outcome |-> "ok", age |-> 0]]
  /\ UNCHANGED <<cache, flights>>

\* a tick; the service timeout is shorter, so no computation lasts a lifetime
ImageTick ==
  /\ \A r \in ImageRequests : image[r].stage \in {"starting", "decoding", "computed"} => image[r].age + 1 < CacheTTL
  /\ \E k \in DOMAIN cache.entries : cache.entries[k].left > 0
  /\ cache' = [cache EXCEPT !.entries = [k \in DOMAIN @ |->
                 [left |-> Max({0, @[k].left - 1}),
                  age |-> Min({CacheTTL, @[k].age + 1}), idle |-> Min({CacheTTL, @[k].idle + 1})]]]
  /\ image' = [r \in ImageRequests |-> IF image[r].stage \in {"starting", "decoding", "computed"}
                                THEN [image[r] EXCEPT !.age = @ + 1] ELSE image[r]]
  /\ UNCHANGED flights

Serves(r) == TakesSlot(r) \/ Decoded(r) \/ Store(r) \/ Wakes(r) \/ ProbeEnds(r)

ImageNext ==
  \/ \E r \in ImageRequests : \/ \E k \in ImageKeys : Lookup(r, k)
                         \/ ProbeStarts(r) \/ Serves(r) \/ WaitCancelled(r)
  \/ ImageTick

-----------------------------------------------------------------------------
(* The byte counter is the size of what the cache holds, through expiry,
   eviction and insertion by requests that computed at the same time, and
   neither the byte budget nor the number of entries is exceeded. *)
CacheExact ==
  /\ cache.bytes = SizeOf(DOMAIN cache.entries)
  /\ cache.bytes <= CacheBudget /\ Cardinality(DOMAIN cache.entries) <= CacheEntries

(* A key is computed by one request at a time, the others wait for it, and
   no key is computed while its result is in the cache. *)
OneComputation ==
  \A r, s \in ImageRequests :
    image[r].stage \in {"starting", "decoding", "computed"} =>
      /\ image[r].key \notin DOMAIN cache.entries
      /\ r # s /\ image[s].stage \in {"starting", "decoding", "computed"} => image[r].key # image[s].key

(* A result served from the cache is younger than the cache's lifetime,
   counted from the request that computed it, however often it is hit. *)
ServedFresh == \A r \in ImageRequests : image[r].stage = "done" => image[r].age < CacheTTL

(* Every request is answered: whatever becomes of a computation, the
   requests that wait on it are let go. *)
EveryRequestAnswered == \A r \in ImageRequests : image[r].stage # "idle" ~> image[r].stage = "done"

ImageFairness == \A r \in ImageRequests : WF_imageVars(Serves(r))

\* The cache counts what it holds within its budgets, computes a result once
\* however many ask for it, and serves none past its lifetime (cache.go).
CacheTransparent == CacheExact /\ OneComputation /\ ServedFresh
=============================================================================
