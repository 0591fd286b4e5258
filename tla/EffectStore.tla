----------------------------- MODULE EffectStore -----------------------------
(***************************************************************************)
(* Store.Effect and Store.Resolve of the integrations service: one row per *)
(* effect identity, claimed in a transaction, sent to an SMS gateway or an *)
(* issue tracker, and finished by a statement of its own.  An operator may *)
(* settle what stays in doubt.                                             *)
(***************************************************************************)
EXTENDS Clock, FiniteSets

CONSTANTS
  EffectIds,
  Digests,        \* contents an identity is requested with
  Callers,        \* concurrent POST /effect requests
  ResolveAfter    \* age at which a submission may be resolved (120 s)

EffectRows ==
  [digest : Digests, state : {"prepared", "retry", "submitting", "accepted", "rejected", "unknown"}, updated : Int]

ASSUME EffectAssumption == NULL \notin EffectRows

VARIABLES
  effects,    \* id -> row of gorge_integration_effect, or NULL
  calls,      \* caller -> its progress
  performed,  \* id -> times a provider performed the effect
  late,       \* id -> provider calls nobody waits for
  evidence,   \* id -> rows of gorge_integration_resolution
  told        \* id -> outcomes some caller was given

effectVars == <<now, effects, calls, performed, late, evidence, told>>

NoCall == [pc |-> "idle"]
Settled == {"accepted", "rejected"}

EffectInit ==
  /\ ClockInit
  /\ effects = [i \in EffectIds |-> NULL]
  /\ calls = [c \in Callers |-> NoCall]
  /\ performed = [i \in EffectIds |-> 0]
  /\ late = [i \in EffectIds |-> 0]
  /\ evidence = [i \in EffectIds |-> 0]
  /\ told = [i \in EffectIds |-> {}]

EffectTick == Advance /\ UNCHANGED <<effects, calls, performed, late, evidence, told>>

Tell(i, state) == told' = [told EXCEPT ![i] = @ \cup {state}]

\* States a claim may start from: a row in doubt is not one of them.
ClaimableAgain == {"prepared", "retry", "submitting"}
Claimable == {"prepared", "retry"}

\* Store.Effect up to its commit.
Claim(c, i, d) ==
  LET row == IF effects[i] = NULL THEN [digest |-> d, state |-> "prepared", updated |-> now]
             ELSE effects[i]
  IN
  /\ calls[c] = NoCall
  /\ \/ /\ row.digest # d                              \* ErrConflict
        /\ UNCHANGED <<effects, calls, told>>
     \/ /\ row.digest = d /\ row.state \in Settled     \* replays the result
        /\ Tell(i, row.state) /\ UNCHANGED <<effects, calls>>
     \/ /\ row.digest = d /\ row.state \in {"submitting", "unknown"} \ Claimable  \* ErrUnknown
        /\ Tell(i, "unknown") /\ UNCHANGED <<effects, calls>>
     \/ /\ row.digest = d /\ row.state \in Claimable
        /\ effects' = [effects EXCEPT ![i] = [row EXCEPT !.state = "submitting", !.updated = now]]
        /\ \/ calls' = [calls EXCEPT ![c] = [pc |-> "calling", id |-> i, done |-> FALSE]]
           \/ UNCHANGED calls                          \* the commit's answer is lost
        /\ UNCHANGED told
  /\ UNCHANGED <<now, performed, late, evidence>>

ProviderPerforms(c) ==
  /\ calls[c].pc = "calling" /\ ~calls[c].done
  /\ calls' = [calls EXCEPT ![c].done = TRUE]
  /\ performed' = [performed EXCEPT ![calls[c].id] = @ + 1]
  /\ UNCHANGED <<now, effects, late, evidence, told>>

LatePerforms(i) ==
  /\ late[i] > 0
  /\ late' = [late EXCEPT ![i] = @ - 1]
  /\ performed' = [performed EXCEPT ![i] = @ + 1]
  /\ UNCHANGED <<now, effects, calls, evidence, told>>

\* What send returns; "error" covers transport failures and unreadable bodies.
Replies(done) == IF done THEN {"2xx", "5xx", "error"} ELSE {"429", "4xx", "3xx", "5xx", "error"}

Rejects5xx(reply) ==
  CASE reply = "2xx" -> "accepted"
    [] reply = "429" -> "retry"
    [] reply \in {"4xx", "5xx"} -> "rejected"
    [] OTHER -> "unknown"

EffectState(reply) ==
  CASE reply = "2xx" -> "accepted"
    [] reply = "429" -> "retry"
    [] reply = "4xx" -> "rejected"
    [] OTHER -> "unknown"

Forsake(c) ==
  late' = IF calls[c].done THEN late ELSE [late EXCEPT ![calls[c].id] = @ + 1]

Answered(c) ==
  /\ calls[c].pc = "calling"
  /\ \E reply \in Replies(calls[c].done) :
       /\ calls' = [calls EXCEPT ![c] = [pc |-> "finish", id |-> calls[c].id,
                                         state |-> EffectState(reply)]]
       /\ IF reply \in {"3xx", "5xx", "error"} THEN Forsake(c) ELSE UNCHANGED late
  /\ UNCHANGED <<now, effects, performed, evidence, told>>

StillSubmitting(row) == row.state = "submitting"

\* The last statement of Effect.  The number of rows it changed is not read:
\* the caller is told its own outcome even when an operator was faster.
Finish(c) ==
  LET i == calls[c].id
      state == calls[c].state
  IN
  /\ calls[c].pc = "finish"
  /\ \/ /\ effects' = IF StillSubmitting(effects[i])
                      THEN [effects EXCEPT ![i].state = state, ![i].updated = now] ELSE effects
        /\ Tell(i, state)
     \/ UNCHANGED effects /\ Tell(i, "unknown")        \* the store failed
  /\ calls' = [calls EXCEPT ![c] = NoCall]
  /\ UNCHANGED <<now, performed, late, evidence>>

CallerCrash(c) ==
  /\ calls[c].pc # "idle"
  /\ calls' = [calls EXCEPT ![c] = NoCall]
  /\ IF calls[c].pc = "calling" THEN Forsake(c) ELSE UNCHANGED late
  /\ UNCHANGED <<now, effects, performed, evidence, told>>

Resolvable(row) ==
  row.state = "unknown" \/ (row.state = "submitting" /\ row.updated <= now - ResolveAfter)

\* An operator with evidence from the provider: what it performed stays
\* performed, what it refuted will not happen any more.
CallOpen(i) ==
  late[i] > 0 \/ \E c \in Callers : calls[c].pc = "calling" /\ calls[c].id = i /\ ~calls[c].done

Verified(i, state) ==
  IF state = "accepted" THEN performed[i] > 0 ELSE performed[i] = 0 /\ ~CallOpen(i)

Resolve(i, state) ==
  /\ effects[i] # NULL /\ Resolvable(effects[i]) /\ Verified(i, state)
  /\ effects' = [effects EXCEPT ![i].state = state, ![i].updated = now]
  /\ evidence' = [evidence EXCEPT ![i] = @ + 1]
  /\ UNCHANGED <<now, calls, performed, late, told>>

EffectNext ==
  \/ EffectTick
  \/ \E c \in Callers, i \in EffectIds, d \in Digests : Claim(c, i, d)
  \/ \E c \in Callers : ProviderPerforms(c) \/ Answered(c) \/ Finish(c) \/ CallerCrash(c)
  \/ \E i \in EffectIds : LatePerforms(i) \/ \E state \in Settled : Resolve(i, state)

EffectSpec == EffectInit /\ [][EffectNext]_effectVars

-----------------------------------------------------------------------------
EffectPhase(i) ==
  IF effects[i] = NULL THEN "ready"
  ELSE CASE effects[i].state \in Claimable -> "ready"
         [] effects[i].state = "submitting" -> "trying"
         [] effects[i].state = "rejected" -> "refused"
         [] OTHER -> effects[i].state

EffectsLedger == INSTANCE EffectLedger WITH
  Effects <- EffectIds, phase <- [i \in EffectIds |-> EffectPhase(i)]

\* Store.Effect and Resolve keep the promise of an effect ledger: a crash, a
\* lost commit, an ambiguous reply or an operator never lets an effect happen
\* twice, and a settled row is not contradicted by the provider.
EffectsImplementLedger == EffectsLedger!Init /\ [][EffectsLedger!Next]_<<effects, performed>>

\* Callers are not contradicted either: nobody is told "accepted" for an effect
\* that never happened or "rejected" for one that did, although Finish answers
\* with its own outcome when an operator settled the row first.
ToldTruth ==
  \A i \in EffectIds :
    /\ "accepted" \in told[i] => performed[i] = 1
    /\ "rejected" \in told[i] => performed[i] = 0

\* Every resolution leaves evidence, and at most one is ever recorded: a
\* settled row cannot be resolved again.
ResolvedOnce == \A i \in EffectIds : evidence[i] <= 1

\* What callers and operators were answered stays true: no outcome is told that
\* the provider contradicts, and no effect is resolved twice (Effect, Resolve).
AnswersHold == ToldTruth /\ ResolvedOnce
=============================================================================
