---------------------------- MODULE EffectLedger ----------------------------
(***************************************************************************)
(* What a durable ledger of external effects promises.  An effect is a     *)
(* call to a system that keeps no receipt of its own (a mail provider, a   *)
(* chat or SMS gateway).  The outside world performs it at most once, and  *)
(* the ledger's final word never contradicts what happened: "accepted"     *)
(* means performed, "refused" means not performed and never to be, and     *)
(* everything in doubt becomes "unknown", is never tried again, and leaves *)
(* that state only on evidence.                                            *)
(***************************************************************************)
EXTENDS Naturals

CONSTANT Effects

VARIABLES
  phase,      \* effect -> the ledger's word on it
  performed   \* effect -> times the outside world performed it

ledgerVars == <<phase, performed>>

Phases == {"ready", "trying", "accepted", "refused", "unknown"}

Init ==
  /\ phase = [e \in Effects |-> "ready"]
  /\ performed = [e \in Effects |-> 0]

Becomes(e, to) == phase'[e] = to /\ performed'[e] = performed[e]

Try(e) == phase[e] = "ready" /\ performed[e] = 0 /\ Becomes(e, "trying")

\* The effect happens, possibly after the ledger gave up waiting for it.
Perform(e) ==
  /\ phase[e] \in {"trying", "unknown"} /\ performed[e] = 0
  /\ phase'[e] = phase[e] /\ performed'[e] = 1

\* Only an attempt that is known not to have happened is given back.
Release(e) == phase[e] = "trying" /\ performed[e] = 0 /\ Becomes(e, "ready")

Accept(e) == phase[e] = "trying" /\ performed[e] = 1 /\ Becomes(e, "accepted")

Refuse(e) == phase[e] \in {"ready", "trying"} /\ performed[e] = 0 /\ Becomes(e, "refused")

\* Evidence from outside settles what is in doubt.
Clarify(e) ==
  \/ phase[e] = "unknown" /\ performed[e] = 1 /\ Becomes(e, "accepted")
  \/ phase[e] = "unknown" /\ performed[e] = 0 /\ Becomes(e, "refused")

GiveUp(e) == phase[e] = "trying" /\ Becomes(e, "unknown")

Step(e) ==
  \/ Try(e) \/ Perform(e) \/ Release(e)
  \/ Accept(e) \/ Refuse(e) \/ GiveUp(e) \/ Clarify(e)

\* One transaction may settle several effects at once.
Next ==
  /\ phase' \in [Effects -> Phases]
  /\ performed' \in [Effects -> Nat]
  /\ \A e \in Effects : Step(e) \/ Becomes(e, phase[e])

Spec == Init /\ [][Next]_ledgerVars
=============================================================================
