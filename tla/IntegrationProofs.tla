------------------------- MODULE IntegrationProofs --------------------------
(***************************************************************************)
(* The integrations service: its effect store and its inbound mail, for    *)
(* any number of effects, messages and concurrent requests; and the fact   *)
(* projection, for any number of objects, projectors and pages.            *)
(***************************************************************************)
EXTENDS EffectStore, Inbox, FactProjection, TLAPS

-----------------------------------------------------------------------------
(***************************************************************************)
(* The effect store implements the ledger of external effects, and callers *)
(* are told the truth, whatever the clock's bound.  The inductive          *)
(* invariant says who still holds the single chance an effect has to       *)
(* happen: the row while it can be claimed, the one caller that claimed    *)
(* it, or a provider nobody waits for any more.                            *)
(***************************************************************************)
CallRecords ==
  {NoCall} \cup [pc : {"calling"}, id : EffectIds, done : BOOLEAN]
           \cup [pc : {"finish"}, id : EffectIds, state : {"accepted", "retry", "rejected", "unknown"}]

EffectTypeOK ==
  /\ now \in Int
  /\ effects \in [EffectIds -> EffectRows \cup {NULL}]
  /\ calls \in [Callers -> CallRecords]
  /\ performed \in [EffectIds -> {0, 1}]
  /\ late \in [EffectIds -> {0, 1}]
  /\ evidence \in [EffectIds -> {0, 1}]
  /\ told \in [EffectIds -> SUBSET {"accepted", "retry", "rejected", "unknown"}]

RowState(i) == IF effects[i] = NULL THEN "prepared" ELSE effects[i].state
Active(c, i) == calls[c].pc # "idle" /\ calls[c].id = i
Untouched(i) == performed[i] = 0 /\ late[i] = 0
Happened(i) == performed[i] = 1 /\ late[i] = 0

OneCaller == \A c, d \in Callers, i \in EffectIds : Active(c, i) /\ Active(d, i) => c = d

RowsAgree ==
  \A i \in EffectIds :
    /\ performed[i] = 1 => late[i] = 0
    /\ RowState(i) \in Claimable \cup {"rejected"} => Untouched(i)
    /\ RowState(i) = "accepted" => Happened(i)
    /\ evidence[i] = 1 => RowState(i) \in Settled

CallsAgree ==
  \A c \in Callers, i \in EffectIds : Active(c, i) =>
    /\ RowState(i) \in {"submitting", "accepted", "rejected"}
    /\ calls[c].pc = "calling" /\ ~calls[c].done => RowState(i) = "submitting" /\ Untouched(i)
    /\ calls[c].pc = "calling" /\ calls[c].done => Happened(i)
    /\ calls[c].pc = "finish" /\ calls[c].state = "accepted" => Happened(i)
    /\ calls[c].pc = "finish" /\ calls[c].state \in {"retry", "rejected"} => Untouched(i)

ToldSettled == \A i \in EffectIds, s \in Settled : s \in told[i] => RowState(i) = s

EInv == EffectTypeOK /\ OneCaller /\ RowsAgree /\ CallsAgree /\ ToldSettled

-----------------------------------------------------------------------------
\* An empty table with idle requests satisfies the invariant.
LEMMA EffectInitHolds == EffectInit => EInv
BY DEF EffectInit, ClockInit, EInv, EffectTypeOK, OneCaller, RowsAgree, CallsAgree, ToldSettled,
       RowState, Active, Untouched, Happened, CallRecords, NoCall, Claimable, Settled

\* The transaction that claims an effect, whatever it finds in the row.
LEMMA ClaimKeeps ==
  ASSUME EInv, NEW c \in Callers, NEW i \in EffectIds, NEW d \in Digests, Claim(c, i, d)
  PROVE  EInv'
<1> DEFINE row == IF effects[i] = NULL THEN [digest |-> d, state |-> "prepared", updated |-> now] ELSE effects[i]
<1>1. row \in EffectRows /\ row.state = RowState(i)
  BY ZenonT(60) DEF EInv, EffectTypeOK, EffectRows, RowState
<1>2. CASE UNCHANGED <<effects, calls>>
  <2>1. \/ UNCHANGED told
        \/ row.state \in Settled /\ Tell(i, row.state)
        \/ Tell(i, "unknown")
    BY ZenonT(60), <1>2, EffectAssumption DEF Claim, Claimable
  <2>2. \/ UNCHANGED told
        \/ \E s \in {"accepted", "rejected", "unknown"} :
             told' = [told EXCEPT ![i] = @ \cup {s}] /\ (s # "unknown" => RowState(i) = s)
    BY ZenonT(60), <1>1, <2>1 DEF Tell, Settled
  <2>3. EffectTypeOK'
    BY <1>2, <2>2 DEF Claim, EInv, EffectTypeOK
  <2>4. ToldSettled'
    BY <1>2, <2>2 DEF EInv, EffectTypeOK, ToldSettled, Settled, RowState
  <2> QED
    BY <1>2, <2>3, <2>4 DEF Claim, EInv, OneCaller, RowsAgree, CallsAgree, RowState, Active, Untouched, Happened
<1>3. CASE ~UNCHANGED <<effects, calls>>
  <2> DEFINE new == [row EXCEPT !.state = "submitting", !.updated = now]
  <2>1. /\ RowState(i) \in Claimable /\ calls[c] = NoCall
        /\ effects' = [effects EXCEPT ![i] = new]
        /\ calls' = [calls EXCEPT ![c] = [pc |-> "calling", id |-> i, done |-> FALSE]] \/ UNCHANGED calls
        /\ UNCHANGED <<now, performed, late, evidence, told>>
    BY ZenonT(60), <1>1, <1>3 DEF Claim
  <2>2. new \in EffectRows /\ new.state = "submitting"
    BY ZenonT(60), <1>1 DEF EInv, EffectTypeOK, EffectRows
  <2>3. EffectTypeOK'
    <3>1. [pc |-> "calling", id |-> i, done |-> FALSE] \in CallRecords
      BY ZenonT(60) DEF CallRecords
    <3>2. calls' \in [Callers -> CallRecords]
      BY ZenonT(60), <2>1, <3>1 DEF EInv, EffectTypeOK
    <3>3. effects' \in [EffectIds -> EffectRows \cup {NULL}]
      <4> HIDE DEF new
      <4> QED
        BY ZenonT(60), <2>1, <2>2 DEF EInv, EffectTypeOK
    <3> QED
      BY ZenonT(60), <2>1, <3>2, <3>3 DEF EInv, EffectTypeOK
  <2>4. RowState(i)' = "submitting" /\ \A j \in EffectIds \ {i} : RowState(j)' = RowState(j)
    BY ZenonT(60), <2>1, <2>2, EffectAssumption DEF EInv, EffectTypeOK, RowState
  <2>5. \A e \in Callers : ~Active(e, i)
    BY ZenonT(60), <2>1 DEF EInv, CallsAgree, Claimable
  <2>6. Untouched(i)
    BY ZenonT(60), <2>1 DEF EInv, RowsAgree
  <2>7. OneCaller'
    BY <2>1, <2>5 DEF EInv, OneCaller, Active, EffectTypeOK
  <2>8. RowsAgree'
    BY ZenonT(60), <2>1, <2>4, <2>6 DEF EInv, RowsAgree, Untouched, Happened, Claimable, Settled
  <2>9. CallsAgree'
    BY <2>1, <2>4, <2>5, <2>6 DEF EInv, CallsAgree, Active, Untouched, Happened, EffectTypeOK
  <2>10. ToldSettled'
    BY ZenonT(60), <2>1, <2>4 DEF EInv, ToldSettled, Claimable, Settled
  <2> QED
    BY ZenonT(60), <2>3, <2>7, <2>8, <2>9, <2>10 DEF EInv
<1> QED
  BY ZenonT(60), <1>2, <1>3

\* A provider that performs the call somebody waits for, or one given up.
LEMMA PerformKeeps ==
  ASSUME EInv,
         (\E c \in Callers : ProviderPerforms(c)) \/ (\E i \in EffectIds : LatePerforms(i))
  PROVE  EInv'
<1>1. ASSUME NEW c \in Callers, ProviderPerforms(c) PROVE EInv'
  <2> DEFINE i == calls[c].id
  <2>1. /\ calls[c] \in [pc : {"calling"}, id : EffectIds, done : BOOLEAN] /\ calls[c].done = FALSE
        /\ i \in EffectIds /\ Active(c, i)
    BY <1>1 DEF ProviderPerforms, EInv, EffectTypeOK, CallRecords, NoCall, Active
  <2>2. RowState(i) = "submitting" /\ Untouched(i)
    BY ZenonT(60), <2>1 DEF EInv, CallsAgree
  <2>3. /\ performed' = [performed EXCEPT ![i] = 1]
        /\ calls' = [calls EXCEPT ![c] = [calls[c] EXCEPT !.done = TRUE]]
        /\ UNCHANGED <<now, effects, late, evidence, told>>
    <3>1. performed[i] + 1 = 1
      BY <2>2 DEF Untouched
    <3> QED
      BY ZenonT(60), <1>1, <3>1 DEF ProviderPerforms, EInv, EffectTypeOK
  <2>4. \A e \in Callers \ {c} : ~Active(e, i)
    BY ZenonT(60), <2>1 DEF EInv, OneCaller
  <2>5. EffectTypeOK'
    BY ZenonT(60), <2>1, <2>3 DEF EInv, EffectTypeOK, CallRecords
  <2>6. \A j \in EffectIds : RowState(j)' = RowState(j)
    BY ZenonT(60), <2>3 DEF RowState
  <2>7. OneCaller'
    BY ZenonT(60), <2>1, <2>3 DEF EInv, OneCaller, Active, EffectTypeOK
  <2>8. RowsAgree'
    BY <2>2, <2>3, <2>6 DEF EInv, RowsAgree, Untouched, Happened, Claimable, Settled, EffectTypeOK
  <2>9. CallsAgree'
    BY <2>1, <2>2, <2>3, <2>4, <2>6 DEF EInv, CallsAgree, Active, Untouched, Happened, EffectTypeOK
  <2> QED
    BY ZenonT(60), <2>3, <2>5, <2>6, <2>7, <2>8, <2>9 DEF EInv, ToldSettled
<1>2. ASSUME NEW i \in EffectIds, LatePerforms(i) PROVE EInv'
  <2>1. late[i] = 1 /\ performed[i] = 0 /\ RowState(i) \notin Claimable \cup Settled
    BY <1>2 DEF LatePerforms, EInv, EffectTypeOK, RowsAgree, Untouched, Happened, Settled
  <2>2. /\ performed' = [performed EXCEPT ![i] = 1] /\ late' = [late EXCEPT ![i] = 0]
        /\ UNCHANGED <<now, effects, calls, evidence, told>>
    BY <1>2, <2>1 DEF LatePerforms
  <2>3. \A j \in EffectIds : RowState(j)' = RowState(j)
    BY ZenonT(60), <2>2 DEF RowState
  <2>4. EffectTypeOK'
    BY ZenonT(60), <2>2 DEF EInv, EffectTypeOK
  <2>5. RowsAgree'
    BY <2>1, <2>2, <2>3 DEF EInv, RowsAgree, Untouched, Happened, Settled, EffectTypeOK
  <2>6. CallsAgree'
    BY <2>1, <2>2, <2>3 DEF EInv, CallsAgree, Active, Untouched, Happened, EffectTypeOK
  <2> QED
    BY ZenonT(60), <2>2, <2>3, <2>4, <2>5, <2>6 DEF EInv, OneCaller, Active, ToldSettled
<1> QED
  BY ZenonT(60), <1>1, <1>2

\* What becomes of a call: its answer is noted, or it is given up and left to
\* the provider.
LEMMA AnswerKeeps ==
  ASSUME EInv, NEW c \in Callers, Answered(c) \/ CallerCrash(c)
  PROVE  EInv'
<1> DEFINE i == calls[c].id
<1>1. calls[c] \in CallRecords /\ calls[c].pc # "idle" /\ i \in EffectIds /\ Active(c, i)
  BY DEF Answered, CallerCrash, EInv, EffectTypeOK, CallRecords, NoCall, Active
<1>2. \A e \in Callers \ {c} : ~Active(e, i)
  BY ZenonT(60), <1>1 DEF EInv, OneCaller
<1>3. calls[c].pc = "calling" => calls[c].done \in BOOLEAN
  BY <1>1 DEF CallRecords, NoCall
<1>4. ASSUME calls[c].pc = "calling", Forsake(c)
      PROVE  /\ late' \in [EffectIds -> {0, 1}]
             /\ performed[i] = 1 => late'[i] = 0
             /\ RowState(i) # "submitting" => late'[i] = late[i]
             /\ \A j \in EffectIds \ {i} : late'[j] = late[j]
  <2>1. ~calls[c].done => RowState(i) = "submitting" /\ Untouched(i)
    BY ZenonT(60), <1>1, <1>4 DEF EInv, CallsAgree
  <2>2. calls[c].done => Happened(i)
    BY ZenonT(60), <1>1, <1>4 DEF EInv, CallsAgree
  <2> QED
    BY <1>1, <1>3, <1>4, <2>1, <2>2 DEF Forsake, EInv, EffectTypeOK, Untouched, Happened
<1>5. /\ UNCHANGED <<now, effects, performed, evidence, told>>
      /\ \A j \in EffectIds : RowState(j)' = RowState(j)
  BY ZenonT(60) DEF Answered, CallerCrash, RowState
<1>6. ASSUME /\ late' \in [EffectIds -> {0, 1}]
             /\ performed[i] = 1 => late'[i] = 0
             /\ RowState(i) # "submitting" => late'[i] = late[i]
             /\ \A j \in EffectIds \ {i} : late'[j] = late[j]
      PROVE  RowsAgree'
  BY <1>1, <1>5, <1>6 DEF EInv, RowsAgree, Untouched, Happened, Claimable, Settled, EffectTypeOK
<1>7. CASE CallerCrash(c)
  <2>1. calls' = [calls EXCEPT ![c] = NoCall] /\ (UNCHANGED late \/ (calls[c].pc = "calling" /\ Forsake(c)))
    BY ZenonT(60), <1>7 DEF CallerCrash
  <2>2. EffectTypeOK'
    BY ZenonT(60), <1>4, <1>5, <2>1 DEF EInv, EffectTypeOK, CallRecords
  <2>3. OneCaller'
    BY ZenonT(60), <2>1 DEF EInv, OneCaller, Active, EffectTypeOK, NoCall
  <2>4. RowsAgree'
    BY ZenonT(60), <1>4, <1>6, <2>1, <1>1 DEF EInv, EffectTypeOK, RowsAgree
  <2>5. CallsAgree'
    BY <1>1, <1>2, <1>4, <1>5, <2>1 DEF EInv, CallsAgree, Active, Untouched, Happened, EffectTypeOK, NoCall
  <2> QED
    BY ZenonT(60), <1>5, <2>2, <2>3, <2>4, <2>5 DEF EInv, ToldSettled
<1>8. CASE Answered(c)
  <2>1. PICK reply \in Replies(calls[c].done) :
          /\ calls' = [calls EXCEPT ![c] = [pc |-> "finish", id |-> i, state |-> EffectState(reply)]]
          /\ IF reply \in {"3xx", "5xx", "error"} THEN Forsake(c) ELSE UNCHANGED late
    BY ZenonT(60), <1>8 DEF Answered
  <2>2. calls[c].pc = "calling"
    BY ZenonT(60), <1>8 DEF Answered
  <2>3. /\ EffectState(reply) \in {"accepted", "retry", "rejected", "unknown"}
        /\ EffectState(reply) = "accepted" => calls[c].done /\ UNCHANGED late
        /\ EffectState(reply) \in {"retry", "rejected"} => ~calls[c].done /\ UNCHANGED late
    BY ZenonT(60), <1>3, <2>1, <2>2 DEF Replies, EffectState
  <2>4. EffectTypeOK'
    BY ZenonT(60), <1>1, <1>4, <1>5, <2>1, <2>2, <2>3 DEF EInv, EffectTypeOK, CallRecords
  <2>5. OneCaller'
    BY ZenonT(60), <1>1, <1>2, <2>1 DEF EInv, OneCaller, Active, EffectTypeOK
  <2>6. RowsAgree'
    BY ZenonT(60), <1>4, <1>6, <2>1, <2>2, <1>1 DEF EInv, EffectTypeOK, RowsAgree
  <2>7. CallsAgree'
    <3>1. /\ calls[c].done => Happened(i)
          /\ ~calls[c].done => Untouched(i)
          /\ RowState(i) \in {"submitting", "accepted", "rejected"}
      BY ZenonT(60), <1>1, <2>2 DEF EInv, CallsAgree
    <3> QED
      BY <1>1, <1>2, <1>4, <1>5, <2>1, <2>2, <2>3, <3>1
      DEF EInv, CallsAgree, Active, Untouched, Happened, EffectTypeOK
  <2> QED
    BY ZenonT(60), <1>5, <2>4, <2>5, <2>6, <2>7 DEF EInv, ToldSettled
<1> QED
  BY ZenonT(60), <1>7, <1>8

\* The final statement of a request, effective or not.
LEMMA FinishKeeps ==
  ASSUME EInv, NEW c \in Callers, Finish(c)
  PROVE  EInv'
<1>0. PICK i \in EffectIds, s \in {"accepted", "retry", "rejected", "unknown"} :
        calls[c].pc = "finish" /\ calls[c].id = i /\ calls[c].state = s
  BY DEF Finish, EInv, EffectTypeOK, CallRecords, NoCall
<1>1. Active(c, i)
  BY ZenonT(60), <1>0 DEF Active
<1>2. \A e \in Callers \ {c} : ~Active(e, i)
  BY ZenonT(60), <1>1 DEF EInv, OneCaller
<1>3. /\ RowState(i) \in {"submitting", "accepted", "rejected"}
      /\ s = "accepted" => Happened(i)
      /\ s \in {"retry", "rejected"} => Untouched(i)
  BY ZenonT(60), <1>0, <1>1 DEF EInv, CallsAgree
<1>4. effects[i] \in EffectRows /\ effects[i].state = RowState(i) /\ effects[i] # NULL
  BY ZenonT(60), <1>1, <1>3, EffectAssumption DEF EInv, EffectTypeOK, RowState
<1>5. calls' = [calls EXCEPT ![c] = NoCall] /\ UNCHANGED <<now, performed, late, evidence>>
  BY ZenonT(60) DEF Finish
<1>6. calls' \in [Callers -> CallRecords] /\ OneCaller'
  BY ZenonT(60), <1>5 DEF EInv, EffectTypeOK, OneCaller, Active, CallRecords, NoCall
<1>7. /\ effects' \in [EffectIds -> EffectRows \cup {NULL}]
      /\ \A j \in EffectIds \ {i} : RowState(j)' = RowState(j)
      /\ \/ RowState(i)' = RowState(i) /\ Tell(i, "unknown")
         \/ RowState(i)' = RowState(i) /\ RowState(i) # "submitting" /\ Tell(i, s)
         \/ RowState(i)' = s /\ RowState(i) = "submitting" /\ Tell(i, s)
  <2>1. CASE UNCHANGED effects /\ Tell(i, "unknown")
    BY ZenonT(60), <2>1 DEF EInv, EffectTypeOK, RowState
  <2>2. CASE ~StillSubmitting(effects[i]) /\ UNCHANGED effects /\ Tell(i, s)
    BY ZenonT(60), <1>4, <2>2 DEF EInv, EffectTypeOK, RowState, StillSubmitting
  <2>3. CASE /\ StillSubmitting(effects[i]) /\ Tell(i, s)
             /\ effects' = [effects EXCEPT ![i].state = s, ![i].updated = now]
    <3> DEFINE new == [effects[i] EXCEPT !.state = s, !.updated = now]
    <3>1. new \in EffectRows /\ new.state = s
      BY ZenonT(60), <1>1, <1>4 DEF EInv, EffectTypeOK, EffectRows
    <3>2. effects' = [effects EXCEPT ![i] = new]
      BY ZenonT(60), <2>3 DEF EInv, EffectTypeOK
    <3> HIDE DEF new
    <3>3. effects' \in [EffectIds -> EffectRows \cup {NULL}]
          /\ effects'[i] = new /\ \A j \in EffectIds \ {i} : effects'[j] = effects[j]
      BY ZenonT(60), <1>1, <3>1, <3>2 DEF EInv, EffectTypeOK
    <3>4. RowState(i)' = s /\ RowState(i) = "submitting"
      BY ZenonT(60), <1>4, <2>3, <3>1, <3>3, EffectAssumption DEF RowState, StillSubmitting
    <3> QED BY ZenonT(60), <2>3, <3>3, <3>4 DEF RowState
  <2> QED
    BY ZenonT(60), <1>0, <2>1, <2>2, <2>3 DEF Finish
<1>8. EffectTypeOK'
  BY <1>1, <1>5, <1>6, <1>7 DEF EInv, EffectTypeOK, Tell
<1>9. RowsAgree'
  BY ZenonT(60), <1>1, <1>3, <1>5, <1>7 DEF EInv, RowsAgree, Untouched, Happened, Claimable, Settled
<1>10. CallsAgree'
  BY <1>1, <1>2, <1>5, <1>7 DEF EInv, EffectTypeOK, CallsAgree, Active, Untouched, Happened, NoCall
<1>11. ToldSettled'
  <2>1. RowState(i)' = RowState(i) \/ RowState(i) \notin Settled
    BY ZenonT(60), <1>7 DEF Settled
  <2>2. ASSUME Tell(i, s), s \in Settled => RowState(i)' = s PROVE ToldSettled'
    BY <1>7, <2>1, <2>2 DEF EInv, EffectTypeOK, ToldSettled, Tell, Settled
  <2>3. ASSUME RowState(i) # "submitting" PROVE s \in Settled => RowState(i) = s
    BY <1>3, <2>3 DEF EInv, RowsAgree, Untouched, Happened, Settled, Claimable
  <2>4. CASE Tell(i, "unknown") /\ RowState(i)' = RowState(i)
    BY <1>7, <2>4 DEF EInv, EffectTypeOK, ToldSettled, Tell, Settled
  <2> QED
    BY ZenonT(60), <1>7, <2>2, <2>3, <2>4
<1> QED
  BY ZenonT(60), <1>6, <1>8, <1>9, <1>10, <1>11 DEF EInv

\* An operator's verdict on evidence.
LEMMA ResolveKeeps ==
  ASSUME EInv, NEW i \in EffectIds, NEW s \in Settled, Resolve(i, s)
  PROVE  EInv'
<1>1. /\ effects[i] \in EffectRows /\ effects[i] # NULL /\ effects[i].state = RowState(i)
      /\ RowState(i) \in {"unknown", "submitting"}
  BY ZenonT(60) DEF Resolve, Resolvable, EInv, EffectTypeOK, RowState
<1>2. UNCHANGED <<now, calls, performed, late, told>> /\ evidence' = [evidence EXCEPT ![i] = 1]
  <2>1. evidence[i] = 0
    BY ZenonT(60), <1>1 DEF EInv, EffectTypeOK, RowsAgree, Settled
  <2> QED
    BY <2>1 DEF Resolve
<1>3. /\ effects' \in [EffectIds -> EffectRows \cup {NULL}]
      /\ RowState(i)' = s /\ \A j \in EffectIds \ {i} : RowState(j)' = RowState(j)
  <2> DEFINE new == [effects[i] EXCEPT !.state = s, !.updated = now]
  <2>1. new \in EffectRows /\ new.state = s
    BY ZenonT(60), <1>1 DEF EInv, EffectTypeOK, EffectRows, Settled
  <2>2. effects' = [effects EXCEPT ![i] = new]
    BY ZenonT(60) DEF Resolve, EInv, EffectTypeOK
  <2> HIDE DEF new
  <2> QED
    BY ZenonT(60), <2>1, <2>2, EffectAssumption DEF EInv, EffectTypeOK, RowState
<1>4. s = "accepted" => Happened(i)
  BY DEF Resolve, Verified, EInv, EffectTypeOK, RowsAgree, Happened
<1>5. s = "rejected" => Untouched(i) /\ ~CallOpen(i)
  BY DEF Resolve, Verified, CallOpen, EInv, EffectTypeOK, Untouched
<1>6. EffectTypeOK'
  BY ZenonT(60), <1>2, <1>3 DEF EInv, EffectTypeOK
<1>7. RowsAgree'
  BY ZenonT(60), <1>2, <1>3, <1>4, <1>5 DEF EInv, EffectTypeOK, RowsAgree, Untouched, Happened, Claimable, Settled
<1>8. CallsAgree'
  <2>1. \A c \in Callers : Active(c, i) => ~(calls[c].pc = "calling" /\ ~calls[c].done)
    BY <1>4, <1>5 DEF EInv, CallsAgree, CallOpen, Active, Untouched, Happened, Settled
  <2> QED
    BY <1>2, <1>3, <2>1 DEF EInv, CallsAgree, Active, Untouched, Happened, Settled
<1>9. ToldSettled'
  BY ZenonT(60), <1>1, <1>2, <1>3 DEF EInv, ToldSettled, Settled
<1> QED
  BY ZenonT(60), <1>2, <1>6, <1>7, <1>8, <1>9 DEF EInv, OneCaller, Active

\* Every step of the store, a crash of a request included, keeps the invariant.
LEMMA EffectNextKeeps == EInv /\ [EffectNext]_effectVars => EInv'
<1> SUFFICES ASSUME EInv, [EffectNext]_effectVars PROVE EInv'
  BY ZenonT(60)
<1>1. ASSUME UNCHANGED <<effects, calls, performed, late, evidence, told>>, now' \in Int PROVE EInv'
  BY <1>1 DEF EInv, EffectTypeOK, OneCaller, RowsAgree, CallsAgree, ToldSettled, RowState, Active, Untouched, Happened
<1>2. CASE EffectTick \/ UNCHANGED effectVars
  BY <1>1, <1>2 DEF EffectTick, Advance, effectVars, EInv, EffectTypeOK
<1>3. CASE EffectNext /\ ~EffectTick
  BY ZenonT(60), <1>3, ClaimKeeps, PerformKeeps, AnswerKeeps, FinishKeeps, ResolveKeeps DEF EffectNext
<1> QED
  BY ZenonT(60), <1>2, <1>3

\* The invariant holds in every reachable state of the store.
LEMMA EffectInductive == EffectSpec => []EInv
BY EffectInitHolds, EffectNextKeeps, PTL DEF EffectSpec

-----------------------------------------------------------------------------
(* At every request the store's callers hear only what the provider did: no
   "accepted" for an effect that never happened, no "rejected" for one that
   did (the replies of Store.Effect). *)
THEOREM ToldTheTruth == EffectSpec => []ToldTruth
<1>1. EInv => ToldTruth
  BY ZenonT(60) DEF EInv, ToldSettled, RowsAgree, Untouched, Happened, Settled, ToldTruth
<1> QED
  BY <1>1, EffectInductive, PTL

(* An effect is resolved by an operator at most once (Store.Resolve). *)
THEOREM ResolutionOnce == EffectSpec => []ResolvedOnce
<1>1. EInv => ResolvedOnce
  BY DEF EInv, EffectTypeOK, ResolvedOnce
<1> QED
  BY <1>1, EffectInductive, PTL

(* What Store.Effect told its callers and what Store.Resolve recorded stays
   true, for any number of effects, contents and concurrent requests. *)
THEOREM AnswersAlwaysHold == EffectSpec => []AnswersHold
<1>1. ToldTruth /\ ResolvedOnce => AnswersHold
  BY ZenonT(60) DEF AnswersHold
<1> QED
  BY <1>1, ToldTheTruth, ResolutionOnce, PTL

-----------------------------------------------------------------------------
(***************************************************************************)
(* The refinement.  A step moves the row of an effect, or its count of     *)
(* performances, along one of these edges.                                 *)
(***************************************************************************)
Stays(j) == RowState(j)' = RowState(j) /\ performed'[j] = performed[j]
Claims(j) == RowState(j) \in Claimable /\ RowState(j)' = "submitting" /\ performed'[j] = performed[j]
Happens(j) == /\ RowState(j) \in {"submitting", "unknown"} /\ RowState(j)' = RowState(j)
              /\ performed[j] = 0 /\ performed'[j] = 1
Settles(j) == /\ RowState(j) = "submitting" /\ RowState(j)' \in {"accepted", "retry", "rejected", "unknown"}
              /\ performed'[j] = performed[j]
Clarifies(j) == /\ RowState(j) = "unknown" /\ RowState(j)' \in Settled /\ performed'[j] = performed[j]
Moves(j) == Stays(j) \/ Claims(j) \/ Happens(j) \/ Settles(j) \/ Clarifies(j)

\* A claim leaves every effect alone or sets a ready one to submitting.
LEMMA ClaimMoves ==
  ASSUME EInv, NEW c \in Callers, NEW i \in EffectIds, NEW d \in Digests, Claim(c, i, d)
  PROVE  \A j \in EffectIds : Moves(j)
<1> DEFINE row == IF effects[i] = NULL THEN [digest |-> d, state |-> "prepared", updated |-> now] ELSE effects[i]
           new == [row EXCEPT !.state = "submitting", !.updated = now]
<1>1. row \in EffectRows /\ row.state = RowState(i)
  BY ZenonT(60) DEF EInv, EffectTypeOK, EffectRows, RowState
<1>2. new \in EffectRows /\ new.state = "submitting"
  BY ZenonT(60), <1>1 DEF EInv, EffectTypeOK, EffectRows
<1>3. CASE UNCHANGED effects
  BY ZenonT(60), <1>3 DEF Claim, Moves, Stays, RowState
<1>4. CASE row.state \in Claimable /\ effects' = [effects EXCEPT ![i] = new]
  <2>1. UNCHANGED performed
    BY ZenonT(60) DEF Claim
  <2>2. RowState(i)' = "submitting" /\ \A j \in EffectIds \ {i} : RowState(j)' = RowState(j)
    BY ZenonT(60), <1>2, <1>4, EffectAssumption DEF EInv, EffectTypeOK, RowState
  <2> QED
    BY ZenonT(60), <1>1, <1>4, <2>1, <2>2 DEF Moves, Stays, Claims
<1> QED
  BY ZenonT(60), <1>3, <1>4 DEF Claim

\* A provider performs an effect once, and only one that was submitted.
LEMMA PerformMoves ==
  ASSUME EInv,
         (\E c \in Callers : ProviderPerforms(c)) \/ (\E i \in EffectIds : LatePerforms(i))
  PROVE  \A j \in EffectIds : Moves(j)
<1>1. \A j \in EffectIds : RowState(j)' = RowState(j)
  BY ZenonT(60) DEF ProviderPerforms, LatePerforms, RowState
<1>2. PICK i \in EffectIds : performed' = [performed EXCEPT ![i] = @ + 1] /\ performed[i] = 0
                             /\ RowState(i) \in {"submitting", "unknown"}
  <2>1. ASSUME NEW c \in Callers, ProviderPerforms(c)
        PROVE  calls[c].id \in EffectIds /\ Active(c, calls[c].id)
    BY <2>1 DEF ProviderPerforms, EInv, EffectTypeOK, CallRecords, NoCall, Active
  <2>2. ASSUME NEW i \in EffectIds, LatePerforms(i)
        PROVE  performed[i] = 0 /\ RowState(i) \in {"submitting", "unknown"}
    <3>1. late[i] = 1 /\ performed[i] = 0 /\ RowState(i) \notin Claimable \cup Settled
      BY <2>2 DEF LatePerforms, EInv, EffectTypeOK, RowsAgree, Untouched, Happened, Settled
    <3>2. RowState(i) \in {"prepared", "retry", "submitting", "accepted", "rejected", "unknown"}
      BY ZenonT(60) DEF EInv, EffectTypeOK, EffectRows, RowState
    <3> QED
      BY ZenonT(60), <3>1, <3>2 DEF Claimable, Settled
  <2> QED
    BY ZenonT(60), <2>1, <2>2 DEF ProviderPerforms, LatePerforms, EInv, CallsAgree, Untouched
<1> QED
  BY <1>1, <1>2 DEF Moves, Stays, Happens, EInv, EffectTypeOK

\* The final statement settles, releases or leaves in doubt what was submitting.
LEMMA FinishMoves ==
  ASSUME EInv, NEW c \in Callers, Finish(c)
  PROVE  \A j \in EffectIds : Moves(j)
<1>1. PICK i \in EffectIds, s \in {"accepted", "retry", "rejected", "unknown"} :
        calls[c].pc = "finish" /\ calls[c].id = i /\ calls[c].state = s
  BY DEF Finish, EInv, EffectTypeOK, CallRecords, NoCall
<1>2. RowState(i) \in {"submitting", "accepted", "rejected"}
  BY ZenonT(60), <1>1 DEF EInv, CallsAgree, Active
<1>3. effects[i] \in EffectRows /\ effects[i].state = RowState(i)
  BY ZenonT(60), <1>2 DEF EInv, EffectTypeOK, RowState
<1>4. UNCHANGED performed
  BY ZenonT(60) DEF Finish
<1>5. CASE UNCHANGED effects
  BY ZenonT(60), <1>4, <1>5 DEF Moves, Stays, RowState
<1>6. CASE StillSubmitting(effects[i]) /\ effects' = [effects EXCEPT ![i].state = s, ![i].updated = now]
  <2> DEFINE new == [effects[i] EXCEPT !.state = s, !.updated = now]
  <2>1. new \in EffectRows /\ new.state = s
    BY ZenonT(60), <1>3 DEF EInv, EffectTypeOK, EffectRows
  <2>2. effects' = [effects EXCEPT ![i] = new]
    BY ZenonT(60), <1>6 DEF EInv, EffectTypeOK
  <2> HIDE DEF new
  <2>3. RowState(i)' = s /\ \A j \in EffectIds \ {i} : RowState(j)' = RowState(j)
    BY ZenonT(60), <2>1, <2>2, EffectAssumption DEF EInv, EffectTypeOK, RowState
  <2> QED
    BY ZenonT(60), <1>3, <1>4, <1>6, <2>3 DEF Moves, Stays, Settles, StillSubmitting
<1> QED
  BY ZenonT(60), <1>1, <1>5, <1>6 DEF Finish

\* A resolution settles what was submitting or in doubt, as it happened.
LEMMA ResolveMoves ==
  ASSUME EInv, NEW i \in EffectIds, NEW s \in Settled, Resolve(i, s)
  PROVE  \A j \in EffectIds : Moves(j)
<1> DEFINE new == [effects[i] EXCEPT !.state = s, !.updated = now]
<1>1. /\ effects[i] \in EffectRows /\ effects[i].state = RowState(i)
      /\ RowState(i) \in {"unknown", "submitting"}
  BY ZenonT(60) DEF Resolve, Resolvable, EInv, EffectTypeOK, RowState
<1>2. new \in EffectRows /\ new.state = s
  BY ZenonT(60), <1>1 DEF EInv, EffectTypeOK, EffectRows, Settled
<1>3. effects' = [effects EXCEPT ![i] = new] /\ UNCHANGED performed
  BY ZenonT(60) DEF Resolve, EInv, EffectTypeOK
<1> HIDE DEF new
<1>4. RowState(i)' = s /\ \A j \in EffectIds \ {i} : RowState(j)' = RowState(j)
  BY ZenonT(60), <1>2, <1>3, EffectAssumption DEF EInv, EffectTypeOK, RowState
<1> QED
  BY ZenonT(60), <1>1, <1>3, <1>4 DEF Moves, Stays, Settles, Clarifies, Settled

\* Every step of the store moves every effect along an edge.
LEMMA EffectMoves ==
  ASSUME EInv, EffectNext
  PROVE  \A j \in EffectIds : Moves(j)
<1>1. ASSUME UNCHANGED <<effects, performed>> PROVE \A j \in EffectIds : Moves(j)
  BY ZenonT(60), <1>1 DEF Moves, Stays, RowState
<1>2. ASSUME NEW c \in Callers, Answered(c) \/ CallerCrash(c) PROVE \A j \in EffectIds : Moves(j)
  BY ZenonT(60), <1>1, <1>2 DEF Answered, CallerCrash
<1>3. CASE EffectTick
  BY ZenonT(60), <1>1, <1>3 DEF EffectTick
<1> QED
  BY ZenonT(60), <1>2, <1>3, ClaimMoves, PerformMoves, FinishMoves, ResolveMoves DEF EffectNext

\* The ledger's word on an effect is a renaming of its row's state.
LEMMA PhaseOfState ==
  ASSUME EffectTypeOK, NEW i \in EffectIds
  PROVE  /\ RowState(i) \in Claimable => EffectPhase(i) = "ready"
         /\ RowState(i) = "submitting" => EffectPhase(i) = "trying"
         /\ RowState(i) = "rejected" => EffectPhase(i) = "refused"
         /\ RowState(i) \in {"accepted", "unknown"} => EffectPhase(i) = RowState(i)
         /\ RowState(i) \in {"prepared", "retry", "submitting", "accepted", "rejected", "unknown"}
BY ZenonT(60) DEF EffectTypeOK, EffectRows, RowState, EffectPhase, Claimable

\* A move of the store is a step of the ledger.
LEMMA MoveIsStep ==
  ASSUME EInv, EInv', NEW j \in EffectIds, Moves(j)
  PROVE  EffectsLedger!Step(j) \/ EffectsLedger!Becomes(j, EffectPhase(j))
<1> DEFINE p == EffectPhase(j)
           q == EffectPhase(j)'
<1>1. /\ RowState(j) \in Claimable => p = "ready"
      /\ RowState(j) = "submitting" => p = "trying"
      /\ RowState(j) = "rejected" => p = "refused"
      /\ RowState(j) \in {"accepted", "unknown"} => p = RowState(j)
      /\ RowState(j) \in {"prepared", "retry", "submitting", "accepted", "rejected", "unknown"}
  BY ZenonT(60), PhaseOfState DEF EInv
<1>2. /\ RowState(j)' \in Claimable => q = "ready"
      /\ RowState(j)' = "submitting" => q = "trying"
      /\ RowState(j)' = "rejected" => q = "refused"
      /\ RowState(j)' \in {"accepted", "unknown"} => q = RowState(j)'
      /\ RowState(j)' \in {"prepared", "retry", "submitting", "accepted", "rejected", "unknown"}
  <2>1. EffectTypeOK'
    BY ZenonT(60) DEF EInv
  <2> QED
    BY ZenonT(60), <2>1 DEF EffectTypeOK, EffectRows, RowState, EffectPhase, Claimable
<1>3. /\ RowState(j) \in Claimable \cup {"rejected"} => performed[j] = 0
      /\ RowState(j)' \in Claimable \cup {"rejected"} => performed'[j] = 0
      /\ RowState(j)' = "accepted" => performed'[j] = 1
  BY ZenonT(60) DEF EInv, RowsAgree, Untouched, Happened
<1> HIDE DEF p, q
<1>4. CASE Stays(j)
  BY ZenonT(60), <1>1, <1>2, <1>4 DEF Stays, Claimable, EffectsLedger!Becomes, p, q
<1>5. CASE Claims(j)
  BY ZenonT(60), <1>1, <1>2, <1>3, <1>5 DEF Claims, EffectsLedger!Becomes, EffectsLedger!Step, EffectsLedger!Try, p, q
<1>6. CASE Happens(j)
  BY ZenonT(60), <1>1, <1>2, <1>6 DEF Happens, EffectsLedger!Becomes, EffectsLedger!Step, EffectsLedger!Perform, p, q
<1>7. CASE Settles(j)
  BY ZenonT(60), <1>1, <1>2, <1>3, <1>7
  DEF Settles, Claimable, EffectsLedger!Becomes, EffectsLedger!Step, EffectsLedger!Release, EffectsLedger!Accept,
      EffectsLedger!Refuse, EffectsLedger!GiveUp, p, q
<1>8. CASE Clarifies(j)
  BY ZenonT(60), <1>1, <1>2, <1>3, <1>8
  DEF Clarifies, Settled, EffectsLedger!Becomes, EffectsLedger!Step, EffectsLedger!Clarify, p, q
<1> QED
  BY ZenonT(60), <1>4, <1>5, <1>6, <1>7, <1>8 DEF Moves

(* The effect store implements the effect ledger: whatever the interleaving of
   callers, crashes, lost commits, ambiguous replies and operators, an effect
   happens at most once and a settled row is never contradicted (Store.Effect
   and Store.Resolve). *)
THEOREM EffectStoreImplementsLedger == EffectSpec => EffectsImplementLedger
<1>1. EffectInit => EffectsLedger!Init
  BY ZenonT(60) DEF EffectInit, EffectsLedger!Init, EffectPhase
<1>2. EInv /\ EInv' /\ [EffectNext]_effectVars => [EffectsLedger!Next]_<<effects, performed>>
  <2> SUFFICES ASSUME EInv, EInv', EffectNext PROVE EffectsLedger!Next
    BY ZenonT(60) DEF effectVars
  <2>1. \A j \in EffectIds : EffectsLedger!Step(j) \/ EffectsLedger!Becomes(j, EffectPhase(j))
    BY ZenonT(60), EffectMoves, MoveIsStep
  <2>2. \A j \in EffectIds : EffectPhase(j)' \in EffectsLedger!Phases
    <3>1. EffectTypeOK'
      BY ZenonT(60) DEF EInv
    <3> QED
      BY ZenonT(60), <3>1 DEF EffectTypeOK, EffectRows, EffectPhase, Claimable, EffectsLedger!Phases
  <2>3. performed' \in [EffectIds -> Nat]
    BY DEF EInv, EffectTypeOK
  <2> QED
    BY ZenonT(60), <2>1, <2>2, <2>3 DEF EffectsLedger!Next
<1> QED
  BY <1>1, <1>2, EffectInductive, PTL DEF EffectSpec, EffectsImplementLedger

-----------------------------------------------------------------------------
(***************************************************************************)
(* Inbound mail: an event is done only with PHP's receipt, its commands    *)
(* run at most once and a late relay undoes nothing, for any number of     *)
(* messages, relays and attempts.                                          *)
(***************************************************************************)
EventStates ==
  {NoEvent} \cup [pc : {"calling", "executing", "finish"}, key : Keys, attempts : Nat, at : Int,
                  state : {"done", "retry", "unknown"}]

InboxTypeOK ==
  /\ now \in Nat
  /\ inbox \in [Keys -> InboxRows \cup {NULL}]
  /\ relay \in [Relayers -> EventStates]
  /\ receipt \in [Keys -> {"none", "processing", "done"}]
  /\ executions \in [Keys -> Nat]

\* A relay that is about to write "done" has seen the finished receipt; one
\* whose call is running the commands was the only one to mark the receipt.
EventOK(r) ==
  LET k == relay[r].key IN
  /\ inbox[k] # NULL
  /\ relay[r].pc = "finish" /\ relay[r].state = "done" => receipt[k] = "done"
  /\ relay[r].pc = "executing" => receipt[k] # "none" /\ executions[k] = 0

EventsOK == \A r \in Relayers : relay[r] # NoEvent => EventOK(r)

OneExecutes ==
  \A r, q \in Relayers :
    relay[r].pc = "executing" /\ relay[q].pc = "executing" /\ relay[r].key = relay[q].key => r = q

\* Nothing ran before the receipt was marked.
MarkedFirst == \A k \in Keys : receipt[k] = "none" => executions[k] = 0

InboxInv ==
  InboxTypeOK /\ EventsOK /\ OneExecutes /\ MarkedFirst /\ DoneHasReceipt /\ CommandsOnce

-----------------------------------------------------------------------------
(* Rows and events.                                                        *)

\* A later instant is an instant.
LEMMA LaterIsTime == ASSUME now \in Nat PROVE Later(RelayLease) \in Int
  BY InboxAssumption DEF Later

\* The row a claim writes: leased, one attempt more, the message untouched.
LEMMA LeasedRow ==
  ASSUME now \in Nat, NEW r \in InboxRows
  PROVE  LET row == LeasedEvent(r) IN
         /\ row \in InboxRows /\ row.state = "processing"
         /\ row.message = r.message /\ row.payload = r.payload
<1>1. PICK t \in Int : t = Later(RelayLease)
  BY ZenonT(60), LaterIsTime
<1>2. PICK n \in Nat : n = r.attempts + 1
  BY DEF InboxRows
<1>3. LeasedEvent(r) = [r EXCEPT !.state = "processing", !.due = t, !.attempts = n]
  BY ZenonT(60), <1>1, <1>2 DEF LeasedEvent
<1>4. LeasedEvent(r) = [message |-> r.message, state |-> "processing", due |-> t, attempts |-> n,
                        payload |-> r.payload]
  BY ZenonT(60), <1>3 DEF InboxRows
<1> QED BY <1>4 DEF InboxRows

\* An event a relay works on has its type.
LEMMA EventType ==
  ASSUME InboxTypeOK, NEW r \in Relayers, relay[r] # NoEvent
  PROVE  /\ relay[r] \in [pc : {"calling", "executing", "finish"}, key : Keys, attempts : Nat,
                           at : Int, state : {"done", "retry", "unknown"}]
         /\ relay[r].key \in Keys /\ relay[r].attempts \in Nat /\ relay[r].at \in Int
         /\ relay[r].state \in {"done", "retry", "unknown"}
  BY ZenonT(60) DEF InboxTypeOK, EventStates

\* A relay in the middle of a call has an event.
LEMMA BusyHasEvent ==
  ASSUME InboxTypeOK, NEW r \in Relayers, relay[r].pc \in {"calling", "executing", "finish"}
  PROVE  relay[r] # NoEvent
  BY DEF NoEvent

\* An event's record as a relay turns to its next step.
LEMMA TurnedEvent ==
  ASSUME InboxTypeOK, NEW r \in Relayers, relay[r] # NoEvent,
         NEW pc \in {"executing", "finish"}, NEW st \in {"done", "retry", "unknown"}
  PROVE  LET e == Turned(relay[r], pc, st) IN
         /\ e \in EventStates /\ e # NoEvent
         /\ e.pc = pc /\ e.state = st /\ e.key = relay[r].key
<1>1. Turned(relay[r], pc, st) = [pc |-> pc, key |-> relay[r].key, attempts |-> relay[r].attempts,
                                  at |-> relay[r].at, state |-> st]
  BY ZenonT(60) DEF Turned, Event
<1> QED BY <1>1, EventType DEF EventStates, NoEvent

\* The row FinishEvent writes.
LEMMA FinishedRow ==
  ASSUME InboxTypeOK, NEW row \in InboxRows, NEW r \in Relayers, relay[r] # NoEvent
  PROVE  LET new == FinishedEvent(row, relay[r]) IN
         /\ new \in InboxRows /\ new.state = relay[r].state
         /\ new.message = row.message /\ new.payload = row.payload
<1>1. relay[r].attempts \in Nat /\ relay[r].at \in Int /\ relay[r].state \in {"done", "retry", "unknown"}
  BY ZenonT(60), EventType
<1>2. RetryAt(relay[r]) \in Int
  <2>1. PICK n \in Nat : n = IF relay[r].attempts < 6 THEN relay[r].attempts ELSE 6
    BY ZenonT(60), <1>1
  <2>2. RelayDelay(relay[r].attempts) = RetryWait * 2^n
    BY ZenonT(60), <2>1 DEF RelayDelay
  <2>3. 2^n \in Int
    OBVIOUS
  <2>4. RelayDelay(relay[r].attempts) \in Int
    BY <2>2, <2>3, InboxAssumption
  <2> QED BY <1>1, <2>4, InboxAssumption DEF RetryAt
<1>3. PICK t \in Int : t = IF relay[r].state = "retry" THEN RetryAt(relay[r]) ELSE relay[r].at
  BY ZenonT(60), <1>1, <1>2
<1>4. PICK st \in {"done", "retry", "unknown"} : st = relay[r].state
  BY ZenonT(60), <1>1
<1>5. FinishedEvent(row, relay[r]) = [row EXCEPT !.state = st, !.due = t]
  BY ZenonT(60), <1>3, <1>4 DEF FinishedEvent
<1>6. FinishedEvent(row, relay[r]) = [message |-> row.message, state |-> st, due |-> t,
                                      attempts |-> row.attempts, payload |-> row.payload]
  BY ZenonT(60), <1>5 DEF InboxRows
<1> QED BY <1>4, <1>6 DEF InboxRows

\* The rows Resolve and Purge write.
LEMMA SettledRow ==
  ASSUME now \in Nat, NEW r \in InboxRows
  PROVE  /\ LET row == Confirmed(r) IN
             /\ row \in InboxRows /\ row.state = "done" /\ row.message = r.message
         /\ LET row == Emptied(r) IN
             /\ row \in InboxRows /\ row.state = r.state /\ row.message = r.message
<1>1. PICK t \in Int : t = now
  OBVIOUS
<1>2. Confirmed(r) = [r EXCEPT !.state = "done", !.due = t]
  BY ZenonT(60), <1>1 DEF Confirmed
<1>3. Confirmed(r) = [message |-> r.message, state |-> "done", due |-> t, attempts |-> r.attempts,
                      payload |-> r.payload]
  BY ZenonT(60), <1>2 DEF InboxRows
<1>4. PICK b \in BOOLEAN : b = FALSE
  BY ZenonT(60)
<1>5. Emptied(r) = [r EXCEPT !.payload = b]
  BY ZenonT(60), <1>4 DEF Emptied
<1>6. Emptied(r) = [message |-> r.message, state |-> r.state, due |-> r.due,
                    attempts |-> r.attempts, payload |-> b]
  BY ZenonT(60), <1>5 DEF InboxRows
<1> QED BY <1>3, <1>6 DEF InboxRows

\* Writing one row leaves the others alone.
LEMMA RowWritten ==
  ASSUME InboxTypeOK, NEW k \in Keys, NEW row \in InboxRows, inbox' = [inbox EXCEPT ![k] = row]
  PROVE  /\ inbox' \in [Keys -> InboxRows \cup {NULL}] /\ inbox'[k] = row /\ row # NULL
         /\ \A j \in Keys \ {k} : inbox'[j] = inbox[j]
  BY ZenonT(60), InboxAssumption DEF InboxTypeOK

\* What must hold of one event's row for a step to be harmless to it.
Harmless(k) ==
  inbox[k] # NULL =>
    /\ inbox'[k] # NULL /\ inbox'[k].message = inbox[k].message
    /\ inbox[k].state \in {"done", "unknown"} => inbox'[k].state \in {inbox[k].state, "done"}
StepHarmless == \A k \in Keys : Harmless(k)

-----------------------------------------------------------------------------
(* One lemma for each action: it keeps the invariant and is harmless.      *)

\* Initially no mail has arrived.
LEMMA InboxInitOK == InboxInit => InboxInv
<1> SUFFICES ASSUME InboxInit PROVE InboxInv
  BY ZenonT(60)
<1>1. InboxTypeOK
  BY ZenonT(60) DEF InboxInit, ClockInit, InboxTypeOK, EventStates
<1>2. EventsOK /\ OneExecutes
  BY ZenonT(60) DEF InboxInit, EventsOK, OneExecutes, NoEvent
<1> QED BY <1>1, <1>2 DEF InboxInit, InboxInv, MarkedFirst, DoneHasReceipt, CommandsOnce

\* Time passes.
LEMMA InboxTickOK == ASSUME InboxInv, InboxTick PROVE InboxInv' /\ StepHarmless
<1>1. InboxTypeOK'
  BY DEF InboxTick, Advance, InboxInv, InboxTypeOK
<1>2. UNCHANGED <<inbox, relay, receipt, executions>>
  BY ZenonT(60) DEF InboxTick
<1> QED BY ZenonT(60), <1>1, <1>2 DEF InboxInv, EventsOK, EventOK, OneExecutes, MarkedFirst, DoneHasReceipt,
           CommandsOnce, StepHarmless, Harmless

\* Only a free identity takes a message.
LEMMA AcceptMailOK ==
  ASSUME InboxInv, NEW m \in Messages, AcceptMail(m) PROVE InboxInv' /\ StepHarmless
<1>1. PICK k \in Keys : k = KeyOf[m]
  BY ZenonT(60) DEF Keys
<1>2. PICK row : row = [message |-> m, state |-> "pending", due |-> now, attempts |-> 0, payload |-> TRUE]
  BY ZenonT(60)
<1>3. row \in InboxRows /\ row.state = "pending" /\ row.payload
  BY <1>2 DEF InboxRows, InboxInv, InboxTypeOK
<1>4. /\ inbox' = [inbox EXCEPT ![k] = row] /\ inbox[k] = NULL
      /\ UNCHANGED <<now, relay, receipt, executions>>
  BY ZenonT(60), <1>1, <1>2 DEF AcceptMail
<1>5. /\ inbox' \in [Keys -> InboxRows \cup {NULL}] /\ inbox'[k] = row /\ row # NULL
      /\ \A j \in Keys \ {k} : inbox'[j] = inbox[j]
  BY ZenonT(60), <1>3, <1>4, RowWritten DEF InboxInv
<1>6. InboxTypeOK'
  BY ZenonT(60), <1>4, <1>5 DEF InboxInv, InboxTypeOK
<1>7. EventsOK'
  <2> SUFFICES ASSUME NEW r \in Relayers, relay[r] # NoEvent PROVE EventOK(r)'
    BY ZenonT(60), <1>4 DEF EventsOK
  <2>1. EventOK(r) /\ relay[r].key \in Keys
    BY ZenonT(60), EventType DEF InboxInv, EventsOK
  <2> QED BY ZenonT(60), <1>4, <1>5, <2>1 DEF EventOK
<1>8. DoneHasReceipt'
  BY ZenonT(60), <1>3, <1>4, <1>5 DEF InboxInv, DoneHasReceipt
<1>9. StepHarmless
  BY ZenonT(60), <1>4, <1>5 DEF StepHarmless, Harmless
<1> QED BY ZenonT(60), <1>4, <1>6, <1>7, <1>8, <1>9 DEF InboxInv, OneExecutes, MarkedFirst, CommandsOnce

\* A claim takes only events that are not decided.
LEMMA ClaimEventOK ==
  ASSUME InboxInv, NEW r \in Relayers, NEW k \in Keys, ClaimEvent(r, k)
  PROVE  InboxInv' /\ StepHarmless
<1>1. /\ inbox[k] \in InboxRows /\ inbox[k] # NULL /\ inbox[k].state \in {"pending", "retry", "processing"}
      /\ now \in Nat /\ inbox[k].attempts \in Nat
  BY ZenonT(60) DEF ClaimEvent, Leaseable, InboxInv, InboxTypeOK, InboxRows
<1>2. PICK row : row = LeasedEvent(inbox[k])
  BY ZenonT(60)
<1>3. /\ row \in InboxRows /\ row.state = "processing"
      /\ row.message = inbox[k].message /\ row.payload = inbox[k].payload
  BY ZenonT(60), <1>1, <1>2, LeasedRow
<1>4. inbox' = [inbox EXCEPT ![k] = row] /\ UNCHANGED <<now, receipt, executions>>
  BY ZenonT(60), <1>2 DEF ClaimEvent
<1>5. /\ inbox' \in [Keys -> InboxRows \cup {NULL}] /\ inbox'[k] = row /\ row # NULL
      /\ \A j \in Keys \ {k} : inbox'[j] = inbox[j]
  BY ZenonT(60), <1>3, <1>4, RowWritten DEF InboxInv
<1>6. PICK e : e = Event("calling", k, inbox[k].attempts, now, "done")
  BY ZenonT(60)
<1>7. e \in EventStates /\ e.pc = "calling" /\ e.key = k
  BY <1>1, <1>6 DEF Event, EventStates
<1>8. /\ relay'[r] = e /\ \A q \in Relayers \ {r} : relay'[q] = relay[q]
      /\ relay' \in [Relayers -> EventStates]
  BY ZenonT(60), <1>6, <1>7 DEF ClaimEvent, InboxInv, InboxTypeOK
<1>9. InboxTypeOK'
  BY ZenonT(60), <1>4, <1>5, <1>8 DEF InboxInv, InboxTypeOK
<1>10. EventsOK'
  <2> SUFFICES ASSUME NEW q \in Relayers, relay'[q] # NoEvent PROVE EventOK(q)'
    BY ZenonT(60) DEF EventsOK
  <2>1. CASE q = r
    BY ZenonT(60), <1>5, <1>7, <1>8, <2>1 DEF EventOK
  <2>2. CASE q # r
    <3>1. relay'[q] = relay[q] /\ EventOK(q) /\ relay[q].key \in Keys
      BY ZenonT(60), <1>8, <2>2, EventType DEF InboxInv, EventsOK
    <3> QED BY ZenonT(60), <1>4, <1>5, <3>1 DEF EventOK
  <2> QED BY ZenonT(60), <2>1, <2>2
<1>11. OneExecutes'
  BY ZenonT(60), <1>7, <1>8 DEF InboxInv, OneExecutes
<1>12. DoneHasReceipt'
  BY ZenonT(60), <1>1, <1>3, <1>4, <1>5 DEF InboxInv, DoneHasReceipt
<1>13. StepHarmless
  BY ZenonT(60), <1>1, <1>3, <1>5 DEF StepHarmless, Harmless
<1> QED BY ZenonT(60), <1>4, <1>9, <1>10, <1>11, <1>12, <1>13 DEF InboxInv, MarkedFirst, CommandsOnce

\* A relay turns to another step, or to none, and leaves the rows alone.
LEMMA RelayTurns ==
  ASSUME InboxInv, NEW r \in Relayers, NEW e \in EventStates, relay' = [relay EXCEPT ![r] = e]
  PROVE  /\ relay' \in [Relayers -> EventStates] /\ relay'[r] = e
         /\ \A q \in Relayers \ {r} : relay'[q] = relay[q]
  BY ZenonT(60) DEF InboxInv, InboxTypeOK

\* A relay that ends its step without running anything, because its call
\* failed or the process did.
LEMMA StepEndsOK ==
  ASSUME InboxInv, NEW r \in Relayers, NEW e \in EventStates, relay' = [relay EXCEPT ![r] = e],
         e # NoEvent => e.pc = "finish" /\ e.state # "done" /\ e.key = relay[r].key /\ relay[r] # NoEvent,
         UNCHANGED <<now, inbox, receipt, executions>>
  PROVE  InboxInv' /\ StepHarmless
<1>1. /\ relay' \in [Relayers -> EventStates] /\ relay'[r] = e
      /\ \A q \in Relayers \ {r} : relay'[q] = relay[q]
  BY ZenonT(60), RelayTurns
<1>2. e.pc # "executing"
  BY DEF NoEvent
<1>3. EventsOK'
  <2> SUFFICES ASSUME NEW q \in Relayers, relay'[q] # NoEvent PROVE EventOK(q)'
    BY ZenonT(60) DEF EventsOK
  <2>1. CASE q = r
    BY ZenonT(60), <1>1, <2>1 DEF InboxInv, EventsOK, EventOK
  <2>2. CASE q # r
    BY ZenonT(60), <1>1, <2>2 DEF InboxInv, EventsOK, EventOK
  <2> QED BY ZenonT(60), <2>1, <2>2
<1>4. OneExecutes'
  BY ZenonT(60), <1>1, <1>2 DEF InboxInv, OneExecutes
<1> QED BY ZenonT(60), <1>1, <1>3, <1>4 DEF InboxInv, InboxTypeOK, MarkedFirst, DoneHasReceipt, CommandsOnce,
           StepHarmless, Harmless

\* A failed call, before or after the receipt was marked.
LEMMA CallFailsOK ==
  ASSUME InboxInv, NEW r \in Relayers, CallFails(r) PROVE InboxInv' /\ StepHarmless
<1>1. relay[r] # NoEvent
  BY ZenonT(60), BusyHasEvent DEF CallFails, InboxInv
<1>2. PICK e : e = Turned(relay[r], "finish", "retry")
  BY ZenonT(60)
<1>3. e \in EventStates /\ e.pc = "finish" /\ e.state = "retry" /\ e.key = relay[r].key
  BY ZenonT(60), <1>1, <1>2, TurnedEvent DEF InboxInv
<1> QED BY ZenonT(60), <1>1, <1>2, <1>3, StepEndsOK DEF CallFails

\* A crash of the relay's process.
LEMMA RelayCrashOK ==
  ASSUME InboxInv, NEW r \in Relayers, RelayCrash(r) PROVE InboxInv' /\ StepHarmless
<1>1. NoEvent \in EventStates
  BY ZenonT(60) DEF EventStates
<1> QED BY ZenonT(60), <1>1, StepEndsOK DEF RelayCrash

\* The first call for an event marks the receipt; every later one only reads it.
LEMMA BeginReceiptOK ==
  ASSUME InboxInv, NEW r \in Relayers, BeginReceipt(r) PROVE InboxInv' /\ StepHarmless
<1>1. relay[r] # NoEvent
  BY ZenonT(60), BusyHasEvent DEF BeginReceipt, InboxInv
<1>2. PICK k \in Keys : k = relay[r].key
  BY ZenonT(60), <1>1, EventType DEF InboxInv
<1>3. UNCHANGED <<now, inbox, executions>> /\ EventOK(r)
  BY ZenonT(60), <1>1 DEF BeginReceipt, InboxInv, EventsOK
<1>4. CASE receipt[k] = "none"
  <2>1. PICK e : e = Turned(relay[r], "executing", "done")
    BY ZenonT(60)
  <2>2. e \in EventStates /\ e.pc = "executing" /\ e.key = k
    BY <1>1, <1>2, <2>1, TurnedEvent DEF InboxInv
  <2>3. receipt' = [receipt EXCEPT ![k] = "processing"] /\ relay' = [relay EXCEPT ![r] = e]
    BY ZenonT(60), <1>2, <1>4, <2>1 DEF BeginReceipt
  <2>4. /\ relay' \in [Relayers -> EventStates] /\ relay'[r] = e
        /\ \A q \in Relayers \ {r} : relay'[q] = relay[q]
    BY ZenonT(60), <2>2, <2>3, RelayTurns
  <2>5. /\ receipt'[k] = "processing" /\ \A j \in Keys \ {k} : receipt'[j] = receipt[j]
        /\ receipt' \in [Keys -> {"none", "processing", "done"}]
    BY ZenonT(60), <2>3 DEF InboxInv, InboxTypeOK
  <2>6. executions[k] = 0
    BY ZenonT(60), <1>4 DEF InboxInv, MarkedFirst
  <2>7. ASSUME NEW q \in Relayers \ {r}, relay[q] # NoEvent, relay[q].key = k
        PROVE  relay[q].pc # "executing" /\ ~(relay[q].pc = "finish" /\ relay[q].state = "done")
    BY ZenonT(60), <1>4, <2>7 DEF InboxInv, EventsOK, EventOK
  <2>8. EventsOK'
    <3> SUFFICES ASSUME NEW q \in Relayers, relay'[q] # NoEvent PROVE EventOK(q)'
      BY ZenonT(60) DEF EventsOK
    <3>1. CASE q = r
      BY ZenonT(60), <1>2, <1>3, <2>2, <2>4, <2>5, <2>6, <3>1 DEF EventOK
    <3>2. CASE q # r
      <4>1. relay'[q] = relay[q] /\ EventOK(q) /\ relay[q].key \in Keys
        BY ZenonT(60), <2>4, <3>2, EventType DEF InboxInv, EventsOK
      <4> QED BY <1>3, <2>5, <2>7, <3>2, <4>1 DEF EventOK
    <3> QED BY ZenonT(60), <3>1, <3>2
  <2>9. OneExecutes'
    <3>1. ASSUME NEW q \in Relayers \ {r}, relay[q].pc = "executing" PROVE relay[q].key # k
      BY ZenonT(60), <2>7, <3>1, BusyHasEvent DEF InboxInv
    <3> QED BY <2>2, <2>4, <3>1 DEF InboxInv, OneExecutes
  <2>10. DoneHasReceipt'
    BY ZenonT(60), <1>3, <1>4, <2>5 DEF InboxInv, DoneHasReceipt
  <2>11. InboxTypeOK' /\ MarkedFirst' /\ CommandsOnce'
    BY ZenonT(60), <1>3, <2>4, <2>5 DEF InboxInv, InboxTypeOK, MarkedFirst, CommandsOnce
  <2> QED BY ZenonT(60), <1>3, <2>8, <2>9, <2>10, <2>11 DEF InboxInv, StepHarmless, Harmless
<1>5. CASE receipt[k] # "none"
  <2>1. PICK st \in {"done", "unknown"} : st = IF receipt[k] = "done" THEN "done" ELSE "unknown"
    BY ZenonT(60)
  <2>2. PICK e : e = Turned(relay[r], "finish", st)
    BY ZenonT(60)
  <2>3. e \in EventStates /\ e.pc = "finish" /\ e.key = k /\ e.state = st
    BY <1>1, <1>2, <2>2, TurnedEvent DEF InboxInv
  <2>4. UNCHANGED receipt /\ relay' = [relay EXCEPT ![r] = e]
    BY ZenonT(60), <1>2, <1>5, <2>1, <2>2 DEF BeginReceipt
  <2>5. /\ relay' \in [Relayers -> EventStates] /\ relay'[r] = e
        /\ \A q \in Relayers \ {r} : relay'[q] = relay[q]
    BY ZenonT(60), <2>3, <2>4, RelayTurns
  <2>6. EventsOK'
    <3> SUFFICES ASSUME NEW q \in Relayers, relay'[q] # NoEvent PROVE EventOK(q)'
      BY ZenonT(60) DEF EventsOK
    <3>1. CASE q = r
      BY ZenonT(60), <1>2, <1>3, <2>1, <2>3, <2>4, <2>5, <3>1 DEF EventOK
    <3>2. CASE q # r
      BY ZenonT(60), <1>3, <2>4, <2>5, <3>2 DEF InboxInv, EventsOK, EventOK
    <3> QED BY ZenonT(60), <3>1, <3>2
  <2>7. OneExecutes'
    BY ZenonT(60), <2>3, <2>5 DEF InboxInv, OneExecutes
  <2> QED BY ZenonT(60), <1>3, <2>4, <2>5, <2>6, <2>7 DEF InboxInv, InboxTypeOK, MarkedFirst, DoneHasReceipt,
             CommandsOnce, StepHarmless, Harmless
<1> QED BY ZenonT(60), <1>4, <1>5

\* The commands run for the first time, by the call that marked the receipt.
LEMMA RunCommandsOK ==
  ASSUME InboxInv, NEW r \in Relayers, RunCommands(r) PROVE InboxInv' /\ StepHarmless
<1>1. relay[r] # NoEvent /\ relay[r].pc = "executing"
  BY ZenonT(60), BusyHasEvent DEF RunCommands, InboxInv
<1>2. PICK k \in Keys : k = relay[r].key
  BY ZenonT(60), <1>1, EventType DEF InboxInv
<1>3. executions[k] = 0 /\ inbox[k] # NULL
  BY ZenonT(60), <1>1, <1>2 DEF InboxInv, EventsOK, EventOK
<1>4. /\ UNCHANGED <<now, inbox>> /\ receipt' = [receipt EXCEPT ![k] = "done"]
      /\ executions' = [executions EXCEPT ![k] = executions[k] + 1]
  BY ZenonT(60), <1>2 DEF RunCommands
<1>5. PICK e : /\ relay' = [relay EXCEPT ![r] = e]
               /\ e \in {Turned(relay[r], "finish", "done"), Turned(relay[r], "finish", "retry"), NoEvent}
  BY ZenonT(60) DEF RunCommands
<1>6. e \in EventStates /\ e.pc # "executing" /\ (e # NoEvent => e.pc = "finish" /\ e.key = k)
  <2>1. CASE e = NoEvent
    BY ZenonT(60), <2>1 DEF EventStates, NoEvent
  <2>2. CASE e # NoEvent
    <3>1. PICK st \in {"done", "retry"} : e = Turned(relay[r], "finish", st)
      BY ZenonT(60), <1>5, <2>2
    <3> QED BY <1>1, <1>2, <3>1, TurnedEvent DEF InboxInv
  <2> QED BY ZenonT(60), <2>1, <2>2
<1>7. /\ relay' \in [Relayers -> EventStates] /\ relay'[r] = e
      /\ \A q \in Relayers \ {r} : relay'[q] = relay[q]
  BY ZenonT(60), <1>5, <1>6, RelayTurns
<1>8. /\ receipt'[k] = "done" /\ \A j \in Keys \ {k} : receipt'[j] = receipt[j]
      /\ receipt' \in [Keys -> {"none", "processing", "done"}]
      /\ executions'[k] = 1 /\ \A j \in Keys \ {k} : executions'[j] = executions[j]
      /\ executions' \in [Keys -> Nat]
  BY <1>3, <1>4 DEF InboxInv, InboxTypeOK
<1>9. EventsOK'
  <2> SUFFICES ASSUME NEW q \in Relayers, relay'[q] # NoEvent PROVE EventOK(q)'
    BY ZenonT(60) DEF EventsOK
  <2>1. CASE q = r
    BY ZenonT(60), <1>3, <1>4, <1>6, <1>7, <1>8, <2>1 DEF EventOK
  <2>2. CASE q # r
    <3>1. relay'[q] = relay[q] /\ EventOK(q) /\ relay[q].key \in Keys
      BY ZenonT(60), <1>7, <2>2, EventType DEF InboxInv, EventsOK
    <3>2. relay[q].pc = "executing" => relay[q].key # k
      BY ZenonT(60), <1>1, <1>2, <2>2 DEF InboxInv, OneExecutes
    <3> QED BY ZenonT(60), <1>4, <1>8, <3>1, <3>2 DEF EventOK
  <2> QED BY ZenonT(60), <2>1, <2>2
<1>10. OneExecutes'
  BY <1>6, <1>7 DEF InboxInv, OneExecutes
<1>11. InboxTypeOK'
  BY ZenonT(60), <1>4, <1>7, <1>8 DEF InboxInv, InboxTypeOK
<1>12. MarkedFirst' /\ CommandsOnce'
  BY <1>8 DEF InboxInv, MarkedFirst, CommandsOnce
<1>13. DoneHasReceipt'
  BY ZenonT(60), <1>4, <1>8 DEF InboxInv, DoneHasReceipt
<1> QED BY ZenonT(60), <1>4, <1>9, <1>10, <1>11, <1>12, <1>13 DEF InboxInv, StepHarmless, Harmless

\* A relay writes only the row it still holds, and "done" only with a receipt.
LEMMA FinishEventOK ==
  ASSUME InboxInv, NEW r \in Relayers, FinishEvent(r) PROVE InboxInv' /\ StepHarmless
<1>1. relay[r] # NoEvent /\ relay[r].pc = "finish"
  BY ZenonT(60), BusyHasEvent DEF FinishEvent, InboxInv
<1>2. PICK k \in Keys : k = relay[r].key
  BY ZenonT(60), <1>1, EventType DEF InboxInv
<1>3. /\ relay' = [relay EXCEPT ![r] = NoEvent] /\ UNCHANGED <<now, receipt, executions>>
      /\ NoEvent \in EventStates
  BY ZenonT(60) DEF FinishEvent, EventStates
<1>4. CASE ~Fenced(inbox[k], relay[r].attempts)
  BY ZenonT(60), <1>2, <1>3, <1>4, StepEndsOK DEF FinishEvent
<1>5. CASE Fenced(inbox[k], relay[r].attempts)
  <2>1. /\ inbox[k] # NULL /\ inbox[k] \in InboxRows /\ inbox[k].state = "processing" /\ EventOK(r)
    BY ZenonT(60), <1>1, <1>2, <1>5 DEF InboxInv, InboxTypeOK, EventsOK, EventOK, Fenced
  <2>2. PICK row : row = FinishedEvent(inbox[k], relay[r])
    BY ZenonT(60)
  <2>3. /\ row \in InboxRows /\ row.state = relay[r].state
        /\ row.message = inbox[k].message /\ row.payload = inbox[k].payload
    BY ZenonT(60), <1>1, <2>1, <2>2, FinishedRow DEF InboxInv
  <2>4. inbox' = [inbox EXCEPT ![k] = row]
    BY ZenonT(60), <1>2, <1>5, <2>2 DEF FinishEvent
  <2>5. /\ inbox' \in [Keys -> InboxRows \cup {NULL}] /\ inbox'[k] = row /\ row # NULL
        /\ \A j \in Keys \ {k} : inbox'[j] = inbox[j]
    BY ZenonT(60), <2>3, <2>4, RowWritten DEF InboxInv
  <2>6. /\ relay' \in [Relayers -> EventStates] /\ relay'[r] = NoEvent
        /\ \A q \in Relayers \ {r} : relay'[q] = relay[q]
    BY ZenonT(60), <1>3, RelayTurns
  <2>7. EventsOK'
    <3> SUFFICES ASSUME NEW q \in Relayers, relay'[q] # NoEvent PROVE EventOK(q)'
      BY ZenonT(60) DEF EventsOK
    <3>1. relay'[q] = relay[q] /\ EventOK(q) /\ relay[q].key \in Keys
      BY ZenonT(60), <2>6, EventType DEF InboxInv, EventsOK
    <3> QED BY ZenonT(60), <1>3, <2>5, <3>1 DEF EventOK
  <2>8. OneExecutes'
    BY <2>6 DEF InboxInv, OneExecutes, NoEvent
  <2>9. DoneHasReceipt'
    <3>1. row.state = "done" => receipt[k] = "done"
      BY ZenonT(60), <1>1, <1>2, <2>1, <2>3 DEF EventOK
    <3>2. inbox[k].payload
      BY ZenonT(60), <2>1 DEF InboxInv, DoneHasReceipt
    <3> QED BY ZenonT(60), <1>3, <2>3, <2>5, <3>1, <3>2 DEF InboxInv, DoneHasReceipt
  <2>10. StepHarmless
    BY ZenonT(60), <2>1, <2>3, <2>5 DEF StepHarmless, Harmless
  <2> QED BY ZenonT(60), <1>3, <2>5, <2>6, <2>7, <2>8, <2>9, <2>10
          DEF InboxInv, InboxTypeOK, MarkedFirst, CommandsOnce
<1> QED BY ZenonT(60), <1>4, <1>5

\* An operator's resolution completes PHP's receipt before the row is done.
LEMMA ReconcileOK ==
  ASSUME InboxInv, NEW k \in Keys, Reconcile(k) PROVE InboxInv' /\ StepHarmless
<1>1. /\ inbox[k] # NULL /\ inbox[k] \in InboxRows /\ inbox[k].state = "unknown" /\ now \in Nat
      /\ receipt[k] # "none"
  BY ZenonT(60) DEF Reconcile, InboxInv, InboxTypeOK
<1>2. PICK row : row = Confirmed(inbox[k])
  BY ZenonT(60)
<1>3. row \in InboxRows /\ row.state = "done" /\ row.message = inbox[k].message
  BY ZenonT(60), <1>1, <1>2, SettledRow
<1>4. /\ inbox' = [inbox EXCEPT ![k] = row] /\ UNCHANGED <<now, relay, executions>>
      /\ receipt' = [receipt EXCEPT ![k] = "done"]
  BY ZenonT(60), <1>2 DEF Reconcile
<1>5. /\ inbox' \in [Keys -> InboxRows \cup {NULL}] /\ inbox'[k] = row /\ row # NULL
      /\ \A j \in Keys \ {k} : inbox'[j] = inbox[j]
  BY ZenonT(60), <1>3, <1>4, RowWritten DEF InboxInv
<1>6. /\ receipt'[k] = "done" /\ \A j \in Keys \ {k} : receipt'[j] = receipt[j]
      /\ receipt' \in [Keys -> {"none", "processing", "done"}]
  BY ZenonT(60), <1>4 DEF InboxInv, InboxTypeOK
<1>7. EventsOK'
  <2> SUFFICES ASSUME NEW q \in Relayers, relay[q] # NoEvent PROVE EventOK(q)'
    BY ZenonT(60), <1>4 DEF EventsOK
  <2>1. EventOK(q) /\ relay[q].key \in Keys
    BY ZenonT(60), EventType DEF InboxInv, EventsOK
  <2> QED BY ZenonT(60), <1>4, <1>5, <1>6, <2>1 DEF EventOK
<1>8. OneExecutes'
  BY ZenonT(60), <1>4 DEF InboxInv, OneExecutes
<1>9. DoneHasReceipt'
  BY ZenonT(60), <1>3, <1>5, <1>6 DEF InboxInv, DoneHasReceipt
<1>10. StepHarmless
  BY ZenonT(60), <1>1, <1>3, <1>5 DEF StepHarmless, Harmless
<1> QED BY ZenonT(60), <1>4, <1>5, <1>6, <1>7, <1>8, <1>9, <1>10
        DEF InboxInv, InboxTypeOK, MarkedFirst, CommandsOnce

\* Purge empties only what is done.
LEMMA PurgeOK == ASSUME InboxInv, Purge PROVE InboxInv' /\ StepHarmless
<1>1. UNCHANGED <<now, relay, receipt, executions>>
  BY ZenonT(60) DEF Purge
<1>2. PICK old : /\ inbox' = [k \in Keys |-> IF k \in old THEN Emptied(inbox[k]) ELSE inbox[k]]
                 /\ \A k \in Keys : k \in old => inbox[k] # NULL /\ inbox[k].state = "done"
  BY ZenonT(60) DEF Purge, PurgeState
<1>3. ASSUME NEW k \in Keys
      PROVE  /\ inbox'[k] \in InboxRows \cup {NULL}
             /\ inbox[k] = NULL => inbox'[k] = NULL
             /\ inbox[k] # NULL =>
                  /\ inbox'[k] # NULL /\ inbox'[k].state = inbox[k].state
                  /\ inbox'[k].message = inbox[k].message
                  /\ inbox'[k] # inbox[k] => inbox[k].state = "done"
  <2>1. inbox[k] \in InboxRows \cup {NULL} /\ now \in Nat
    BY ZenonT(60) DEF InboxInv, InboxTypeOK
  <2>2. CASE k \in old
    <3>1. inbox[k] \in InboxRows /\ inbox[k].state = "done" /\ inbox'[k] = Emptied(inbox[k])
      BY ZenonT(60), <1>2, <2>1, <2>2
    <3> QED BY ZenonT(60), <2>1, <3>1, SettledRow, InboxAssumption
  <2>3. CASE k \notin old
    <3>1. inbox'[k] = inbox[k]
      BY ZenonT(60), <1>2, <2>3
    <3> QED BY ZenonT(60), <2>1, <3>1
  <2> QED BY ZenonT(60), <2>2, <2>3
<1>4. InboxTypeOK'
  <2>1. inbox' \in [Keys -> InboxRows \cup {NULL}]
    BY ZenonT(60), <1>2, <1>3
  <2> QED BY ZenonT(60), <1>1, <2>1 DEF InboxInv, InboxTypeOK
<1>5. EventsOK'
  <2> SUFFICES ASSUME NEW q \in Relayers, relay[q] # NoEvent PROVE EventOK(q)'
    BY ZenonT(60), <1>1 DEF EventsOK
  <2>1. EventOK(q) /\ relay[q].key \in Keys
    BY ZenonT(60), EventType DEF InboxInv, EventsOK
  <2> QED BY ZenonT(60), <1>1, <1>3, <2>1 DEF EventOK
<1>6. OneExecutes'
  BY ZenonT(60), <1>1 DEF InboxInv, OneExecutes
<1>7. DoneHasReceipt'
  BY ZenonT(60), <1>1, <1>3 DEF InboxInv, DoneHasReceipt
<1>8. StepHarmless
  BY ZenonT(60), <1>3 DEF StepHarmless, Harmless
<1> QED BY ZenonT(60), <1>1, <1>4, <1>5, <1>6, <1>7, <1>8 DEF InboxInv, MarkedFirst, CommandsOnce

-----------------------------------------------------------------------------
\* Every step keeps the invariant and undoes no decision.
LEMMA InboxStepOK == InboxInv /\ [InboxNext]_inboxVars => InboxInv' /\ StepHarmless
<1> SUFFICES ASSUME InboxInv, [InboxNext]_inboxVars PROVE InboxInv' /\ StepHarmless
  BY ZenonT(60)
<1>1. CASE UNCHANGED inboxVars
  <2>1. UNCHANGED <<now, inbox, relay, receipt, executions>>
    BY ZenonT(60), <1>1 DEF inboxVars
  <2> QED BY ZenonT(60), <2>1 DEF InboxInv, InboxTypeOK, EventsOK, EventOK, OneExecutes, MarkedFirst,
             DoneHasReceipt, CommandsOnce, StepHarmless, Harmless
<1> QED BY ZenonT(60), <1>1, InboxTickOK, AcceptMailOK, ClaimEventOK, BeginReceiptOK, RunCommandsOK,
           CallFailsOK, RelayCrashOK, FinishEventOK, ReconcileOK, PurgeOK DEF InboxNext

\* An event is done only once PHP holds its finished receipt, PHP runs a
\* message's commands at most once, and no late relay, resolution or purge
\* undoes a decision or replaces a message (Relay, Resolve, Purge, Accept).
THEOREM MailHandedOverOnce == InboxSpec => HandedOverOnce
<1>1. InboxInv => DoneHasReceipt /\ CommandsOnce
  BY ZenonT(60) DEF InboxInv
<1>2. StepHarmless =>
        \A k \in Keys : inbox[k] # NULL =>
          /\ inbox'[k] # NULL /\ inbox'[k].message = inbox[k].message
          /\ inbox[k].state \in {"done", "unknown"} => inbox'[k].state \in {inbox[k].state, "done"}
  BY ZenonT(60) DEF StepHarmless, Harmless
<1> QED BY <1>1, <1>2, InboxInitOK, InboxStepOK, PTL DEF InboxSpec, HandedOverOnce, LateRelayHarmless

-----------------------------------------------------------------------------
(***************************************************************************)
(* The fact projection.  The page a projector holds was complete up to its *)
(* last position when it was fetched: an object that is not on it, or has  *)
(* changed since, lies after that position.  The cursor row's lock keeps   *)
(* everyone else from committing before it.                                *)
(***************************************************************************)
Positions == Nat \X Nat
PageItems == [object : Objects, at : Positions]

FactTypeOK ==
  /\ clockPos \in Positions
  /\ changed \in [Objects -> Positions \cup {None}]
  /\ cursor \in Positions \cup {None}
  /\ facts \in [Objects -> Positions \cup {None}]
  /\ page \in [Projectors -> Seq(PageItems)]

\* Nothing lies after the source's own position counter.
BehindClock ==
  /\ ~PositionAfter(clockPos, cursor)
  /\ \A o \in Objects : ~PositionAfter(clockPos, changed[o])

PageOK(p) ==
  LET last == NextPosition(page[p]) IN
  /\ ~PositionAfter(clockPos, last)
  /\ \A i, j \in 1..Len(page[p]) : page[p][i].object = page[p][j].object => i = j
  /\ \A k \in 1..Len(page[p]) :
       \/ changed[page[p][k].object] = page[p][k].at
       \/ PositionAfter(last, changed[page[p][k].object])
  /\ \A o \in Objects :
       \/ \E k \in 1..Len(page[p]) : page[p][k].object = o
       \/ changed[o] = facts[o]
       \/ PositionAfter(last, changed[o])

FactInv ==
  /\ FactTypeOK /\ BehindClock /\ CursorCovers
  /\ \A p \in Projectors : page[p] # None => PageOK(p)
  /\ \A p, q \in Projectors : page[p] # None /\ page[q] # None => p = q

\* Positions of two fields are compared lexicographically.
Lexical(a, b) == b[1] > a[1] \/ (b[1] = a[1] /\ b[2] > a[2])

\* PositionAfter on positions is the lexicographic order.
LEMMA PairOrder ==
  ASSUME NEW a \in Positions, NEW b \in Positions
  PROVE  /\ a # None /\ a[1] \in Nat /\ a[2] \in Nat
         /\ PositionAfter(None, a) /\ ~PositionAfter(a, None)
         /\ PositionAfter(a, b) <=> Lexical(a, b)
<1>1. PICK a1 \in Nat, a2 \in Nat : a = <<a1, a2>>
  BY DEF Positions
<1>2. PICK b1 \in Nat, b2 \in Nat : b = <<b1, b2>>
  BY DEF Positions
<1>3. /\ Len(a) = 2 /\ Len(b) = 2 /\ a # None /\ b # None /\ DOMAIN a = {1, 2}
      /\ a[1] = a1 /\ a[2] = a2 /\ b[1] = b1 /\ b[2] = b2
  BY <1>1, <1>2 DEF None
<1>4. PositionAfter(a, b) <=> \E i \in {1, 2} : b[i] > a[i] /\ \A j \in 1..(i - 1) : b[j] = a[j]
  BY ZenonT(60), <1>3 DEF PositionAfter
<1>5. (b[1] > a[1] /\ \A j \in 1..(1 - 1) : b[j] = a[j]) <=> b1 > a1
  BY <1>3
<1>6. (b[2] > a[2] /\ \A j \in 1..(2 - 1) : b[j] = a[j]) <=> (b2 > a2 /\ b1 = a1)
  BY <1>3
<1> QED BY ZenonT(60), <1>3, <1>4, <1>5, <1>6 DEF PositionAfter, Lexical

\* Positions are totally and transitively ordered.
LEMMA AfterTransitive ==
  ASSUME NEW a \in Positions \cup {None}, NEW b \in Positions, NEW c \in Positions \cup {None}
  PROVE  /\ PositionAfter(b, c) => c \in Positions
         /\ ~PositionAfter(b, a) /\ PositionAfter(b, c) => PositionAfter(a, c)
         /\ PositionAfter(a, b) => ~PositionAfter(b, a)
         /\ ~PositionAfter(b, a) /\ ~PositionAfter(c, b) /\ c # None => ~PositionAfter(c, a)
         /\ ~PositionAfter(b, b)
<1>1. CASE a = None /\ c = None
  BY <1>1, PairOrder DEF Lexical
<1>2. CASE a = None /\ c \in Positions
  BY <1>2, PairOrder DEF Lexical
<1>3. CASE a \in Positions /\ c = None
  BY <1>3, PairOrder DEF Lexical
<1>4. CASE a \in Positions /\ c \in Positions
  BY <1>4, PairOrder DEF Lexical
<1> QED BY ZenonT(60), <1>1, <1>2, <1>3, <1>4

\* Before the first change the invariant holds.
LEMMA FactInitOK == FactInit => FactInv
<1> SUFFICES ASSUME FactInit PROVE FactInv
  BY ZenonT(60)
<1>1. FactTypeOK
  BY DEF FactInit, FactTypeOK, Positions, None
<1>2. BehindClock
  BY PairOrder DEF FactInit, BehindClock, Positions
<1> QED BY ZenonT(60), <1>1, <1>2 DEF FactInit, FactInv, CursorCovers

\* What the page a projector holds consists of.
LEMMA PageType ==
  ASSUME FactInv, NEW p \in Projectors, page[p] # None
  PROVE  /\ NextPosition(page[p]) \in Positions /\ Len(page[p]) \in Nat
         /\ Len(page[p]) \in 1..Len(page[p])
         /\ \A k \in 1..Len(page[p]) : page[p][k].object \in Objects /\ page[p][k].at \in Positions
<1>1. page[p] \in Seq(PageItems)
  BY ZenonT(60) DEF FactInv, FactTypeOK
<1>2. Len(page[p]) \in Nat /\ Len(page[p]) \in 1..Len(page[p])
  BY <1>1 DEF None
<1>3. \A k \in 1..Len(page[p]) : page[p][k] \in PageItems
  BY <1>1
<1> QED BY ZenonT(60), <1>2, <1>3 DEF NextPosition, PageItems

\* A change moves the object past everything scanned so far.
LEMMA ChangeObjectOK ==
  ASSUME FactInv, NEW o \in Objects, ChangeObject(o) PROVE FactInv'
<1>1. PICK next : /\ next \in {<<clockPos[1], clockPos[2] + 1>>, <<clockPos[1] + 1, clockPos[2]>>}
                  /\ clockPos' = next /\ changed' = [changed EXCEPT ![o] = next]
  BY ZenonT(60) DEF ChangeObject
<1>2. clockPos \in Positions /\ next \in Positions
  BY <1>1 DEF FactInv, FactTypeOK, Positions
<1>3. PositionAfter(clockPos, next)
  <2>1. /\ next[1] = clockPos[1] /\ next[2] = clockPos[2] + 1
        \/ /\ next[1] = clockPos[1] + 1
    BY <1>1
  <2> QED BY <1>2, <2>1, PairOrder DEF Lexical
<1>4. /\ FactTypeOK' /\ changed'[o] = next /\ UNCHANGED <<cursor, facts, page>>
      /\ \A u \in Objects \ {o} : changed'[u] = changed[u]
  BY ZenonT(60), <1>1, <1>2 DEF ChangeObject, FactInv, FactTypeOK
<1>5. ASSUME NEW a \in Positions \cup {None}, ~PositionAfter(clockPos, a)
      PROVE  PositionAfter(a, next) /\ ~PositionAfter(next, a)
  BY ZenonT(60), <1>2, <1>3, <1>5, AfterTransitive
<1>6. BehindClock'
  <2>1. ~PositionAfter(next, next)
    BY ZenonT(60), <1>2, AfterTransitive
  <2> QED BY ZenonT(60), <1>1, <1>4, <1>5, <2>1 DEF FactInv, FactTypeOK, BehindClock
<1>7. CursorCovers'
  <2>1. PositionAfter(cursor, next)
    BY ZenonT(60), <1>5 DEF FactInv, FactTypeOK, BehindClock
  <2> QED BY ZenonT(60), <1>4, <2>1 DEF FactInv, CursorCovers
<1>8. ASSUME NEW p \in Projectors, page[p] # None PROVE PageOK(p)'
  <2>1. /\ NextPosition(page[p]) \in Positions /\ Len(page[p]) \in Nat
        /\ \A k \in 1..Len(page[p]) : page[p][k].object \in Objects
    BY ZenonT(60), <1>8, PageType
  <2>2. PageOK(p)
    BY ZenonT(60), <1>8 DEF FactInv
  <2>3. PositionAfter(NextPosition(page[p]), next) /\ ~PositionAfter(next, NextPosition(page[p]))
    BY ZenonT(60), <1>5, <2>1, <2>2 DEF PageOK
  <2>4. UNCHANGED NextPosition(page[p]) /\ UNCHANGED page
    BY ZenonT(60), <1>4 DEF NextPosition
  <2> QED BY <1>1, <1>4, <2>1, <2>2, <2>3, <2>4 DEF PageOK
<1> QED BY ZenonT(60), <1>4, <1>6, <1>7, <1>8 DEF FactInv

\* A page leaves out only objects after its last one.
LEMMA FetchPageOfFactsOK ==
  ASSUME FactInv, NEW p \in Projectors, FetchPage(p) PROVE FactInv'
<1>0. PICK n \in 1..PageSize : \E objects \in [1..n -> Due] :
        /\ OldestDue(objects)
        /\ page' = [page EXCEPT ![p] = [k \in 1..n |-> [object |-> objects[k], at |-> changed[objects[k]]]]]
  BY ZenonT(60) DEF FetchPage
<1>1. PICK objects \in [1..n -> Due] :
        /\ OldestDue(objects)
        /\ page' = [page EXCEPT ![p] = [k \in 1..n |-> [object |-> objects[k], at |-> changed[objects[k]]]]]
  BY ZenonT(60), <1>0
<1>2. PICK items : items = [k \in 1..n |-> [object |-> objects[k], at |-> changed[objects[k]]]]
  BY ZenonT(60)
<1>3. /\ n \in Nat \ {0}
      /\ \A k \in 1..n : objects[k] \in Objects /\ changed[objects[k]] \in Positions
                        /\ PositionAfter(cursor, changed[objects[k]])
  <2>1. \A k \in 1..n : objects[k] \in Objects /\ PositionAfter(cursor, changed[objects[k]])
    BY ZenonT(60), <1>1 DEF Due
  <2>2. \A o \in Objects : changed[o] \in Positions \cup {None}
    BY ZenonT(60) DEF FactInv, FactTypeOK
  <2>3. \A o \in Objects : PositionAfter(cursor, changed[o]) => changed[o] # None
    BY ZenonT(60) DEF PositionAfter
  <2> QED BY <1>1, <2>1, <2>2, <2>3
<1>4. /\ items \in Seq(PageItems) /\ Len(items) = n /\ items # None
      /\ \A k \in 1..n : items[k].object = objects[k] /\ items[k].at = changed[objects[k]]
  <2>1. items \in [1..n -> PageItems]
    BY ZenonT(60), <1>2, <1>3 DEF PageItems
  <2>2. items \in Seq(PageItems) /\ Len(items) = n
    BY <1>3, <2>1
  <2> QED BY ZenonT(60), <1>2, <1>3, <2>2 DEF None
<1>5. UNCHANGED <<clockPos, changed, cursor, facts>> /\ \A q \in Projectors : page[q] = None
  BY ZenonT(60) DEF FetchPage, Unlocked
<1>6. /\ page'[p] = items /\ \A q \in Projectors \ {p} : page'[q] = None
      /\ page' \in [Projectors -> Seq(PageItems)]
  BY ZenonT(60), <1>1, <1>2, <1>4, <1>5 DEF FactInv, FactTypeOK
<1>7. NextPosition(items) = changed[objects[n]] /\ n \in 1..n
  BY <1>3, <1>4 DEF NextPosition
<1>8. Len(objects) = n
  BY <1>1, <1>3
<1>9. PageOK(p)'
  <2>1. ~PositionAfter(clockPos, NextPosition(items))
    BY ZenonT(60), <1>3, <1>7 DEF FactInv, BehindClock
  <2>2. ASSUME NEW i \in 1..n, NEW j \in 1..n, objects[i] = objects[j], i < j PROVE FALSE
    BY <1>1, <1>3, <1>8, <2>2, AfterTransitive DEF OldestDue
  <2>3. \A i, j \in 1..n : objects[i] = objects[j] => i = j
    BY <1>3, <2>2
  <2>4. ASSUME NEW o \in Objects, changed[o] # facts[o], \A k \in 1..n : objects[k] # o
        PROVE  PositionAfter(NextPosition(items), changed[o])
    <3>1. o \in Due
      BY ZenonT(60), <2>4 DEF FactInv, CursorCovers, Due
    <3> QED BY ZenonT(60), <1>1, <1>7, <1>8, <2>4, <3>1 DEF OldestDue
  <2>5. (NextPosition(page[p]))' = NextPosition(items)
    BY ZenonT(60), <1>6 DEF NextPosition
  <2>6. \A i, j \in 1..Len(items) : items[i].object = items[j].object => i = j
    BY <1>4, <2>3
  <2>7. \A k \in 1..Len(items) : changed[items[k].object] = items[k].at
    BY ZenonT(60), <1>4
  <2>8. \A o \in Objects :
          \/ \E k \in 1..Len(items) : items[k].object = o
          \/ changed[o] = facts[o]
          \/ PositionAfter(NextPosition(items), changed[o])
    BY <1>4, <2>4
  <2> QED BY ZenonT(60), <1>5, <1>6, <2>1, <2>5, <2>6, <2>7, <2>8 DEF PageOK
<1> QED BY ZenonT(60), <1>5, <1>6, <1>9 DEF FactInv, FactTypeOK, BehindClock, CursorCovers

\* The commit shows every object on the page at its position and passes no
\* other stale one.
LEMMA CommitPageOK ==
  ASSUME FactInv, NEW p \in Projectors, CommitPage(p) PROVE FactInv'
<1>1. page[p] # None /\ PageOK(p)
  BY ZenonT(60) DEF CommitPage, FactInv
<1>2. PICK items : items = page[p]
  BY ZenonT(60)
<1>3. PICK last : last = NextPosition(items)
  BY ZenonT(60)
<1>4. /\ last \in Positions /\ Len(items) \in Nat
      /\ \A k \in 1..Len(items) : items[k].object \in Objects /\ items[k].at \in Positions
  BY ZenonT(60), <1>1, <1>2, <1>3, PageType
<1>5. /\ cursor' = last /\ UNCHANGED <<clockPos, changed>> /\ page' = [page EXCEPT ![p] = None]
      /\ facts' = [o \in Objects |->
           IF \E k \in 1..Len(items) : items[k].object = o
           THEN items[CHOOSE k \in 1..Len(items) : items[k].object = o].at ELSE facts[o]]
  BY ZenonT(60), <1>2, <1>3 DEF CommitPage
<1>6. ASSUME NEW o \in Objects, NEW k \in 1..Len(items), items[k].object = o
      PROVE  facts'[o] = items[k].at
  <2>1. PICK c : c = CHOOSE i \in 1..Len(items) : items[i].object = o
    BY ZenonT(60)
  <2>2. c \in 1..Len(items) /\ items[c].object = o
    BY <1>6, <2>1, Zenon
  <2>3. c = k
    BY ZenonT(60), <1>1, <1>2, <1>6, <2>2 DEF PageOK
  <2>4. facts'[o] = items[c].at
    BY ZenonT(60), <1>5, <1>6, <2>1
  <2> QED BY ZenonT(60), <2>3, <2>4
<1>7. ASSUME NEW o \in Objects, ~\E k \in 1..Len(items) : items[k].object = o
      PROVE  facts'[o] = facts[o]
  BY ZenonT(60), <1>5, <1>7
<1>8. FactTypeOK'
  <2>1. \A o \in Objects : facts'[o] \in Positions \cup {None}
    BY ZenonT(60), <1>4, <1>6, <1>7 DEF FactInv, FactTypeOK
  <2>2. facts' \in [Objects -> Positions \cup {None}]
    BY ZenonT(60), <1>5, <2>1
  <2>3. None \in Seq(PageItems)
    BY DEF None
  <2> QED BY ZenonT(60), <1>4, <1>5, <2>2, <2>3 DEF FactInv, FactTypeOK
<1>9. BehindClock'
  BY ZenonT(60), <1>1, <1>2, <1>3, <1>5 DEF FactInv, BehindClock, PageOK
<1>10. CursorCovers'
  <2> SUFFICES ASSUME NEW o \in Objects, changed[o] # facts'[o] PROVE PositionAfter(last, changed[o])
    BY ZenonT(60), <1>5 DEF CursorCovers
  <2>1. CASE \E k \in 1..Len(items) : items[k].object = o
    <3>1. PICK k \in 1..Len(items) : items[k].object = o
      BY ZenonT(60), <2>1
    <3>2. facts'[o] = items[k].at
      BY ZenonT(60), <1>6, <3>1
    <3>3. changed[o] = items[k].at \/ PositionAfter(last, changed[o])
      BY ZenonT(60), <1>1, <1>2, <1>3, <3>1 DEF PageOK
    <3> QED BY ZenonT(60), <3>2, <3>3
  <2>2. CASE ~\E k \in 1..Len(items) : items[k].object = o
    BY ZenonT(60), <1>1, <1>2, <1>3, <1>7, <2>2 DEF PageOK
  <2> QED BY ZenonT(60), <2>1, <2>2
<1>11. \A q \in Projectors : page'[q] = None
  BY ZenonT(60), <1>1, <1>5 DEF FactInv, FactTypeOK
<1> QED BY ZenonT(60), <1>8, <1>9, <1>10, <1>11 DEF FactInv

\* A page that is dropped changes no table.
LEMMA AbortPageOK ==
  ASSUME FactInv, NEW p \in Projectors, AbortPage(p) PROVE FactInv'
<1>1. UNCHANGED <<clockPos, changed, cursor, facts>> /\ \A q \in Projectors : page'[q] = None
  BY ZenonT(60) DEF AbortPage, FactInv, FactTypeOK
<1>2. page' \in [Projectors -> Seq(PageItems)]
  <2>1. None \in Seq(PageItems)
    BY DEF None
  <2> QED BY ZenonT(60), <2>1 DEF AbortPage, FactInv, FactTypeOK
<1> QED BY ZenonT(60), <1>1, <1>2 DEF FactInv, FactTypeOK, BehindClock, CursorCovers

\* The cursor never passes an object whose datapoints are stale, for any number
\* of objects, projectors and changes and any page size.
THEOREM CursorCoversAlways == FactSpec => []CursorCovers
<1>1. FactInv /\ [FactNext]_factVars => FactInv'
  <2> SUFFICES ASSUME FactInv, [FactNext]_factVars PROVE FactInv'
    BY ZenonT(60)
  <2>1. CASE UNCHANGED factVars
    BY ZenonT(60), <2>1 DEF factVars, FactInv, FactTypeOK, BehindClock, CursorCovers, PageOK, NextPosition
  <2> QED BY ZenonT(60), <2>1, ChangeObjectOK, FetchPageOfFactsOK, CommitPageOK, AbortPageOK DEF FactNext
<1>2. FactInv => CursorCovers
  BY ZenonT(60) DEF FactInv
<1> QED BY <1>1, <1>2, FactInitOK, PTL DEF FactSpec
=============================================================================
