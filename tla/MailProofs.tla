----------------------------- MODULE MailProofs -----------------------------
(***************************************************************************)
(* Durable mail delivery, for any number of mails, requests, providers and *)
(* attempts: the three records of a delivery agree, and the ledger of mail *)
(* is an effect ledger, so at most one provider takes a message.  The      *)
(* argument: at most one request is under way on a mail, and only while    *)
(* its row is claimed or was given up as unknown; what a reply proves of   *)
(* its call is true of the provider, so a delivery goes back to waiting    *)
(* only when nothing was taken and nothing can be any more; and a row's    *)
(* revision grows with every state it takes, so a result that was read     *)
(* earlier is an earlier one or the final one.                             *)
(***************************************************************************)
EXTENDS MailDelivery, TLAPS

Entries == {"submitting", "retry_wait", "accepted", "failed", "unknown"}
Origins == {"http", "task", "changed"}
Verdicts == {"ok", "retry", "permanent", "unknown"}
Results == [state : MailStates, revision : Nat]

\* What somebody was told, or is about to be told, of a delivery: an earlier
\* revision of its row, or what it says now; a final result is the row's.
ResultOK(x, row) ==
  \/ x = NoResult
  \/ /\ row # NULL /\ x \in Results /\ x.revision <= row.revision
     /\ x.revision = row.revision \/ x.state \in Terminal => x = Result(row)

\* The row and the audit of its attempts.
AuditOK(row, log) ==
  /\ log \in Seq(Entries)
  /\ row = NULL => log = <<>>
  /\ row # NULL =>
       /\ Len(log) = row.attempt
       /\ \A k \in 1..Len(log) :
            log[k] = IF k = row.attempt /\ row.state \notin {"cancelled", "expired"}
                     THEN row.state ELSE "retry_wait"

\* The row, the providers and the clock t.
RowOK(row, a, o, t) ==
  /\ a \in Nat /\ o \in Nat /\ a + o <= 1
  /\ row = NULL => a = 0 /\ o = 0
  /\ row # NULL =>
       /\ row \in MailRows /\ row.attempt <= MaxAttempts /\ row.started <= t
       /\ row.state = "retry_wait" => row.attempt < MaxAttempts
       /\ row.state = "prepared" => row.attempt = 0
       /\ row.state = "submitting" => row.attempt # 0
       /\ row.state = "accepted" => a = 1
       /\ row.state \in Unsettled \cup {"failed", "expired", "cancelled"} => a = 0 /\ o = 0

\* The row and what PHP holds.
SourceOK(row, s) ==
  /\ ResultOK(s, row)
  /\ row # NULL /\ row.state \in Terminal /\ ~row.pending => s = Result(row)

Underway == {"sending", "calling", "report"}

\* A request on its way, by its stage: whether the provider can have taken the
\* message.
SendingOK(q, row, a, o) ==
  /\ q \in [pc : {"sending", "calling"}, mail : Mails, client : Origins, attempt : Nat,
            i : Nat, try : Nat, taken : BOOLEAN]
  /\ row # NULL /\ row.state \in {"submitting", "unknown"}
  /\ q.pc = "sending" => ~q.taken
  /\ o = 0 /\ a = IF q.taken THEN 1 ELSE 0

ReportOK(q, row, a, o) ==
  /\ q \in [pc : {"report"}, mail : Mails, client : Origins, attempt : Nat, verdict : Verdicts]
  /\ row # NULL /\ row.state \in {"submitting", "unknown"}
  /\ q.verdict = "ok" => a = 1
  /\ q.verdict \in {"retry", "permanent"} => a = 0 /\ o = 0

ReturnedOK(q, row) ==
  /\ q \in [pc : {"returned"}, mail : Mails, client : Origins, result : Results]
  /\ ResultOK(q.result, row)

RequestOK(q, row, a, o) == SendingOK(q, row, a, o) \/ ReportOK(q, row, a, o) \/ ReturnedOK(q, row)

ProjectorOK(p, row, s) ==
  /\ p \in [mail : Mails, result : Results, acked : BOOLEAN]
  /\ ResultOK(p.result, row)
  /\ p.acked => s.revision >= p.result.revision

OneSender ==
  \A q, r \in Requests : req[q].pc \in Underway /\ req[r].pc \in Underway /\ req[q].mail = req[r].mail => q = r

MailInv ==
  /\ now \in 0..MaxTime
  /\ DOMAIN rows = Mails /\ DOMAIN attempts = Mails /\ DOMAIN accepted = Mails
  /\ DOMAIN orphans = Mails /\ DOMAIN source = Mails /\ DOMAIN req = Requests
  /\ \A m \in Mails :
       /\ RowOK(rows[m], accepted[m], orphans[m], now)
       /\ AuditOK(rows[m], attempts[m]) /\ SourceOK(rows[m], source[m])
  /\ \A r \in Requests : \/ req[r] = Idle
                         \/ /\ req[r].mail \in Mails
                            /\ RequestOK(req[r], rows[req[r].mail], accepted[req[r].mail], orphans[req[r].mail])
  /\ OneSender
  /\ projector # NULL => projector.mail \in Mails /\ ProjectorOK(projector, rows[projector.mail], source[projector.mail])
-----------------------------------------------------------------------------
\* A row goes on: its revision grows with every state it takes, and a final
\* state is kept.
Onward(old, new) ==
  old # NULL =>
    /\ new # NULL /\ old.revision <= new.revision
    /\ old.revision = new.revision \/ old.state \in Terminal => Result(new) = Result(old)

\* What was told of a row stays true of it.
LEMMA ResultKept ==
  ASSUME NEW x, NEW old, NEW new, ResultOK(x, old), Onward(old, new),
         old # NULL => old \in MailRows, new # NULL => new \in MailRows
  PROVE  ResultOK(x, new)
<1>1. CASE x = NoResult
  BY ZenonT(60), <1>1 DEF ResultOK
<1>2. CASE x # NoResult
  <2>1. /\ old # NULL /\ new # NULL /\ x \in Results /\ x.revision <= old.revision
        /\ old.revision \in Nat /\ new.revision \in Nat /\ x.revision \in Nat
        /\ old.revision <= new.revision
    BY ZenonT(60), <1>2 DEF ResultOK, Onward, MailRows, Results
  <2>2. x.revision = new.revision => x.revision = old.revision /\ old.revision = new.revision
    BY <2>1
  <2>3. x.state \in Terminal => old.state \in Terminal
    BY <1>2, <2>1 DEF ResultOK, Result
  <2> QED BY <1>2, <2>1, <2>2, <2>3 DEF ResultOK, Onward
<1> QED BY ZenonT(60), <1>1, <1>2

\* The requests of mail m that are under way keep what they rely on.
Kept(m) ==
  /\ accepted'[m] = accepted[m] /\ orphans'[m] = orphans[m]
  /\ rows'[m] # NULL /\ rows'[m].state \in {"submitting", "unknown"}

\* The records of every mail fit, and go on from what they were.
MailsOK ==
  /\ now' \in 0..MaxTime
  /\ DOMAIN rows' = Mails /\ DOMAIN attempts' = Mails /\ DOMAIN accepted' = Mails
  /\ DOMAIN orphans' = Mails /\ DOMAIN source' = Mails
  /\ \A m \in Mails :
       /\ RowOK(rows'[m], accepted'[m], orphans'[m], now')
       /\ AuditOK(rows'[m], attempts'[m]) /\ SourceOK(rows'[m], source'[m])
       /\ Onward(rows[m], rows'[m]) /\ source'[m].revision >= source[m].revision

\* The requests R move; the others keep what they rely on.
RequestsOK(R) ==
  /\ DOMAIN req' = Requests
  /\ \A q \in Requests \ R :
       req'[q] = req[q] /\ (req[q].pc \in Underway => Kept(req[q].mail))
  /\ \A q \in R :
       \/ req'[q] = Idle
       \/ /\ req'[q].mail \in Mails
          /\ RequestOK(req'[q], rows'[req'[q].mail], accepted'[req'[q].mail], orphans'[req'[q].mail])
          /\ req'[q].pc \in Underway =>
               \A p \in Requests \ {q} : req'[p].pc \in Underway => req'[p].mail # req'[q].mail

\* The revisions of results are numbers.
LEMMA ResultType ==
  ASSUME NEW x, NEW row, ResultOK(x, row)
  PROVE  x.revision \in Int /\ (x.revision = -1 \/ x \in Results)
BY DEF ResultOK, Results, NoResult

\* A request that rests keeps its result; one under way what it relies on.
LEMMA RequestKept ==
  ASSUME MailInv, MailsOK, NEW q \in Requests, req[q] # Idle, req[q].pc \in Underway => Kept(req[q].mail)
  PROVE  /\ req[q].mail \in Mails
         /\ RequestOK(req[q], rows'[req[q].mail], accepted'[req[q].mail], orphans'[req[q].mail])
<1>1. PICK m \in Mails : m = req[q].mail
  BY ZenonT(60) DEF MailInv
<1>2. RequestOK(req[q], rows[m], accepted[m], orphans[m])
  BY ZenonT(60), <1>1 DEF MailInv
<1>3. CASE SendingOK(req[q], rows[m], accepted[m], orphans[m])
  BY ZenonT(60), <1>1, <1>3 DEF SendingOK, RequestOK, Kept, Underway
<1>4. CASE ReportOK(req[q], rows[m], accepted[m], orphans[m])
  BY ZenonT(60), <1>1, <1>4 DEF ReportOK, RequestOK, Kept, Underway
<1>5. CASE ReturnedOK(req[q], rows[m])
  <2>1. rows[m] # NULL => rows[m] \in MailRows
    BY ZenonT(60) DEF MailInv, RowOK
  <2>2. (rows'[m] # NULL => rows'[m] \in MailRows) /\ Onward(rows[m], rows'[m])
    BY ZenonT(60) DEF MailsOK, RowOK
  <2>3. ResultOK(req[q].result, rows'[m])
    BY ZenonT(60), <1>5, <2>1, <2>2, ResultKept DEF ReturnedOK
  <2> QED BY ZenonT(60), <1>1, <1>5, <2>3 DEF ReturnedOK, RequestOK
<1> QED BY ZenonT(60), <1>1, <1>2, <1>3, <1>4, <1>5 DEF RequestOK

\* The projection that is under way is still one of its row.
LEMMA ProjectorKept ==
  ASSUME MailInv, MailsOK, projector # NULL
  PROVE  projector.mail \in Mails /\ ProjectorOK(projector, rows'[projector.mail], source'[projector.mail])
<1>1. PICK m \in Mails : m = projector.mail
  BY ZenonT(60) DEF MailInv
<1>2. ProjectorOK(projector, rows[m], source[m])
  BY ZenonT(60), <1>1 DEF MailInv
<1>3. (rows[m] # NULL => rows[m] \in MailRows) /\ (rows'[m] # NULL => rows'[m] \in MailRows) /\ Onward(rows[m], rows'[m])
  BY ZenonT(60) DEF MailInv, MailsOK, RowOK
<1>4. ResultOK(projector.result, rows'[m])
  BY ZenonT(60), <1>2, <1>3, ResultKept DEF ProjectorOK
<1>5. source'[m].revision >= source[m].revision /\ source'[m].revision \in Int /\ source[m].revision \in Int
  BY ZenonT(60), ResultType DEF MailInv, MailsOK, SourceOK
<1>6. projector.acked => source'[m].revision >= projector.result.revision
  BY <1>2, <1>5 DEF ProjectorOK, Results
<1> QED BY ZenonT(60), <1>1, <1>2, <1>4, <1>6 DEF ProjectorOK

\* The projection that is under way, or a new one that fits its row.
ProjectorMoves ==
  \/ projector' \in {projector, NULL}
  \/ projector'.mail \in Mails /\ ProjectorOK(projector', rows'[projector'.mail], source'[projector'.mail])

\* The frame of every step.
LEMMA MailFrame ==
  ASSUME MailInv, MailsOK, NEW R \in SUBSET Requests, RequestsOK(R), \A q, r \in R : q = r,
         ProjectorMoves
  PROVE  MailInv'
<1>1. \A q \in Requests : \/ req'[q] = Idle
                          \/ /\ req'[q].mail \in Mails
                             /\ RequestOK(req'[q], rows'[req'[q].mail], accepted'[req'[q].mail], orphans'[req'[q].mail])
  <2> SUFFICES ASSUME NEW q \in Requests, req'[q] # Idle
               PROVE  /\ req'[q].mail \in Mails
                      /\ RequestOK(req'[q], rows'[req'[q].mail], accepted'[req'[q].mail], orphans'[req'[q].mail])
    BY ZenonT(60)
  <2>1. CASE q \in R
    BY ZenonT(60), <2>1 DEF RequestsOK
  <2>2. CASE q \notin R
    <3>1. req'[q] = req[q] /\ (req[q].pc \in Underway => Kept(req[q].mail))
      BY ZenonT(60), <2>2 DEF RequestsOK
    <3> QED BY ZenonT(60), <3>1, RequestKept
  <2> QED BY ZenonT(60), <2>1, <2>2
<1>2. OneSender'
  BY DEF RequestsOK, OneSender, MailInv, Idle, Underway
<1>3. projector' # NULL =>
        projector'.mail \in Mails /\ ProjectorOK(projector', rows'[projector'.mail], source'[projector'.mail])
  BY ZenonT(60), ProjectorKept DEF ProjectorMoves
<1>4. DOMAIN req' = Requests
  BY ZenonT(60) DEF RequestsOK
<1> QED BY ZenonT(60), <1>1, <1>2, <1>3, <1>4 DEF MailInv, MailsOK

-----------------------------------------------------------------------------
(* One mail and one request.                                               *)

Underwritten == {"submitting", "unknown"}

\* No request but r is under way on mail m.
Quiet(m, r) == \A q \in Requests \ {r} : req[q].pc \in Underway => req[q].mail # m

\* A step writes the records of mail m only.
MailStep(m) ==
  /\ now' = now
  /\ DOMAIN rows' = Mails /\ DOMAIN attempts' = Mails /\ DOMAIN accepted' = Mails
  /\ DOMAIN orphans' = Mails /\ DOMAIN source' = Mails
  /\ \A n \in Mails \ {m} :
       /\ rows'[n] = rows[n] /\ attempts'[n] = attempts[n] /\ accepted'[n] = accepted[n]
       /\ orphans'[n] = orphans[n] /\ source'[n] = source[n]
  /\ RowOK(rows'[m], accepted'[m], orphans'[m], now)
  /\ AuditOK(rows'[m], attempts'[m]) /\ SourceOK(rows'[m], source'[m])
  /\ Onward(rows[m], rows'[m]) /\ source'[m].revision >= source[m].revision

\* A row goes on as it is.
LEMMA OnwardSame ==
  ASSUME MailInv, NEW m \in Mails
  PROVE  Onward(rows[m], rows[m]) /\ source[m].revision >= source[m].revision
<1>1. rows[m] # NULL => rows[m].revision \in Nat
  BY ZenonT(60) DEF MailInv, RowOK, MailRows
<1>2. source[m].revision \in Int
  BY ZenonT(60), ResultType DEF MailInv, SourceOK
<1> QED BY <1>1, <1>2 DEF Onward

\* A step that writes one mail leaves the records of the others as they fit.
LEMMA MailStepOK ==
  ASSUME MailInv, NEW m \in Mails, MailStep(m)
  PROVE  MailsOK
<1>1. now' = now /\ now \in 0..MaxTime
  BY ZenonT(60) DEF MailStep, MailInv
<1>2. ASSUME NEW n \in Mails \ {m}
      PROVE  /\ RowOK(rows'[n], accepted'[n], orphans'[n], now')
             /\ AuditOK(rows'[n], attempts'[n]) /\ SourceOK(rows'[n], source'[n])
             /\ Onward(rows[n], rows'[n]) /\ source'[n].revision >= source[n].revision
  BY ZenonT(60), <1>1, OnwardSame DEF MailStep, MailInv
<1>3. /\ RowOK(rows'[m], accepted'[m], orphans'[m], now')
      /\ AuditOK(rows'[m], attempts'[m]) /\ SourceOK(rows'[m], source'[m])
      /\ Onward(rows[m], rows'[m]) /\ source'[m].revision >= source[m].revision
  BY ZenonT(60), <1>1 DEF MailStep
<1> QED BY ZenonT(60), <1>1, <1>2, <1>3 DEF MailStep, MailsOK

\* A request under way has its delivery claimed.
LEMMA UnderwayRow ==
  ASSUME MailInv, NEW q \in Requests, req[q].pc \in Underway
  PROVE  /\ req[q].mail \in Mails /\ rows[req[q].mail] # NULL
         /\ rows[req[q].mail].state \in Underwritten
         /\ \/ SendingOK(req[q], rows[req[q].mail], accepted[req[q].mail], orphans[req[q].mail])
            \/ ReportOK(req[q], rows[req[q].mail], accepted[req[q].mail], orphans[req[q].mail])
<1>1. req[q] # Idle
  BY DEF Idle, Underway
<1>2. req[q].mail \in Mails /\ RequestOK(req[q], rows[req[q].mail], accepted[req[q].mail], orphans[req[q].mail])
  BY ZenonT(60), <1>1 DEF MailInv
<1>3. ~ReturnedOK(req[q], rows[req[q].mail])
  BY ZenonT(60) DEF ReturnedOK, Underway
<1> QED BY ZenonT(60), <1>2, <1>3 DEF RequestOK, SendingOK, ReportOK, Underwritten

\* Nobody is under way on a delivery that is not claimed.
LEMMA QuietRow ==
  ASSUME MailInv, NEW m \in Mails, rows[m] = NULL \/ rows[m].state \notin Underwritten, NEW r \in Requests
  PROVE  Quiet(m, r)
BY ZenonT(60), UnderwayRow DEF Quiet

\* The request that is under way on a mail is the only one.
LEMMA SenderAlone ==
  ASSUME MailInv, NEW r \in Requests, req[r].pc \in Underway
  PROVE  Quiet(req[r].mail, r)
BY ZenonT(60) DEF MailInv, OneSender, Quiet

\* The frame of a step of request r on mail m.
LEMMA WriteOK ==
  ASSUME MailInv, NEW r \in Requests, NEW m \in Mails, MailStep(m), NEW o, req' = [req EXCEPT ![r] = o],
         Quiet(m, r) \/ Kept(m),
         \/ o = Idle
         \/ /\ o.mail = m /\ RequestOK(o, rows'[m], accepted'[m], orphans'[m])
            /\ o.pc \in Underway => Quiet(m, r),
         projector' \in {projector, NULL}
  PROVE  MailInv'
<1>1. MailsOK
  BY ZenonT(60), MailStepOK
<1>2. DOMAIN req' = Requests /\ req'[r] = o /\ \A q \in Requests \ {r} : req'[q] = req[q]
  BY ZenonT(60) DEF MailInv
<1>3. ASSUME NEW q \in Requests \ {r}, req[q].pc \in Underway PROVE Kept(req[q].mail)
  <2>1. CASE req[q].mail = m
    BY ZenonT(60), <1>3, <2>1 DEF Quiet
  <2>2. CASE req[q].mail # m
    BY ZenonT(60), <1>3, <2>2, UnderwayRow DEF MailStep, Kept, Underwritten
  <2> QED BY ZenonT(60), <2>1, <2>2
<1>4. RequestsOK({r})
  BY <1>2, <1>3 DEF RequestsOK, Quiet
<1> QED BY ZenonT(60), <1>1, <1>4, MailFrame DEF ProjectorMoves

\* The same for a step that no request takes.
LEMMA WriteAloneOK ==
  ASSUME MailInv, NEW m \in Mails, MailStep(m), UNCHANGED req,
         (\A q \in Requests : req[q].pc \in Underway => req[q].mail # m) \/ Kept(m),
         ProjectorMoves
  PROVE  MailInv'
<1>1. MailsOK
  BY ZenonT(60), MailStepOK
<1>2. ASSUME NEW q \in Requests, req[q].pc \in Underway PROVE Kept(req[q].mail)
  <2>1. CASE req[q].mail = m
    BY ZenonT(60), <1>2, <2>1
  <2>2. CASE req[q].mail # m
    BY ZenonT(60), <1>2, <2>2, UnderwayRow DEF MailStep, Kept, Underwritten
  <2> QED BY ZenonT(60), <2>1, <2>2
<1>3. RequestsOK({})
  BY ZenonT(60), <1>2 DEF RequestsOK, MailInv
<1> QED BY ZenonT(60), <1>1, <1>3, MailFrame

-----------------------------------------------------------------------------
(* The rows a step writes.                                                 *)

\* The delay a delivery is put off by is a number.
LEMMA LaterType ==
  ASSUME now \in 0..MaxTime, NEW d \in Nat
  PROVE  Later(d) \in Nat
BY MailAssumption DEF Later

\* A row is not the absence of one.
LEMMA RowIsNotNull ==
  ASSUME NEW row \in MailRows
  PROVE  row # NULL
BY MailAssumption, Zenon

\* What saveDelivery writes: the next revision, pending once it is final.
LEMMA SavedFacts ==
  ASSUME NEW row \in MailRows, NEW state \in MailStates, NEW next \in Nat
  PROVE  /\ Saved(row, state, next) \in MailRows /\ Saved(row, state, next) # NULL
         /\ Saved(row, state, next).state = state
         /\ Saved(row, state, next).revision = row.revision + 1
         /\ Saved(row, state, next).attempt = row.attempt
         /\ Saved(row, state, next).started = row.started
         /\ state \in Terminal => Saved(row, state, next).pending
<1>1. Saved(row, state, next) \in MailRows
  <2>1. row.revision + 1 \in Nat /\ 0 \in Nat
    BY DEF MailRows
  <2>2. (state \in Terminal) \in BOOLEAN
    BY SMT
  <2>3. \A b \in BOOLEAN, n \in Nat :
          [row EXCEPT !.state = state, !.revision = n, !.next = next, !.pending = b, !.projectAt = 0] \in MailRows
    BY ZenonT(60), <2>1 DEF MailRows
  <2> QED BY <2>1, <2>2, <2>3, Zenon DEF Saved
<1>2. Saved(row, state, next) # NULL
  BY ZenonT(60), <1>1, RowIsNotNull
<1>3. /\ Saved(row, state, next).state = state
      /\ Saved(row, state, next).revision = row.revision + 1
      /\ Saved(row, state, next).attempt = row.attempt
      /\ Saved(row, state, next).started = row.started
  BY ZenonT(60) DEF Saved, MailRows
<1>4. state \in Terminal => Saved(row, state, next).pending
  BY ZenonT(60) DEF Saved, MailRows
<1> QED BY ZenonT(60), <1>1, <1>2, <1>3, <1>4

\* What the claim writes: the next attempt, started now.
LEMMA ClaimedFacts ==
  ASSUME NEW row \in MailRows, now \in 0..MaxTime
  PROVE  /\ Claimed(row) \in MailRows /\ Claimed(row) # NULL
         /\ Claimed(row).state = "submitting"
         /\ Claimed(row).revision = row.revision + 1
         /\ Claimed(row).attempt = row.attempt + 1
         /\ Claimed(row).started = now
<1>1. Claimed(row) \in MailRows
  <2>1. now \in Nat /\ row.revision + 1 \in Nat /\ row.attempt + 1 \in Nat
    BY MailAssumption DEF MailRows
  <2>2. "submitting" \in MailStates
    BY ZenonT(60) DEF MailStates
  <2> QED BY ZenonT(60), <2>1, <2>2 DEF Claimed, MailRows
<1>2. Claimed(row) # NULL
  BY ZenonT(60), <1>1, RowIsNotNull
<1>3. /\ Claimed(row).state = "submitting"
      /\ Claimed(row).revision = row.revision + 1
      /\ Claimed(row).attempt = row.attempt + 1
      /\ Claimed(row).started = now
  BY ZenonT(60) DEF Claimed, MailRows
<1> QED BY ZenonT(60), <1>1, <1>2, <1>3

\* The row Deliver inserts for a delivery it has not seen.
LEMMA NewFacts ==
  ASSUME NEW p \in Mailings
  PROVE  /\ NewDelivery(p) \in MailRows /\ NewDelivery(p) # NULL
         /\ NewDelivery(p).state = "prepared" /\ NewDelivery(p).attempt = 0
         /\ NewDelivery(p).started = 0 /\ NewDelivery(p).revision = 0
<1>1. NewDelivery(p) \in MailRows
  BY ZenonT(60) DEF NewDelivery, MailRows, MailStates, Unsettled
<1> QED BY ZenonT(60), <1>1, MailAssumption DEF NewDelivery

\* What is told of a row is what it says.
LEMMA ResultFacts ==
  ASSUME NEW row \in MailRows
  PROVE  Result(row) \in Results /\ ResultOK(Result(row), row)
<1>1. Result(row) \in Results
  BY ZenonT(60) DEF Result, Results, MailRows
<1> QED BY <1>1, MailAssumption DEF ResultOK, Result, MailRows, Results

\* A delivery that is on its way goes on to its next revision.
LEMMA RaisedOnward ==
  ASSUME NEW old \in MailRows, NEW new \in MailRows, old.state \notin Terminal,
         new.revision = old.revision + 1
  PROVE  Onward(old, new)
<1>1. new # NULL /\ old.revision \in Nat
  BY ZenonT(60), MailAssumption DEF MailRows
<1> QED BY <1>1 DEF Onward

\* What PHP holds stays behind a row that goes on.
LEMMA RaisedSource ==
  ASSUME NEW old \in MailRows, NEW new \in MailRows, NEW s, SourceOK(old, s), old.state \notin Terminal,
         new.revision = old.revision + 1, new.state \in Terminal => new.pending
  PROVE  SourceOK(new, s)
<1>1. ResultOK(s, new)
  BY ZenonT(60), RaisedOnward, ResultKept DEF SourceOK
<1> QED BY ZenonT(60), <1>1 DEF SourceOK

\* The audit: an attempt opens, it ends, and a rest is settled without one.
LEMMA AuditOpened ==
  ASSUME NEW old \in MailRows, NEW new \in MailRows, NEW log, AuditOK(old, log),
         old.state \in Unsettled, old.state = "prepared" => old.attempt = 0,
         new.state = "submitting", new.attempt = old.attempt + 1
  PROVE  AuditOK(new, Append(log, "submitting"))
<1>1. old # NULL /\ new # NULL /\ old.attempt \in Nat
  BY ZenonT(60), MailAssumption DEF MailRows
<1>2. log \in Seq(Entries) /\ "submitting" \in Entries /\ Len(log) = old.attempt
  BY ZenonT(60), <1>1 DEF AuditOK, Entries
<1>3. \A k \in 1..Len(log) : log[k] = "retry_wait"
  BY <1>1, <1>2 DEF AuditOK, Unsettled
<1>4. /\ Append(log, "submitting") \in Seq(Entries) /\ Len(Append(log, "submitting")) = Len(log) + 1
      /\ Append(log, "submitting")[Len(log) + 1] = "submitting"
      /\ \A k \in 1..Len(log) : Append(log, "submitting")[k] = log[k]
  BY <1>2
<1>5. \A k \in 1..Len(log) + 1 : k = Len(log) + 1 \/ (k \in 1..Len(log) /\ k # Len(log) + 1)
  BY <1>1, <1>2
<1> QED BY ZenonT(60), <1>1, <1>2, <1>3, <1>4, <1>5 DEF AuditOK

\* SendOutcome closes the attempt that is open.
LEMMA AuditEnded ==
  ASSUME NEW old \in MailRows, NEW new \in MailRows, NEW log, AuditOK(old, log),
         new.attempt = old.attempt, new.state \in Entries
  PROVE  AuditOK(new, SendOutcome(log, old.attempt, new.state))
<1>1. old # NULL /\ new # NULL /\ old.attempt \in Nat
  BY ZenonT(60), MailAssumption DEF MailRows
<1>2. log \in Seq(Entries) /\ Len(log) = old.attempt /\ DOMAIN log = 1..Len(log) /\ Len(log) \in Nat
  BY <1>1 DEF AuditOK
<1>3. \A k \in 1..Len(log) : k # old.attempt => log[k] = "retry_wait"
  BY ZenonT(60), <1>1, <1>2 DEF AuditOK
<1> DEFINE new_log == SendOutcome(log, old.attempt, new.state)
<1>4. new_log \in Seq(Entries) /\ Len(new_log) = Len(log)
  <2>1. CASE old.attempt \in 1..Len(log)
    BY <1>2, <2>1 DEF SendOutcome
  <2>2. CASE old.attempt \notin 1..Len(log)
    <3>1. new_log = log
      BY <1>2, <2>2 DEF SendOutcome
    <3> QED BY ZenonT(60), <1>2, <3>1
  <2> QED BY ZenonT(60), <2>1, <2>2
<1>5. \A k \in 1..Len(log) : new_log[k] = IF k = old.attempt THEN new.state ELSE log[k]
  BY ZenonT(60), <1>2 DEF SendOutcome
<1>6. new.state \notin {"cancelled", "expired"}
  BY ZenonT(60) DEF Entries
<1> QED BY ZenonT(60), <1>1, <1>2, <1>3, <1>4, <1>5, <1>6 DEF AuditOK

\* A delivery that rests between attempts is settled without a new one.
LEMMA AuditSettled ==
  ASSUME NEW old \in MailRows, NEW new \in MailRows, NEW log, AuditOK(old, log),
         old.state \in Unsettled, old.state = "prepared" => old.attempt = 0,
         new.attempt = old.attempt, new.state \in {"cancelled", "expired"}
  PROVE  AuditOK(new, log)
<1>1. old # NULL /\ new # NULL /\ old.attempt \in Nat
  BY ZenonT(60), MailAssumption DEF MailRows
<1>2. log \in Seq(Entries) /\ Len(log) = old.attempt
  BY ZenonT(60), <1>1 DEF AuditOK
<1>3. \A k \in 1..Len(log) : log[k] = "retry_wait"
  BY <1>1, <1>2 DEF AuditOK, Unsettled
<1> QED BY ZenonT(60), <1>1, <1>2, <1>3 DEF AuditOK

-----------------------------------------------------------------------------
(* The transactions of the ledger.                                         *)

\* The audit of mail m becomes log.
LogIs(m, log) ==
  DOMAIN attempts' = Mails /\ attempts'[m] = log /\ \A n \in Mails \ {m} : attempts'[n] = attempts[n]

\* A step of the ledger alone: the rows and the audit of mail m change.
LEMMA LedgerStep ==
  ASSUME MailInv, NEW m \in Mails, NEW new, NEW log,
         rows' = [rows EXCEPT ![m] = new], LogIs(m, log),
         UNCHANGED <<now, accepted, orphans, source>>,
         RowOK(new, accepted[m], orphans[m], now), AuditOK(new, log), SourceOK(new, source[m]),
         Onward(rows[m], new)
  PROVE  MailStep(m)
<1>1. /\ DOMAIN rows' = Mails /\ DOMAIN attempts' = Mails /\ DOMAIN accepted' = Mails
      /\ DOMAIN orphans' = Mails /\ DOMAIN source' = Mails
  BY ZenonT(60) DEF MailInv, LogIs
<1>2. rows'[m] = new /\ attempts'[m] = log
  BY ZenonT(60) DEF MailInv, LogIs
<1>3. \A n \in Mails \ {m} : rows'[n] = rows[n] /\ attempts'[n] = attempts[n]
  BY ZenonT(60) DEF MailInv, LogIs
<1>4. source'[m].revision >= source[m].revision
  BY ZenonT(60), OnwardSame
<1> QED BY ZenonT(60), <1>1, <1>2, <1>3, <1>4 DEF MailStep

\* The row as the transaction finds or creates it.
BaseRow(m, p) == IF rows[m] = NULL THEN NewDelivery(p) ELSE rows[m]

\* The row Deliver works on, found or inserted, fits the rest.
LEMMA BaseFacts ==
  ASSUME MailInv, NEW m \in Mails, NEW p \in Mailings
  PROVE  /\ BaseRow(m, p) \in MailRows
         /\ RowOK(BaseRow(m, p), accepted[m], orphans[m], now)
         /\ AuditOK(BaseRow(m, p), attempts[m]) /\ SourceOK(BaseRow(m, p), source[m])
         /\ Onward(rows[m], BaseRow(m, p))
         /\ BaseRow(m, p).state \notin Underwritten => rows[m] = NULL \/ rows[m].state \notin Underwritten
<1>1. CASE rows[m] # NULL
  <2>1. BaseRow(m, p) = rows[m]
    BY ZenonT(60), <1>1 DEF BaseRow
  <2>2. rows[m] \in MailRows
    BY ZenonT(60), <1>1 DEF MailInv, RowOK
  <2> QED BY ZenonT(60), <2>1, <2>2, OnwardSame DEF MailInv
<1>2. CASE rows[m] = NULL
  <2>1. BaseRow(m, p) = NewDelivery(p)
    BY ZenonT(60), <1>2 DEF BaseRow
  <2>2. accepted[m] = 0 /\ orphans[m] = 0 /\ now \in Nat
    BY <1>2, MailAssumption DEF MailInv, RowOK
  <2>3. attempts[m] = <<>> /\ source[m] = NoResult
    BY ZenonT(60), <1>2 DEF MailInv, AuditOK, SourceOK, ResultOK
  <2>4. RowOK(NewDelivery(p), 0, 0, now)
    BY <2>2, NewFacts, MailAssumption DEF RowOK
  <2>5. AuditOK(NewDelivery(p), <<>>)
    BY NewFacts DEF AuditOK
  <2>6. SourceOK(NewDelivery(p), NoResult)
    BY ZenonT(60), NewFacts DEF SourceOK, ResultOK, Terminal
  <2> QED BY ZenonT(60), <1>2, <2>1, <2>2, <2>3, <2>4, <2>5, <2>6, NewFacts DEF Onward
<1> QED BY ZenonT(60), <1>1, <1>2

\* What the caller goes on with.
LEMMA AnswerFacts ==
  ASSUME NEW r \in Requests, NEW m \in Mails, NEW row \in MailRows, NEW client \in Origins,
         NEW a, NEW o, Answer(r, m, row, client)
  PROVE  \E q : /\ req' = [req EXCEPT ![r] = q]
                /\ q = Idle \/ (q.mail = m /\ RequestOK(q, row, a, o) /\ q.pc \notin Underway)
<1> DEFINE q == [pc |-> "returned", mail |-> m, client |-> client, result |-> Result(row)]
<1>1. CASE client = "http"
  BY ZenonT(60), <1>1 DEF Answer
<1>2. CASE client # "http"
  <2>1. req' = [req EXCEPT ![r] = q]
    BY ZenonT(60), <1>2 DEF Answer
  <2>2. ReturnedOK(q, row)
    BY ZenonT(60), ResultFacts DEF ReturnedOK
  <2>3. q.mail = m /\ q.pc \notin Underway
    BY ZenonT(60) DEF Underway
  <2> QED BY ZenonT(60), <2>1, <2>2, <2>3 DEF RequestOK
<1> QED BY ZenonT(60), <1>1, <1>2

\* A submission that nobody answered for is given up as unknown.
LEMMA AbandonedRow ==
  ASSUME NEW row \in MailRows, row.state = "submitting", NEW a, NEW o, NEW t, RowOK(row, a, o, t),
         NEW log, AuditOK(row, log), NEW s, SourceOK(row, s)
  PROVE  LET new == Saved(row, "unknown", 0)
         IN  /\ new \in MailRows /\ new.state = "unknown" /\ RowOK(new, a, o, t)
             /\ AuditOK(new, SendOutcome(log, row.attempt, "unknown"))
             /\ SourceOK(new, s) /\ Onward(row, new)
<1> DEFINE new == Saved(row, "unknown", 0)
<1>1. /\ new \in MailRows /\ new # NULL /\ new.state = "unknown" /\ new.revision = row.revision + 1
      /\ new.attempt = row.attempt /\ new.started = row.started /\ new.pending
  BY SavedFacts DEF MailStates, Terminal
<1>2. row # NULL /\ row.state \notin Terminal
  BY ZenonT(60), RowIsNotNull DEF Terminal
<1> HIDE DEF new
<1>3. RowOK(new, a, o, t)
  BY ZenonT(60), <1>1, <1>2 DEF RowOK, Unsettled
<1>4. AuditOK(new, SendOutcome(log, row.attempt, "unknown"))
  BY ZenonT(60), <1>1, AuditEnded DEF Entries
<1>5. SourceOK(new, s) /\ Onward(row, new)
  BY ZenonT(60), <1>1, <1>2, RaisedSource, RaisedOnward
<1> QED BY ZenonT(60), <1>1, <1>3, <1>4, <1>5 DEF new

\* A delivery that waits is settled without a call.
LEMMA SettledRow ==
  ASSUME NEW row \in MailRows, row.state \in Unsettled, NEW state \in {"cancelled", "expired"},
         NEW a, NEW o, NEW t, RowOK(row, a, o, t),
         NEW log, AuditOK(row, log), NEW s, SourceOK(row, s)
  PROVE  LET new == Saved(row, state, 0)
         IN  /\ new \in MailRows /\ new.state = state /\ RowOK(new, a, o, t)
             /\ AuditOK(new, log) /\ SourceOK(new, s) /\ Onward(row, new)
<1> DEFINE new == Saved(row, state, 0)
<1>1. state \in MailStates /\ state \in Terminal
  BY ZenonT(60) DEF MailStates, Terminal
<1>2. /\ new \in MailRows /\ new # NULL /\ new.state = state /\ new.revision = row.revision + 1
      /\ new.attempt = row.attempt /\ new.started = row.started /\ new.pending
  BY <1>1, SavedFacts
<1>3. row # NULL /\ row.state \notin Terminal
  BY ZenonT(60), RowIsNotNull DEF Terminal, Unsettled
<1> HIDE DEF new
<1>4. RowOK(new, a, o, t)
  BY ZenonT(60), <1>2, <1>3 DEF RowOK, Unsettled
<1>5. AuditOK(new, log)
  BY ZenonT(60), <1>2, <1>3, AuditSettled DEF RowOK
<1>6. SourceOK(new, s) /\ Onward(row, new)
  BY ZenonT(60), <1>2, <1>3, RaisedSource, RaisedOnward
<1> QED BY ZenonT(60), <1>2, <1>4, <1>5, <1>6 DEF new

\* The claim of an attempt.
LEMMA ClaimedRow ==
  ASSUME now \in 0..MaxTime, NEW row \in MailRows, row.state \in Unsettled,
         NEW a, NEW o, RowOK(row, a, o, now),
         NEW log, AuditOK(row, log), NEW s, SourceOK(row, s)
  PROVE  /\ RowOK(Claimed(row), a, o, now) /\ AuditOK(Claimed(row), Append(log, "submitting"))
         /\ SourceOK(Claimed(row), s) /\ Onward(row, Claimed(row))
         /\ a = 0 /\ o = 0
<1> DEFINE new == Claimed(row)
<1>1. /\ new \in MailRows /\ new # NULL /\ new.state = "submitting" /\ new.revision = row.revision + 1
      /\ new.attempt = row.attempt + 1 /\ new.started = now
  BY ZenonT(60), ClaimedFacts
<1>2. row # NULL /\ row.state \notin Terminal /\ row.attempt \in Nat
  BY ZenonT(60), RowIsNotNull DEF Terminal, Unsettled, MailRows
<1> HIDE DEF new
<1>3. a = 0 /\ o = 0 /\ row.attempt < MaxAttempts /\ now \in Int
  BY <1>2, MailAssumption DEF RowOK, Unsettled
<1>4. RowOK(new, a, o, now)
  BY <1>1, <1>2, <1>3, MailAssumption DEF RowOK, Unsettled
<1>5. AuditOK(new, Append(log, "submitting"))
  BY ZenonT(60), <1>1, <1>2, AuditOpened DEF RowOK
<1>6. SourceOK(new, s) /\ Onward(row, new)
  BY ZenonT(60), <1>1, <1>2, RaisedSource, RaisedOnward DEF Terminal
<1> QED BY ZenonT(60), <1>3, <1>4, <1>5, <1>6 DEF new

\* Going on from the row Deliver works on is going on from what was there.
LEMMA OnwardFromBase ==
  ASSUME MailInv, NEW m \in Mails, NEW p \in Mailings, NEW new, Onward(BaseRow(m, p), new)
  PROVE  Onward(rows[m], new)
BY ZenonT(60) DEF BaseRow, Onward

\* A transaction that answers its caller.
LEMMA AnswerOK ==
  ASSUME MailInv, NEW r \in Requests, NEW m \in Mails, NEW new \in MailRows, NEW log, NEW client \in Origins,
         rows' = [rows EXCEPT ![m] = new], LogIs(m, log),
         UNCHANGED <<now, accepted, orphans, source, projector>>, Answer(r, m, new, client),
         RowOK(new, accepted[m], orphans[m], now), AuditOK(new, log), SourceOK(new, source[m]),
         Onward(rows[m], new), new.state \in Underwritten \/ Quiet(m, r)
  PROVE  MailInv'
<1>1. MailStep(m)
  BY ZenonT(60), LedgerStep
<1>2. rows'[m] = new /\ new # NULL
  BY ZenonT(60), RowIsNotNull DEF MailInv
<1>3. Quiet(m, r) \/ Kept(m)
  BY ZenonT(60), <1>2 DEF Kept, Underwritten
<1>4. PICK q : /\ req' = [req EXCEPT ![r] = q]
               /\ q = Idle \/ (q.mail = m /\ RequestOK(q, new, accepted[m], orphans[m]) /\ q.pc \notin Underway)
  BY ZenonT(60), AnswerFacts
<1>5. projector' \in {projector, NULL}
  BY ZenonT(60)
<1> QED BY ZenonT(60), <1>1, <1>2, <1>3, <1>4, <1>5, WriteOK

\* A step that leaves every record as it is.
LEMMA StillStep ==
  ASSUME MailInv, NEW m \in Mails, UNCHANGED <<now, rows, attempts, accepted, orphans, source>>
  PROVE  MailStep(m)
<1>1. /\ RowOK(rows[m], accepted[m], orphans[m], now)
      /\ AuditOK(rows[m], attempts[m]) /\ SourceOK(rows[m], source[m])
  BY ZenonT(60) DEF MailInv
<1> QED BY ZenonT(60), <1>1, OnwardSame DEF MailStep, MailInv

\* A request gives up and leaves every record as it is.
LEMMA RestOK ==
  ASSUME MailInv, NEW r \in Requests, NEW m \in Mails, req' = [req EXCEPT ![r] = Idle],
         UNCHANGED <<now, rows, attempts, accepted, orphans, source, projector>>
  PROVE  MailInv'
<1>1. MailStep(m)
  BY ZenonT(60), StillStep
<1>2. Quiet(m, r) \/ Kept(m)
  <2> SUFFICES ASSUME NEW q \in Requests \ {r}, req[q].pc \in Underway, req[q].mail = m
               PROVE  Kept(m)
    BY ZenonT(60) DEF Quiet
  <2> QED BY ZenonT(60), UnderwayRow DEF Kept, Underwritten
<1> QED BY ZenonT(60), <1>1, <1>2, WriteOK

\* The first transaction of Deliver, in each of its cases.
LEMMA DeliverOK ==
  ASSUME MailInv, NEW r \in Requests, NEW m \in Mails, NEW p \in Mailings, NEW allow \in BOOLEAN,
         NEW client \in Origins, req[r].pc \notin Underway, Deliver(r, m, p, allow, client)
  PROVE  MailInv'
<1> DEFINE row == BaseRow(m, p)
<1>0. UNCHANGED <<now, accepted, orphans, source, projector>>
  BY ZenonT(60) DEF Deliver
<1>1. /\ row \in MailRows /\ RowOK(row, accepted[m], orphans[m], now)
      /\ AuditOK(row, attempts[m]) /\ SourceOK(row, source[m]) /\ Onward(rows[m], row)
      /\ row.state \notin Underwritten => Quiet(m, r)
      /\ now \in 0..MaxTime /\ DOMAIN attempts = Mails
  BY ZenonT(60), BaseFacts, QuietRow DEF MailInv
<1>2. CASE req' = [req EXCEPT ![r] = Idle] /\ UNCHANGED <<rows, attempts>>
  BY ZenonT(60), <1>0, <1>2, RestOK
<1>3. CASE PutDelivery(m, row) /\ Answer(r, m, row, client) /\ UNCHANGED attempts
  <2>1. rows' = [rows EXCEPT ![m] = row] /\ LogIs(m, attempts[m])
    BY ZenonT(60), <1>1, <1>3 DEF PutDelivery, LogIs
  <2> HIDE DEF row
  <2> QED BY ZenonT(60), <1>0, <1>1, <1>3, <2>1, AnswerOK
<1>4. CASE /\ row.state = "submitting"
           /\ PutDelivery(m, Saved(row, "unknown", 0)) /\ Answer(r, m, Saved(row, "unknown", 0), client)
           /\ attempts' = [attempts EXCEPT ![m] = SendOutcome(@, row.attempt, "unknown")]
  <2> DEFINE new == Saved(row, "unknown", 0)
  <2>1. /\ rows' = [rows EXCEPT ![m] = new]
        /\ LogIs(m, SendOutcome(attempts[m], row.attempt, "unknown"))
    BY ZenonT(60), <1>1, <1>4 DEF PutDelivery, LogIs
  <2>2. /\ new \in MailRows /\ new.state = "unknown" /\ RowOK(new, accepted[m], orphans[m], now)
        /\ AuditOK(new, SendOutcome(attempts[m], row.attempt, "unknown"))
        /\ SourceOK(new, source[m]) /\ Onward(row, new)
    <3> HIDE DEF row
    <3> QED BY ZenonT(60), <1>1, <1>4, AbandonedRow
  <2>3. Onward(rows[m], new) /\ new.state \in Underwritten
    BY ZenonT(60), <2>2, OnwardFromBase DEF Underwritten
  <2>4. Answer(r, m, new, client)
    BY ZenonT(60), <1>4
  <2> HIDE DEF new, row
  <2> QED BY ZenonT(60), <1>0, <2>1, <2>2, <2>3, <2>4, AnswerOK
<1>5. CASE /\ row.state \in Unsettled
           /\ PutDelivery(m, Saved(row, "expired", 0)) /\ Answer(r, m, Saved(row, "expired", 0), client)
           /\ UNCHANGED attempts
  <2> DEFINE new == Saved(row, "expired", 0)
  <2>1. rows' = [rows EXCEPT ![m] = new] /\ LogIs(m, attempts[m])
    BY ZenonT(60), <1>1, <1>5 DEF PutDelivery, LogIs
  <2>2. /\ new \in MailRows /\ RowOK(new, accepted[m], orphans[m], now)
        /\ AuditOK(new, attempts[m]) /\ SourceOK(new, source[m]) /\ Onward(row, new)
    <3> HIDE DEF row
    <3> QED BY ZenonT(60), <1>1, <1>5, SettledRow
  <2>3. Onward(rows[m], new) /\ Quiet(m, r)
    BY ZenonT(60), <1>1, <1>5, <2>2, OnwardFromBase DEF Underwritten, Unsettled
  <2>4. Answer(r, m, new, client)
    BY ZenonT(60), <1>5
  <2> HIDE DEF new, row
  <2> QED BY ZenonT(60), <1>0, <2>1, <2>2, <2>3, <2>4, AnswerOK
<1>6. CASE /\ row.state \in Unsettled /\ PutDelivery(m, Claimed(row))
           /\ attempts' = [attempts EXCEPT ![m] = Append(@, "submitting")]
           /\ \E lost \in BOOLEAN :
                req' = [req EXCEPT ![r] = IF lost THEN Idle
                          ELSE [pc |-> "sending", mail |-> m, client |-> client,
                                attempt |-> row.attempt + 1, i |-> 1, try |-> 0, taken |-> FALSE]]
  <2> DEFINE new == Claimed(row)
             q == [pc |-> "sending", mail |-> m, client |-> client,
                   attempt |-> row.attempt + 1, i |-> 1, try |-> 0, taken |-> FALSE]
  <2>1. /\ rows' = [rows EXCEPT ![m] = new]
        /\ LogIs(m, Append(attempts[m], "submitting"))
    BY ZenonT(60), <1>1, <1>6 DEF PutDelivery, LogIs
  <2>2. PICK o \in {Idle, q} : req' = [req EXCEPT ![r] = o]
    BY ZenonT(60), <1>6
  <2>3. /\ RowOK(new, accepted[m], orphans[m], now) /\ AuditOK(new, Append(attempts[m], "submitting"))
        /\ SourceOK(new, source[m]) /\ Onward(row, new) /\ accepted[m] = 0 /\ orphans[m] = 0
        /\ new # NULL /\ new.state = "submitting" /\ row.attempt \in Nat
    <3> HIDE DEF row
    <3>1. row.attempt \in Nat
      BY ZenonT(60), <1>1 DEF MailRows
    <3> QED BY <1>1, <1>6, <3>1, ClaimedRow, ClaimedFacts
  <2>4. Onward(rows[m], new) /\ Quiet(m, r)
    BY ZenonT(60), <1>1, <1>6, <2>3, OnwardFromBase DEF Underwritten, Unsettled
  <2>5. SendingOK(q, new, accepted[m], orphans[m]) /\ q.mail = m
    BY <2>3 DEF SendingOK
  <2> HIDE DEF new, row, q
  <2>6. MailStep(m)
    BY ZenonT(60), <1>0, <2>1, <2>3, <2>4, LedgerStep
  <2>7. rows'[m] = new /\ accepted'[m] = accepted[m] /\ orphans'[m] = orphans[m]
    BY ZenonT(60), <1>0, <2>1 DEF MailInv
  <2>8. o = Idle \/ (o.mail = m /\ RequestOK(o, rows'[m], accepted'[m], orphans'[m]))
    BY ZenonT(60), <2>2, <2>5, <2>7 DEF RequestOK
  <2> QED BY ZenonT(60), <1>0, <2>2, <2>4, <2>6, <2>8, WriteOK
<1> QED BY ZenonT(60), <1>2, <1>3, <1>4, <1>5, <1>6 DEF Deliver, BaseRow

-----------------------------------------------------------------------------
(* The send loop.                                                          *)

\* What the error of a call may prove: a retryable or a permanent one that the
\* provider did not take the message, no error that it did.
ProvenEnds ==
  {Ends(FALSE, "retry", FALSE), Ends(FALSE, "permanent", FALSE), Ends(TRUE, "ok", FALSE),
   Ends(TRUE, "unknown", FALSE), Ends(FALSE, "unknown", TRUE), Ends(FALSE, "unknown", FALSE)}

\* Whatever an adapter reports of a call, an acceptance it proves was one, and a
\* refusal it proves left nothing behind.
LEMMA EndsProven ==
  ASSUME NEW kind, NEW end \in AdapterSend(kind)
  PROVE  end \in ProvenEnds
<1>1. \A taken \in BOOLEAN : Ends(taken, "unknown", ~taken) \in ProvenEnds
  BY ZenonT(60) DEF ProvenEnds
<1>2. /\ classifyProviderStatus("401") = "retry" /\ classifyProviderStatus("429") = "retry"
      /\ classifyProviderStatus("4xx") = "permanent" /\ classifyProviderStatus("5xx") = "unknown"
  BY ZenonT(60) DEF classifyProviderStatus
<1>3. callProvider \subseteq ProvenEnds
  BY <1>1, <1>2, Zenon DEF callProvider, ProvenEnds
<1>4. mailgunSend \subseteq ProvenEnds /\ sesSend \subseteq ProvenEnds /\ sendGridSend \subseteq ProvenEnds
  BY <1>3, Zenon DEF mailgunSend, sesSend, sendGridSend, ProvenEnds
<1>5. postmarkSend \subseteq ProvenEnds
  BY <1>4, Zenon DEF postmarkSend, ProvenEnds
<1>6. classifySMTPError("no reply") = "retry" /\ classifySMTPError("4yz") = "retry" /\ classifySMTPError("5yz") = "permanent"
  BY ZenonT(60) DEF classifySMTPError
<1>7. smtpSend \subseteq ProvenEnds
  BY <1>1, <1>6, Zenon DEF smtpSend, ProvenEnds
<1>8. sendmailSend \subseteq ProvenEnds
  BY <1>1, Zenon DEF sendmailSend, ProvenEnds
<1>9. \/ AdapterSend(kind) \in {mailgunSend, postmarkSend, sesSend, sendGridSend, smtpSend, sendmailSend}
      \/ AdapterSend(kind) = {}
  BY ZenonT(60) DEF AdapterSend
<1> QED BY ZenonT(60), <1>4, <1>5, <1>7, <1>8, <1>9

\* What the providers did with mail m becomes a and o.
TallyIs(m, a, o) ==
  /\ a \in Nat /\ o \in Nat /\ a + o <= 1
  /\ DOMAIN accepted' = Mails /\ DOMAIN orphans' = Mails
  /\ accepted'[m] = a /\ orphans'[m] = o
  /\ \A n \in Mails \ {m} : accepted'[n] = accepted[n] /\ orphans'[n] = orphans[n]

\* A step of the request that is under way on mail m.
LEMMA SenderOK ==
  ASSUME MailInv, NEW r \in Requests, req[r].pc \in Underway, NEW m \in Mails, m = req[r].mail,
         NEW a, NEW o, TallyIs(m, a, o), NEW q, req' = [req EXCEPT ![r] = q],
         UNCHANGED <<now, rows, attempts, source, projector>>,
         q = Idle \/ (q.mail = m /\ RequestOK(q, rows[m], a, o))
  PROVE  MailInv'
<1>1. rows[m] # NULL /\ rows[m].state \in Underwritten
  BY ZenonT(60), UnderwayRow
<1>2. RowOK(rows[m], a, o, now)
  BY ZenonT(60), <1>1 DEF MailInv, RowOK, Underwritten, Unsettled, TallyIs
<1>3. MailStep(m)
  BY ZenonT(60), <1>2, OnwardSame DEF MailStep, MailInv, TallyIs
<1>4. Quiet(m, r)
  BY ZenonT(60), SenderAlone
<1>5. q = Idle \/ (q.mail = m /\ RequestOK(q, rows'[m], accepted'[m], orphans'[m]))
  BY ZenonT(60) DEF TallyIs
<1> QED BY ZenonT(60), <1>3, <1>4, <1>5, WriteOK

\* Where a request stands between its calls and in one.
LEMMA SendingFacts ==
  ASSUME MailInv, NEW r \in Requests, req[r].pc \in {"sending", "calling"}
  PROVE  /\ req[r].pc \in Underway /\ req[r].mail \in Mails
         /\ SendingOK(req[r], rows[req[r].mail], accepted[req[r].mail], orphans[req[r].mail])
<1>1. req[r].pc \in Underway
  BY ZenonT(60) DEF Underway
<1>2. ~ReportOK(req[r], rows[req[r].mail], accepted[req[r].mail], orphans[req[r].mail])
  BY ZenonT(60) DEF ReportOK
<1>3. SendingOK(req[r], rows[req[r].mail], accepted[req[r].mail], orphans[req[r].mail])
  BY ZenonT(60), <1>1, <1>2, UnderwayRow
<1> QED BY ZenonT(60), <1>1, <1>3, UnderwayRow DEF SendingOK

\* A step that no provider takes leaves the tally of every mail.
LEMMA StillTally ==
  ASSUME MailInv, UNCHANGED <<accepted, orphans>>, NEW m \in Mails
  PROVE  TallyIs(m, accepted[m], orphans[m])
BY ZenonT(60) DEF TallyIs, MailInv, RowOK

\* A report on the way: the verdict proves what it says.
LEMMA VerdictOK ==
  ASSUME MailInv, NEW r \in Requests, NEW m \in Mails, m = req[r].mail, NEW a, NEW o,
         SendingOK(req[r], rows[m], accepted[m], orphans[m]), NEW v \in Verdicts, Verdict(r, v),
         v = "ok" => a = 1, v \in {"retry", "permanent"} => a = 0 /\ o = 0,
         TallyIs(m, a, o), UNCHANGED <<now, rows, attempts, source, projector>>
  PROVE  MailInv'
<1> DEFINE q == [pc |-> "report", mail |-> req[r].mail, client |-> req[r].client,
                 attempt |-> req[r].attempt, verdict |-> v]
<1>1. q.mail = m /\ ReportOK(q, rows[m], a, o)
  BY ZenonT(60) DEF SendingOK, ReportOK
<1>2. req' = [req EXCEPT ![r] = q]
  BY ZenonT(60) DEF Verdict, Goto
<1>3. req[r].pc \in Underway
  BY ZenonT(60) DEF SendingOK, Underway
<1> HIDE DEF q
<1> QED BY ZenonT(60), <1>1, <1>2, <1>3, SenderOK DEF RequestOK

\* The context ends, or the gate refuses, before a call.
LEMMA StopBeforeCallOK ==
  ASSUME MailInv, NEW r \in Requests, StopBeforeCall(r)
  PROVE  MailInv'
<1>1. PICK m \in Mails : m = req[r].mail /\ SendingOK(req[r], rows[m], accepted[m], orphans[m])
  BY ZenonT(60), SendingFacts DEF StopBeforeCall
<1>2. accepted[m] = 0 /\ orphans[m] = 0
  BY ZenonT(60), <1>1 DEF SendingOK, StopBeforeCall
<1>3. TallyIs(m, 0, 0) /\ UNCHANGED <<now, rows, attempts, source, projector>>
  BY ZenonT(60), <1>2, StillTally DEF StopBeforeCall
<1>4. PICK v \in {"retry", "permanent"} : Verdict(r, v)
  BY ZenonT(60) DEF StopBeforeCall
<1>5. v \in Verdicts /\ v # "ok"
  BY ZenonT(60) DEF Verdicts
<1> QED BY ZenonT(60), <1>1, <1>3, <1>4, <1>5, VerdictOK

\* The next adapter is called.
LEMMA CallOK ==
  ASSUME MailInv, NEW r \in Requests, Call(r)
  PROVE  MailInv'
<1>1. PICK m \in Mails : m = req[r].mail /\ SendingOK(req[r], rows[m], accepted[m], orphans[m])
  BY ZenonT(60), SendingFacts DEF Call
<1>2. accepted[m] = 0 /\ orphans[m] = 0 /\ req[r].pc \in Underway
  BY ZenonT(60), <1>1 DEF SendingOK, Call, Underway
<1>3. TallyIs(m, 0, 0) /\ UNCHANGED <<now, rows, attempts, source, projector>>
  BY ZenonT(60), <1>2, StillTally DEF Call
<1> DEFINE q == [req[r] EXCEPT !.pc = "calling", !.taken = FALSE]
<1>4. req' = [req EXCEPT ![r] = q]
  BY ZenonT(60) DEF Call, Goto
<1>5. SendingOK(q, rows[m], 0, 0) /\ q.mail = m
  BY ZenonT(60), <1>1, <1>2 DEF SendingOK
<1>6. RequestOK(q, rows[m], 0, 0)
  BY ZenonT(60), <1>5 DEF RequestOK
<1> HIDE DEF q
<1> QED BY ZenonT(60), <1>1, <1>2, <1>3, <1>4, <1>5, <1>6, SenderOK

\* A provider accepts the message of the call under way.
LEMMA ProviderTakesOK ==
  ASSUME MailInv, NEW r \in Requests, ProviderTakes(r)
  PROVE  MailInv'
<1>1. PICK m \in Mails : m = req[r].mail /\ SendingOK(req[r], rows[m], accepted[m], orphans[m])
  BY ZenonT(60), SendingFacts DEF ProviderTakes
<1>2. accepted[m] = 0 /\ orphans[m] = 0 /\ req[r].pc \in Underway
  BY ZenonT(60), <1>1 DEF SendingOK, ProviderTakes, Underway
<1>3. TallyIs(m, 1, 0) /\ UNCHANGED <<now, rows, attempts, source, projector>>
  BY <1>1, <1>2 DEF ProviderTakes, TallyIs, MailInv
<1> DEFINE q == [req[r] EXCEPT !.taken = TRUE]
<1>4. req' = [req EXCEPT ![r] = q]
  BY ZenonT(60) DEF ProviderTakes
<1>5. SendingOK(q, rows[m], 1, 0) /\ q.mail = m
  BY ZenonT(60), <1>1, <1>2 DEF SendingOK, ProviderTakes
<1>6. RequestOK(q, rows[m], 1, 0)
  BY ZenonT(60), <1>5 DEF RequestOK
<1> HIDE DEF q
<1> QED BY ZenonT(60), <1>1, <1>2, <1>3, <1>4, <1>5, <1>6, SenderOK

\* The next adapter, or the next try: only after a call that proves nothing
\* was taken.
LEMMA NextTryOK ==
  ASSUME MailInv, NEW r \in Requests, NEW m \in Mails, m = req[r].mail, ~req[r].taken,
         SendingOK(req[r], rows[m], accepted[m], orphans[m]), NextTry(r),
         UNCHANGED <<now, rows, attempts, accepted, orphans, source, projector>>
  PROVE  MailInv'
<1>1. accepted[m] = 0 /\ orphans[m] = 0 /\ req[r].pc \in Underway
  BY ZenonT(60) DEF SendingOK, Underway
<1>2. TallyIs(m, 0, 0)
  BY ZenonT(60), <1>1, StillTally
<1> DEFINE again == [req[r] EXCEPT !.pc = "sending", !.try = @ + 1]
           onward == [req[r] EXCEPT !.pc = "sending", !.i = @ + 1, !.try = 0]
<1> DEFINE Senders == [pc : {"sending", "calling"}, mail : Mails, client : Origins, attempt : Nat,
                       i : Nat, try : Nat, taken : BOOLEAN]
<1>3. RequestOK(again, rows[m], 0, 0) /\ again.mail = m
  <2>1. req[r] \in Senders /\ ~req[r].taken
    BY ZenonT(60) DEF SendingOK
  <2>2. req[r].try + 1 \in Nat
    BY <2>1
  <2>3. again \in Senders
    BY ZenonT(60), <2>1, <2>2
  <2>4. again.pc = "sending" /\ again.taken = req[r].taken /\ again.mail = m
    BY ZenonT(60), <2>1
  <2> HIDE DEF again
  <2> QED BY ZenonT(60), <1>1, <2>1, <2>3, <2>4 DEF SendingOK, RequestOK
<1>4. RequestOK(onward, rows[m], 0, 0) /\ onward.mail = m
  <2>1. req[r] \in Senders /\ ~req[r].taken
    BY ZenonT(60) DEF SendingOK
  <2>2. req[r].i + 1 \in Nat
    BY <2>1
  <2>3. onward \in Senders
    BY ZenonT(60), <2>1, <2>2
  <2>4. onward.pc = "sending" /\ onward.taken = req[r].taken /\ onward.mail = m
    BY ZenonT(60), <2>1
  <2> HIDE DEF onward
  <2> QED BY ZenonT(60), <1>1, <2>1, <2>3, <2>4 DEF SendingOK, RequestOK
<1>5. \/ req' = [req EXCEPT ![r] = again] \/ req' = [req EXCEPT ![r] = onward] \/ Verdict(r, "retry")
  BY ZenonT(60) DEF NextTry, Goto
<1> HIDE DEF again, onward
<1>6. CASE req' = [req EXCEPT ![r] = again]
  BY ZenonT(60), <1>1, <1>2, <1>3, <1>6, SenderOK
<1>7. CASE req' = [req EXCEPT ![r] = onward]
  BY ZenonT(60), <1>1, <1>2, <1>4, <1>7, SenderOK
<1>8. CASE Verdict(r, "retry")
  BY ZenonT(60), <1>1, <1>2, <1>8, VerdictOK DEF Verdicts
<1> QED BY ZenonT(60), <1>5, <1>6, <1>7, <1>8

\* The provider's reply, and the retry or failover it leads to.
LEMMA ReplyOK ==
  ASSUME MailInv, NEW r \in Requests, Reply(r)
  PROVE  MailInv'
<1>1. PICK m \in Mails : m = req[r].mail /\ SendingOK(req[r], rows[m], accepted[m], orphans[m])
  BY ZenonT(60), SendingFacts DEF Reply
<1>2. PICK end \in AdapterSend(Adapter(r).kind) :
        /\ end.taken = req[r].taken
        /\ IF end.verdict = "retry" THEN NextTry(r) ELSE Verdict(r, end.verdict)
        /\ IF end.open THEN AbandonSubmission(r) ELSE UNCHANGED orphans
  BY ZenonT(60) DEF Reply
<1>3. UNCHANGED <<now, rows, attempts, accepted, source, projector>>
  BY ZenonT(60) DEF Reply
<1>4. end \in ProvenEnds
  BY ZenonT(60), <1>2, EndsProven
<1>5. orphans[m] = 0 /\ accepted[m] = IF req[r].taken THEN 1 ELSE 0
  BY ZenonT(60), <1>1 DEF SendingOK
<1>6. CASE end = Ends(FALSE, "retry", FALSE)
  BY ZenonT(60), <1>1, <1>2, <1>3, <1>6, NextTryOK DEF Ends
<1>7. CASE end.verdict \in {"ok", "permanent", "unknown"} /\ ~end.open
  <2>1. Verdict(r, end.verdict) /\ UNCHANGED orphans
    BY ZenonT(60), <1>2, <1>7
  <2>2. TallyIs(m, accepted[m], 0)
    BY ZenonT(60), <1>3, <1>5, <2>1, StillTally
  <2>3. (end.verdict = "ok" => accepted[m] = 1) /\ (end.verdict = "permanent" => accepted[m] = 0)
    BY <1>2, <1>4, <1>5 DEF ProvenEnds, Ends
  <2>4. end.verdict \in Verdicts /\ end.verdict # "retry"
    BY ZenonT(60), <1>7 DEF Verdicts
  <2> QED BY ZenonT(60), <1>1, <1>3, <2>1, <2>2, <2>3, <2>4, VerdictOK
<1>8. CASE end = Ends(FALSE, "unknown", TRUE)
  <2>1. Verdict(r, "unknown") /\ ~req[r].taken /\ orphans' = [orphans EXCEPT ![m] = @ + 1]
    BY ZenonT(60), <1>1, <1>2, <1>8 DEF Ends, AbandonSubmission
  <2>2. TallyIs(m, 0, 1)
    BY <1>3, <1>5, <2>1 DEF TallyIs, MailInv
  <2> QED BY ZenonT(60), <1>1, <1>3, <2>1, <2>2, VerdictOK DEF Verdicts
<1> QED BY <1>4, <1>6, <1>7, <1>8 DEF ProvenEnds, Ends

-----------------------------------------------------------------------------
(* The report, and the other steps of a request.                           *)

ReportStates == {"accepted", "failed", "retry_wait", "unknown"}

\* Where a report takes a delivery: accepted only on an accepted call, and back to
\* waiting only while attempts are left.
LEMMA StateAfterFacts ==
  ASSUME NEW v \in Verdicts, NEW a
  PROVE  /\ StateAfter(v, a) \in ReportStates
         /\ StateAfter(v, a) = "accepted" => v = "ok"
         /\ StateAfter(v, a) \in {"failed", "retry_wait"} => v \in {"retry", "permanent"}
         /\ StateAfter(v, a) = "retry_wait" => ~(a >= MaxAttempts)
BY ZenonT(60) DEF Verdicts, StateAfter, ReportStates

\* The row a fenced report writes.
LEMMA ReportedRow ==
  ASSUME now \in 0..MaxTime, NEW row \in MailRows, NEW a, NEW o, RowOK(row, a, o, now),
         NEW log, AuditOK(row, log), NEW s, SourceOK(row, s), NEW v \in Verdicts, NEW k, Fence(row, k),
         v = "ok" => a = 1, v \in {"retry", "permanent"} => a = 0 /\ o = 0
  PROVE  LET state == StateAfter(v, k)
             new == Saved(row, state, IF state = "retry_wait" THEN Later(RetryDelay(k)) ELSE 0)
         IN  /\ new \in MailRows /\ RowOK(new, a, o, now)
             /\ AuditOK(new, SendOutcome(log, k, state)) /\ SourceOK(new, s) /\ Onward(row, new)
<1> DEFINE state == StateAfter(v, k)
           next == IF state = "retry_wait" THEN Later(RetryDelay(k)) ELSE 0
           new == Saved(row, state, next)
<1>1. row # NULL /\ row.state = "submitting" /\ row.attempt = k /\ row.state \notin Terminal
  BY ZenonT(60), RowIsNotNull DEF Fence, Terminal
<1>2. k \in 1..MaxAttempts /\ k \in Nat
  BY <1>1, MailAssumption DEF RowOK, MailRows
<1>3. next \in Nat
  <2>1. RetryDelay(k) \in Nat
    BY ZenonT(60), <1>2, MailAssumption
  <2> QED BY ZenonT(60), <2>1, LaterType
<1>4. /\ state \in ReportStates /\ state \in MailStates /\ state \in Entries
      /\ state = "accepted" => a = 1
      /\ state \in {"failed", "retry_wait"} => a = 0 /\ o = 0
      /\ state = "retry_wait" => ~(k >= MaxAttempts)
  BY ZenonT(60), StateAfterFacts DEF ReportStates, MailStates, Unsettled, Terminal, Entries
<1> HIDE DEF state, next
<1>5. /\ new \in MailRows /\ new # NULL /\ new.state = state /\ new.revision = row.revision + 1
      /\ new.attempt = row.attempt /\ new.started = row.started /\ (state \in Terminal => new.pending)
  BY <1>3, <1>4, SavedFacts
<1> HIDE DEF new
<1>6. RowOK(new, a, o, now)
  <2>1. a \in Nat /\ o \in Nat /\ a + o <= 1 /\ row.attempt <= MaxAttempts /\ row.started <= now
    BY ZenonT(60), <1>1 DEF RowOK
  <2>2. state = "retry_wait" => new.attempt < MaxAttempts
    BY <1>1, <1>2, <1>4, <1>5, MailAssumption
  <2> QED BY ZenonT(60), <1>4, <1>5, <2>1, <2>2 DEF RowOK, Unsettled, ReportStates
<1>7. AuditOK(new, SendOutcome(log, k, state))
  BY ZenonT(60), <1>1, <1>4, <1>5, AuditEnded
<1>8. SourceOK(new, s) /\ Onward(row, new)
  BY ZenonT(60), <1>1, <1>5, RaisedSource, RaisedOnward
<1> QED BY ZenonT(60), <1>5, <1>6, <1>7, <1>8 DEF new, next, state

\* A request that was answered, or that reports.
LEMMA ReportFacts ==
  ASSUME MailInv, NEW r \in Requests, req[r].pc = "report"
  PROVE  /\ req[r].mail \in Mails /\ req[r].pc \in Underway
         /\ ReportOK(req[r], rows[req[r].mail], accepted[req[r].mail], orphans[req[r].mail])
<1>1. req[r].pc \in Underway
  BY ZenonT(60) DEF Underway
<1>2. ~SendingOK(req[r], rows[req[r].mail], accepted[req[r].mail], orphans[req[r].mail])
  BY ZenonT(60) DEF SendingOK
<1> QED BY ZenonT(60), <1>1, <1>2, UnderwayRow

\* A request that was answered holds a result of its row.
LEMMA ReturnedFacts ==
  ASSUME MailInv, NEW r \in Requests, req[r].pc = "returned"
  PROVE  /\ req[r].mail \in Mails /\ req[r].client \in Origins /\ req[r].result \in Results
         /\ ResultOK(req[r].result, rows[req[r].mail])
         /\ rows[req[r].mail] \in MailRows /\ rows[req[r].mail] # NULL
<1>1. PICK m \in Mails : m = req[r].mail /\ RequestOK(req[r], rows[m], accepted[m], orphans[m])
  BY DEF MailInv, Idle
<1>2. ReturnedOK(req[r], rows[m])
  BY ZenonT(60), <1>1 DEF RequestOK, SendingOK, ReportOK
<1>3. req[r].result # NoResult
  BY <1>2 DEF ReturnedOK, Results, NoResult
<1>4. rows[m] # NULL
  BY ZenonT(60), <1>2, <1>3 DEF ReturnedOK, ResultOK
<1>5. rows[m] \in MailRows
  BY ZenonT(60), <1>4 DEF MailInv, RowOK
<1> QED BY ZenonT(60), <1>1, <1>2, <1>4, <1>5 DEF ReturnedOK

\* The second transaction of Deliver, fenced by the attempt it claimed.
LEMMA ReportStepOK ==
  ASSUME MailInv, NEW r \in Requests, Report(r)
  PROVE  MailInv'
<1>1. PICK m \in Mails : m = req[r].mail
  BY ZenonT(60), ReportFacts DEF Report
<1>2. req[r].pc \in Underway /\ ReportOK(req[r], rows[m], accepted[m], orphans[m])
  BY ZenonT(60), <1>1, ReportFacts DEF Report
<1>3. UNCHANGED <<now, accepted, orphans, source, projector>>
  BY ZenonT(60) DEF Report
<1> DEFINE v == req[r].verdict
           a == req[r].attempt
           state == StateAfter(v, a)
           new == Saved(rows[m], state, IF state = "retry_wait" THEN Later(RetryDelay(a)) ELSE 0)
<1>4. CASE ~Fence(rows[m], a)
  <2>1. req' = [req EXCEPT ![r] = Idle] /\ UNCHANGED <<rows, attempts>>
    BY ZenonT(60), <1>1, <1>4 DEF Report, Goto
  <2> QED BY ZenonT(60), <1>3, <2>1, RestOK
<1>5. CASE Fence(rows[m], a)
  <2>1. /\ rows' = [rows EXCEPT ![m] = new]
        /\ attempts' = [attempts EXCEPT ![m] = SendOutcome(attempts[m], a, state)]
        /\ Answer(r, m, new, req[r].client) \/ Goto(r, Idle)
    BY ZenonT(60), <1>1, <1>5 DEF Report, PutDelivery
  <2>2. LogIs(m, SendOutcome(attempts[m], a, state))
    BY ZenonT(60), <2>1 DEF LogIs, MailInv
  <2>3. /\ rows[m] \in MailRows /\ RowOK(rows[m], accepted[m], orphans[m], now)
        /\ AuditOK(rows[m], attempts[m]) /\ SourceOK(rows[m], source[m]) /\ now \in 0..MaxTime
    BY ZenonT(60), <1>2 DEF MailInv, RowOK, ReportOK
  <2>4. /\ v \in Verdicts /\ req[r].client \in Origins
        /\ v = "ok" => accepted[m] = 1
        /\ v \in {"retry", "permanent"} => accepted[m] = 0 /\ orphans[m] = 0
    BY ZenonT(60), <1>2 DEF ReportOK
  <2> HIDE DEF v, a
  <2>5. /\ new \in MailRows /\ RowOK(new, accepted[m], orphans[m], now)
        /\ AuditOK(new, SendOutcome(attempts[m], a, state)) /\ SourceOK(new, source[m]) /\ Onward(rows[m], new)
    BY ZenonT(60), <1>5, <2>3, <2>4, ReportedRow
  <2>6. Quiet(m, r)
    BY ZenonT(60), <1>1, <1>2, SenderAlone
  <2> HIDE DEF new, state
  <2>7. CASE Answer(r, m, new, req[r].client)
    BY ZenonT(60), <1>3, <2>1, <2>2, <2>4, <2>5, <2>6, <2>7, AnswerOK
  <2>8. CASE Goto(r, Idle)
    <3>1. MailStep(m)
      BY ZenonT(60), <1>3, <2>1, <2>2, <2>5, LedgerStep
    <3>2. req' = [req EXCEPT ![r] = Idle]
      BY ZenonT(60), <2>8 DEF Goto
    <3> QED BY ZenonT(60), <1>3, <2>6, <3>1, <3>2, WriteOK
  <2> QED BY ZenonT(60), <2>1, <2>7, <2>8
<1> QED BY ZenonT(60), <1>4, <1>5

\* A request crashes; a call under way becomes one that nobody waits for.
LEMMA CrashOK ==
  ASSUME MailInv, NEW r \in Requests, Crash(r)
  PROVE  MailInv'
<1>1. PICK m \in Mails : m = req[r].mail
  BY DEF Crash, MailInv, Idle
<1>2. req' = [req EXCEPT ![r] = Idle] /\ UNCHANGED <<now, rows, attempts, accepted, source, projector>>
  BY ZenonT(60) DEF Crash, Goto
<1>3. CASE req[r].pc = "calling"
  <2>1. SendingOK(req[r], rows[m], accepted[m], orphans[m]) /\ req[r].pc \in Underway
    BY ZenonT(60), <1>1, <1>3, SendingFacts
  <2>2. CASE req[r].taken
    <3>1. orphans' = orphans
      BY ZenonT(60), <1>3, <2>2 DEF Crash, AbandonSubmission
    <3> QED BY ZenonT(60), <1>2, <3>1, RestOK
  <2>3. CASE ~req[r].taken
    <3>1. orphans' = [orphans EXCEPT ![m] = @ + 1] /\ orphans[m] = 0 /\ accepted[m] = 0
      BY ZenonT(60), <1>1, <1>3, <2>1, <2>3 DEF Crash, AbandonSubmission, SendingOK
    <3>2. TallyIs(m, 0, 1)
      BY <1>2, <3>1 DEF TallyIs, MailInv
    <3> QED BY ZenonT(60), <1>1, <1>2, <2>1, <3>2, SenderOK
  <2> QED BY ZenonT(60), <2>2, <2>3
<1>4. CASE req[r].pc # "calling"
  BY ZenonT(60), <1>2, <1>4, RestOK DEF Crash
<1> QED BY ZenonT(60), <1>3, <1>4

-----------------------------------------------------------------------------
\* A provider takes a message that nobody waits for: only an undecided report
\* can still be under way.
LEMMA OrphanTakenOK ==
  ASSUME MailInv, NEW m \in Mails, OrphanTaken(m)
  PROVE  MailInv'
<1>1. /\ UNCHANGED <<now, rows, attempts, req, source, projector>>
      /\ orphans[m] > 0 /\ orphans' = [orphans EXCEPT ![m] = @ - 1]
      /\ accepted' = [accepted EXCEPT ![m] = @ + 1]
  BY ZenonT(60) DEF OrphanTaken
<1>2. /\ RowOK(rows[m], accepted[m], orphans[m], now) /\ DOMAIN orphans = Mails /\ DOMAIN accepted = Mails
      /\ AuditOK(rows[m], attempts[m]) /\ SourceOK(rows[m], source[m])
  BY ZenonT(60) DEF MailInv
<1>3. orphans[m] = 1 /\ accepted[m] = 0 /\ orphans'[m] = 0 /\ accepted'[m] = 1
  BY <1>1, <1>2 DEF RowOK
<1>4. RowOK(rows[m], 1, 0, now)
  BY <1>2, <1>3 DEF RowOK
<1>5. MailStep(m)
  BY ZenonT(60), <1>1, <1>2, <1>3, <1>4, OnwardSame DEF MailStep, MailInv
<1>6. MailsOK
  BY ZenonT(60), <1>5, MailStepOK
<1>7. CASE \A q \in Requests : req[q].pc \in Underway => req[q].mail # m
  BY ZenonT(60), <1>1, <1>5, <1>7, WriteAloneOK DEF ProjectorMoves
<1>8. ASSUME NEW q \in Requests, req[q].pc \in Underway, req[q].mail = m
      PROVE  MailInv'
  <2>1. ReportOK(req[q], rows[m], 0, 1)
    BY <1>3, <1>8, UnderwayRow DEF SendingOK
  <2>2. ReportOK(req[q], rows'[m], accepted'[m], orphans'[m])
    BY ZenonT(60), <1>1, <1>3, <2>1 DEF ReportOK, Verdicts
  <2>3. \A p \in Requests \ {q} : req[p].pc \in Underway => req[p].mail # m
    BY ZenonT(60), <1>8, SenderAlone DEF Quiet
  <2>4. ASSUME NEW p \in Requests \ {q}, req[p].pc \in Underway PROVE Kept(req[p].mail)
    BY ZenonT(60), <1>5, <2>3, <2>4, UnderwayRow DEF MailStep, Kept, Underwritten
  <2>5. RequestsOK({q})
    BY ZenonT(60), <1>1, <1>8, <2>2, <2>3, <2>4 DEF RequestsOK, RequestOK, MailInv
  <2> QED BY ZenonT(60), <1>1, <1>6, <2>5, MailFrame DEF ProjectorMoves
<1> QED BY ZenonT(60), <1>7, <1>8

\* A cancellation settles a delivery that waits.
LEMMA CancelDeliveryOK ==
  ASSUME MailInv, NEW m \in Mails, CancelDelivery(m)
  PROVE  MailInv'
<1> DEFINE new == Saved(rows[m], "cancelled", 0)
<1>1. /\ rows[m] # NULL /\ rows[m].state \in Unsettled /\ rows' = [rows EXCEPT ![m] = new]
      /\ UNCHANGED <<now, attempts, req, accepted, orphans, source, projector>>
  BY ZenonT(60) DEF CancelDelivery, PutDelivery
<1>2. /\ rows[m] \in MailRows /\ RowOK(rows[m], accepted[m], orphans[m], now)
      /\ AuditOK(rows[m], attempts[m]) /\ SourceOK(rows[m], source[m])
  BY ZenonT(60), <1>1 DEF MailInv, RowOK
<1>3. /\ RowOK(new, accepted[m], orphans[m], now) /\ AuditOK(new, attempts[m])
      /\ SourceOK(new, source[m]) /\ Onward(rows[m], new)
  BY ZenonT(60), <1>1, <1>2, SettledRow
<1>4. LogIs(m, attempts[m])
  BY ZenonT(60), <1>1 DEF LogIs, MailInv
<1> HIDE DEF new
<1>5. MailStep(m)
  BY ZenonT(60), <1>1, <1>3, <1>4, LedgerStep
<1>6. \A q \in Requests : req[q].pc \in Underway => req[q].mail # m
  BY ZenonT(60), <1>1, UnderwayRow DEF Unsettled, Underwritten
<1> QED BY ZenonT(60), <1>1, <1>5, <1>6, WriteAloneOK DEF ProjectorMoves

\* The submit handler finds the recipients changed: it cancels what still waits,
\* or rereads the delivery.
LEMMA CancelChangedOK ==
  ASSUME MailInv, NEW r \in Requests, CancelChanged(r)
  PROVE  MailInv'
<1>1. PICK m \in Mails : m = req[r].mail
  BY ZenonT(60), ReturnedFacts DEF CancelChanged
<1>2. /\ rows[m] \in MailRows /\ RowOK(rows[m], accepted[m], orphans[m], now)
      /\ AuditOK(rows[m], attempts[m]) /\ SourceOK(rows[m], source[m])
  BY ZenonT(60), <1>1, ReturnedFacts DEF CancelChanged, MailInv
<1>3. "task" \in Origins
  BY ZenonT(60) DEF Origins
<1> DEFINE new == Saved(rows[m], "cancelled", 0)
<1>4. CASE /\ rows[m].state \in Unsettled /\ rows' = [rows EXCEPT ![m] = new]
           /\ Answer(r, m, new, "task")
           /\ UNCHANGED <<now, attempts, accepted, orphans, source, projector>>
  <2>1. /\ new \in MailRows /\ RowOK(new, accepted[m], orphans[m], now)
        /\ AuditOK(new, attempts[m]) /\ SourceOK(new, source[m]) /\ Onward(rows[m], new)
    BY ZenonT(60), <1>2, <1>4, SettledRow
  <2>2. LogIs(m, attempts[m])
    BY ZenonT(60), <1>4 DEF LogIs, MailInv
  <2>3. Quiet(m, r)
    BY ZenonT(60), <1>4, QuietRow DEF Unsettled, Underwritten
  <2> HIDE DEF new
  <2> QED BY ZenonT(60), <1>3, <1>4, <2>1, <2>2, <2>3, AnswerOK
<1>5. CASE /\ Answer(r, m, rows[m], "task") /\ rows[m].state = "cancelled"
           /\ UNCHANGED <<now, rows, attempts, accepted, orphans, source, projector>>
  <2>1. MailStep(m)
    BY ZenonT(60), <1>5, StillStep
  <2>2. PICK q : /\ req' = [req EXCEPT ![r] = q]
                 /\ q = Idle \/ (q.mail = m /\ RequestOK(q, rows[m], accepted[m], orphans[m]) /\ q.pc \notin Underway)
    BY ZenonT(60), <1>2, <1>3, <1>5, AnswerFacts
  <2>3. Quiet(m, r)
    BY ZenonT(60), <1>5, QuietRow DEF Underwritten
  <2> QED BY ZenonT(60), <1>5, <2>1, <2>2, <2>3, WriteOK
<1>6. CASE Deliver(r, m, rows[m].payload, FALSE, "task")
  <2>1. rows[m].payload \in Mailings
    BY ZenonT(60), <1>2 DEF MailRows
  <2>2. req[r].pc \notin Underway
    BY ZenonT(60) DEF CancelChanged, Underway
  <2> QED BY ZenonT(60), <1>3, <1>6, <2>1, <2>2, DeliverOK
<1> QED BY ZenonT(60), <1>1, <1>4, <1>5, <1>6 DEF CancelChanged, PutDelivery

\* A caller asks for a delivery, with or without leave to send.
LEMMA RequestStepOK ==
  ASSUME MailInv, NEW r \in Requests, NEW m \in Mails, Request(r, m)
  PROVE  MailInv'
<1>1. req[r].pc \notin Underway /\ "http" \in Origins
  BY DEF Request, Idle, Underway, Origins
<1>2. PICK p \in Mailings, allow \in BOOLEAN : Deliver(r, m, p, allow, "http")
  BY ZenonT(60) DEF Request
<1> QED BY ZenonT(60), <1>1, <1>2, DeliverOK

\* The submit handler executes a delivery that was recorded before.
LEMMA ExecuteOK ==
  ASSUME MailInv, NEW r \in Requests, NEW m \in Mails, Execute(r, m)
  PROVE  MailInv'
<1>1. req[r].pc \notin Underway
  BY DEF Execute, Idle, Underway
<1>2. rows[m].payload \in Mailings
  BY ZenonT(60) DEF Execute, MailInv, RowOK, MailRows
<1>3. PICK silent \in BOOLEAN, changed \in BOOLEAN :
        Deliver(r, m, rows[m].payload, ~silent /\ ~changed, IF changed THEN "changed" ELSE "task")
  BY ZenonT(60) DEF Execute
<1>4. (IF changed THEN "changed" ELSE "task") \in Origins
  BY ZenonT(60) DEF Origins
<1>5. (~silent /\ ~changed) \in BOOLEAN
  BY ZenonT(60)
<1> QED BY ZenonT(60), <1>1, <1>2, <1>3, <1>4, <1>5, DeliverOK

\* PHP takes a result of the row, or keeps a newer one.
LEMMA AppliedStep ==
  ASSUME MailInv, NEW m \in Mails, NEW x \in Results, ResultOK(x, rows[m]), ResultApplied(m, x),
         UNCHANGED <<now, rows, attempts, accepted, orphans>>
  PROVE  MailStep(m) /\ source'[m].revision >= x.revision /\ SourceOK(rows[m], source'[m])
<1>1. /\ RowOK(rows[m], accepted[m], orphans[m], now)
      /\ AuditOK(rows[m], attempts[m]) /\ SourceOK(rows[m], source[m]) /\ DOMAIN source = Mails
  BY ZenonT(60) DEF MailInv
<1>2. source[m].revision \in Int /\ x.revision \in Nat
  BY ZenonT(60), <1>1, ResultType DEF SourceOK, Results
<1>3. CASE x.revision > source[m].revision
  <2>1. source' = [source EXCEPT ![m] = x]
    BY ZenonT(60), <1>3 DEF ResultApplied
  <2>2. source'[m] = x /\ DOMAIN source' = Mails /\ \A n \in Mails \ {m} : source'[n] = source[n]
    BY ZenonT(60), <1>1, <2>1
  <2>3. x # NoResult
    BY <1>2 DEF NoResult
  <2>4. SourceOK(rows[m], x)
    <3> SUFFICES ASSUME rows[m] # NULL, rows[m].state \in Terminal, ~rows[m].pending
                 PROVE  FALSE
      BY ZenonT(60) DEF SourceOK
    <3>1. source[m] = Result(rows[m])
      BY ZenonT(60), <1>1 DEF SourceOK
    <3>2. x.revision <= source[m].revision
      BY <2>3, <3>1 DEF ResultOK, Result
    <3> QED BY <1>2, <1>3, <3>2
  <2> QED BY <1>1, <1>2, <1>3, <2>2, <2>4, OnwardSame DEF MailStep, MailInv
<1>4. CASE ~(x.revision > source[m].revision)
  <2>1. source' = source
    BY ZenonT(60), <1>4 DEF ResultApplied
  <2> QED BY <1>1, <1>2, <1>4, <2>1, StillStep
<1> QED BY ZenonT(60), <1>3, <1>4

\* PHP takes the result its request returned.
LEMMA ApplyResultOK ==
  ASSUME MailInv, NEW r \in Requests, ApplyResult(r)
  PROVE  MailInv'
<1>1. PICK m \in Mails : m = req[r].mail
  BY ZenonT(60), ReturnedFacts DEF ApplyResult
<1>2. /\ req[r].result \in Results /\ ResultOK(req[r].result, rows[m]) /\ rows[m] # NULL
      /\ ResultApplied(m, req[r].result) /\ req' = [req EXCEPT ![r] = Idle]
      /\ UNCHANGED <<now, rows, attempts, accepted, orphans, projector>>
  BY ZenonT(60), <1>1, ReturnedFacts DEF ApplyResult, Goto
<1>3. MailStep(m)
  BY ZenonT(60), <1>2, AppliedStep
<1>4. Quiet(m, r) \/ Kept(m)
  BY ZenonT(60), <1>2, QuietRow DEF Kept, Underwritten
<1> QED BY ZenonT(60), <1>2, <1>3, <1>4, WriteOK

-----------------------------------------------------------------------------
\* One recovery transaction settles every delivery that is due.
LEMMA RecoverOK ==
  ASSUME MailInv, NEW kind \in {"submitting", "prepared", "retry_wait"}, Recover(kind)
  PROVE  MailInv'
<1> DEFINE due == {m \in Mails : RecoverDue(kind, rows[m])}
           final == IF kind = "submitting" THEN "unknown" ELSE "expired"
<1>1. /\ UNCHANGED <<now, req, accepted, orphans, source, projector>>
      /\ rows' = [m \in Mails |-> IF m \in due THEN Saved(rows[m], final, 0) ELSE rows[m]]
      /\ attempts' = [m \in Mails |-> IF m \in due /\ kind = "submitting"
                                      THEN SendOutcome(attempts[m], rows[m].attempt, final) ELSE attempts[m]]
  BY ZenonT(60) DEF Recover
<1>2. /\ now \in 0..MaxTime /\ DOMAIN accepted = Mails /\ DOMAIN orphans = Mails /\ DOMAIN source = Mails
      /\ DOMAIN rows' = Mails /\ DOMAIN attempts' = Mails
  BY ZenonT(60), <1>1 DEF MailInv
<1>3. ASSUME NEW m \in Mails
      PROVE  /\ RowOK(rows'[m], accepted[m], orphans[m], now)
             /\ AuditOK(rows'[m], attempts'[m]) /\ SourceOK(rows'[m], source[m]) /\ Onward(rows[m], rows'[m])
             /\ rows[m] # NULL /\ rows[m].state \in Underwritten => rows'[m] # NULL /\ rows'[m].state \in Underwritten
  <2>1. /\ RowOK(rows[m], accepted[m], orphans[m], now)
        /\ AuditOK(rows[m], attempts[m]) /\ SourceOK(rows[m], source[m])
    BY ZenonT(60) DEF MailInv
  <2>2. CASE m \notin due
    BY ZenonT(60), <1>1, <2>1, <2>2, OnwardSame
  <2>3. CASE m \in due /\ kind = "submitting"
    <3>1. rows'[m] = Saved(rows[m], "unknown", 0) /\ attempts'[m] = SendOutcome(attempts[m], rows[m].attempt, "unknown")
      BY ZenonT(60), <1>1, <2>3
    <3>2. rows[m] # NULL /\ rows[m].state = "submitting"
      BY ZenonT(60), <2>3 DEF RecoverDue
    <3>3. rows[m] \in MailRows
      BY ZenonT(60), <2>1, <3>2 DEF RowOK
    <3> QED BY <2>1, <3>1, <3>2, <3>3, AbandonedRow, RowIsNotNull DEF Underwritten
  <2>4. CASE m \in due /\ kind # "submitting"
    <3>1. rows'[m] = Saved(rows[m], "expired", 0) /\ attempts'[m] = attempts[m]
      BY ZenonT(60), <1>1, <2>4
    <3>2. rows[m] # NULL /\ rows[m].state \in Unsettled
      BY ZenonT(60), <2>4 DEF RecoverDue, Unsettled
    <3>3. rows[m] \in MailRows /\ rows[m].state \notin Underwritten
      BY ZenonT(60), <2>1, <3>2 DEF RowOK, Unsettled, Underwritten
    <3> QED BY <2>1, <3>1, <3>2, <3>3, SettledRow
  <2> QED BY ZenonT(60), <2>2, <2>3, <2>4
<1> HIDE DEF due, final
<1>4. MailsOK
  BY ZenonT(60), <1>1, <1>2, <1>3, OnwardSame DEF MailsOK
<1>5. RequestsOK({})
  BY ZenonT(60), <1>1, <1>3, UnderwayRow DEF RequestsOK, Kept, MailInv, Underwritten
<1> QED BY ZenonT(60), <1>1, <1>4, <1>5, MailFrame DEF ProjectorMoves

\* A step that changes no record and no request.
LEMMA StillOK ==
  ASSUME MailInv, UNCHANGED <<now, rows, attempts, req, accepted, orphans, source>>, ProjectorMoves
  PROVE  MailInv'
<1>1. MailsOK
  BY ZenonT(60), OnwardSame DEF MailsOK, MailInv
<1>2. RequestsOK({})
  BY ZenonT(60), UnderwayRow DEF RequestsOK, Kept, MailInv, Underwritten
<1> QED BY ZenonT(60), <1>1, <1>2, MailFrame

\* Time passes.
LEMMA MailTickOK ==
  ASSUME MailInv, MailTick
  PROVE  MailInv'
<1>1. /\ now' = now + 1 /\ now < MaxTime /\ now \in 0..MaxTime
      /\ UNCHANGED <<rows, attempts, req, accepted, orphans, source, projector>>
  BY ZenonT(60) DEF MailTick, Advance, MailInv
<1>2. now' \in 0..MaxTime /\ now \in Nat
  BY <1>1, MailAssumption
<1>3. \A m \in Mails : RowOK(rows[m], accepted[m], orphans[m], now')
  <2> SUFFICES ASSUME NEW m \in Mails PROVE RowOK(rows[m], accepted[m], orphans[m], now')
    BY ZenonT(60)
  <2>1. RowOK(rows[m], accepted[m], orphans[m], now)
    BY ZenonT(60) DEF MailInv
  <2>2. rows[m] # NULL => rows[m].started \in Nat /\ rows[m].started <= now'
    BY <1>1, <1>2, <2>1 DEF RowOK, MailRows
  <2> QED BY ZenonT(60), <2>1, <2>2 DEF RowOK
<1>4. MailsOK
  BY ZenonT(60), <1>1, <1>2, <1>3, OnwardSame DEF MailsOK, MailInv
<1>5. RequestsOK({})
  BY ZenonT(60), <1>1, UnderwayRow DEF RequestsOK, Kept, MailInv, Underwritten
<1> QED BY ZenonT(60), <1>1, <1>4, <1>5, MailFrame DEF ProjectorMoves

-----------------------------------------------------------------------------
(* The projection of results to PHP.                                       *)

\* The projector reads a result whose mark is up.
LEMMA ProjectReadOK ==
  ASSUME MailInv, NEW m \in Mails, ProjectRead(m)
  PROVE  MailInv'
<1> DEFINE p == [mail |-> m, result |-> Result(rows[m]), acked |-> FALSE]
<1>1. /\ projector' = p /\ rows[m] # NULL
      /\ UNCHANGED <<now, rows, attempts, req, accepted, orphans, source>>
  BY ZenonT(60) DEF ProjectRead
<1>2. rows[m] \in MailRows
  BY ZenonT(60), <1>1 DEF MailInv, RowOK
<1>3. Result(rows[m]) \in Results /\ ResultOK(Result(rows[m]), rows[m])
  BY ZenonT(60), <1>2, ResultFacts
<1>4. p.mail = m /\ ProjectorOK(p, rows[m], source[m])
  BY ZenonT(60), <1>3 DEF ProjectorOK
<1> HIDE DEF p
<1> QED BY ZenonT(60), <1>1, <1>4, StillOK DEF ProjectorMoves

\* The delivery a projection is about.
LEMMA ProjectorFacts ==
  ASSUME MailInv, projector # NULL
  PROVE  /\ projector.mail \in Mails
         /\ ProjectorOK(projector, rows[projector.mail], source[projector.mail])
         /\ rows[projector.mail] \in MailRows /\ rows[projector.mail] # NULL
<1>1. PICK m \in Mails : m = projector.mail /\ ProjectorOK(projector, rows[m], source[m])
  BY ZenonT(60) DEF MailInv
<1>2. projector.result # NoResult
  BY <1>1 DEF ProjectorOK, Results, NoResult
<1>3. rows[m] # NULL
  BY ZenonT(60), <1>1, <1>2 DEF ProjectorOK, ResultOK
<1>4. rows[m] \in MailRows
  BY ZenonT(60), <1>3 DEF MailInv, RowOK
<1> QED BY ZenonT(60), <1>1, <1>3, <1>4

\* PHP takes the projected result.
LEMMA ProjectApplyOK ==
  ASSUME MailInv, ProjectApply
  PROVE  MailInv'
<1>1. PICK m \in Mails : m = projector.mail
  BY ZenonT(60), ProjectorFacts DEF ProjectApply
<1>2. /\ ProjectorOK(projector, rows[m], source[m]) /\ rows[m] # NULL
      /\ ResultApplied(m, projector.result)
      /\ UNCHANGED <<now, rows, attempts, req, accepted, orphans>>
  BY ZenonT(60), <1>1, ProjectorFacts DEF ProjectApply
<1>3. PICK acked \in BOOLEAN : projector' = [projector EXCEPT !.acked = acked]
  BY ZenonT(60) DEF ProjectApply
<1>4. MailStep(m) /\ source'[m].revision >= projector.result.revision
  BY ZenonT(60), <1>2, AppliedStep DEF ProjectorOK
<1>5. /\ projector' \in [mail : Mails, result : Results, acked : BOOLEAN]
      /\ projector'.mail = m /\ projector'.result = projector.result
  BY ZenonT(60), <1>1, <1>2, <1>3 DEF ProjectorOK
<1>6. ProjectorMoves
  BY ZenonT(60), <1>2, <1>4, <1>5 DEF ProjectorMoves, ProjectorOK
<1>7. (\A q \in Requests : req[q].pc \in Underway => req[q].mail # m) \/ Kept(m)
  BY ZenonT(60), <1>2, UnderwayRow DEF Kept, Underwritten
<1> QED BY ZenonT(60), <1>2, <1>4, <1>6, <1>7, WriteAloneOK

\* The projection touches no more of a row than its projection columns.
LEMMA MarkedStep ==
  ASSUME MailInv, NEW m \in Mails, NEW new \in MailRows, rows[m] \in MailRows,
         rows' = [rows EXCEPT ![m] = new],
         UNCHANGED <<now, attempts, req, accepted, orphans, source>>, ProjectorMoves,
         new.state = rows[m].state, new.revision = rows[m].revision, new.attempt = rows[m].attempt,
         new.started = rows[m].started, SourceOK(new, source[m])
  PROVE  MailInv'
<1>1. new # NULL /\ rows[m] # NULL /\ rows'[m] = new
  BY ZenonT(60), RowIsNotNull DEF MailInv
<1>2. RowOK(new, accepted[m], orphans[m], now)
  BY ZenonT(60), <1>1 DEF MailInv, RowOK
<1>3. AuditOK(new, attempts[m])
  BY <1>1 DEF MailInv, AuditOK
<1>4. Onward(rows[m], new)
  BY <1>1 DEF Onward, Result, MailRows
<1>5. LogIs(m, attempts[m])
  BY ZenonT(60) DEF LogIs, MailInv
<1>6. MailStep(m)
  BY ZenonT(60), <1>2, <1>3, <1>4, <1>5, LedgerStep
<1>7. (\A q \in Requests : req[q].pc \in Underway => req[q].mail # m) \/ Kept(m)
  BY ZenonT(60), <1>1, UnderwayRow DEF Kept, Underwritten
<1> QED BY ZenonT(60), <1>6, <1>7, WriteAloneOK

\* The projector clears the mark of a result PHP has.
LEMMA ProjectClearOK ==
  ASSUME MailInv, ProjectClear
  PROVE  MailInv'
<1>1. PICK m \in Mails : m = projector.mail
  BY ZenonT(60), ProjectorFacts DEF ProjectClear
<1>2. /\ ProjectorOK(projector, rows[m], source[m]) /\ rows[m] # NULL /\ rows[m] \in MailRows
      /\ projector.acked /\ projector' = NULL
      /\ UNCHANGED <<now, attempts, req, accepted, orphans, source>>
  BY ZenonT(60), <1>1, ProjectorFacts DEF ProjectClear
<1>3. CASE ~SameRevision
  BY ZenonT(60), <1>2, <1>3, StillOK DEF ProjectClear, ProjectorMoves
<1>4. CASE SameRevision
  <2> DEFINE new == [rows[m] EXCEPT !.pending = FALSE]
  <2>1. rows' = [rows EXCEPT ![m] = new]
    BY ZenonT(60), <1>1, <1>4 DEF ProjectClear, PutDelivery
  <2>2. /\ new \in MailRows /\ new.state = rows[m].state /\ new.revision = rows[m].revision
        /\ new.attempt = rows[m].attempt /\ new.started = rows[m].started
    BY ZenonT(60), <1>2 DEF MailRows
  <2>3. source[m] = Result(rows[m])
    <3>1. source[m].revision >= rows[m].revision /\ rows[m].revision \in Nat
      BY ZenonT(60), <1>1, <1>2, <1>4 DEF ProjectorOK, SameRevision, MailRows
    <3>2. ResultOK(source[m], rows[m])
      BY ZenonT(60) DEF MailInv, SourceOK
    <3>3. source[m] # NoResult
      BY <3>1 DEF NoResult
    <3> QED BY <3>1, <3>2, <3>3 DEF ResultOK, Results
  <2>4. source[m] = Result(new)
    BY ZenonT(60), <2>2, <2>3 DEF Result
  <2> HIDE DEF new
  <2>5. SourceOK(new, source[m])
    BY ZenonT(60), <2>2, <2>4, ResultFacts DEF SourceOK
  <2> QED BY ZenonT(60), <1>2, <2>1, <2>2, <2>5, MarkedStep DEF ProjectorMoves
<1> QED BY ZenonT(60), <1>3, <1>4

\* The projector puts off a result PHP did not take.
LEMMA ProjectDeferOK ==
  ASSUME MailInv, ProjectDefer
  PROVE  MailInv'
<1>1. PICK m \in Mails : m = projector.mail
  BY ZenonT(60), ProjectorFacts DEF ProjectDefer
<1>2. /\ rows[m] # NULL /\ rows[m] \in MailRows /\ projector' = NULL
      /\ UNCHANGED <<now, attempts, req, accepted, orphans, source>>
  BY ZenonT(60), <1>1, ProjectorFacts DEF ProjectDefer
<1>3. CASE ~(SameRevision /\ rows[m].pending)
  BY ZenonT(60), <1>1, <1>2, <1>3, StillOK DEF ProjectDefer, ProjectorMoves
<1>4. CASE SameRevision /\ rows[m].pending
  <2> DEFINE new == [rows[m] EXCEPT !.projectAt = Later(1)]
  <2>1. rows' = [rows EXCEPT ![m] = new]
    BY ZenonT(60), <1>1, <1>4 DEF ProjectDefer, PutDelivery
  <2>2. Later(1) \in Nat
    BY ZenonT(60), LaterType DEF MailInv
  <2>3. /\ new \in MailRows /\ new.state = rows[m].state /\ new.revision = rows[m].revision
        /\ new.attempt = rows[m].attempt /\ new.started = rows[m].started /\ new.pending = rows[m].pending
    BY ZenonT(60), <1>2, <2>2 DEF MailRows
  <2>4. Result(new) = Result(rows[m]) /\ new # NULL
    BY ZenonT(60), <2>3, RowIsNotNull DEF Result
  <2> HIDE DEF new
  <2>5. SourceOK(new, source[m])
    BY ZenonT(60), <1>2, <1>4, <2>3, <2>4 DEF SourceOK, ResultOK, MailInv
  <2> QED BY ZenonT(60), <1>2, <2>1, <2>3, <2>5, MarkedStep DEF ProjectorMoves
<1> QED BY ZenonT(60), <1>3, <1>4

\* The projector crashes.
LEMMA ProjectorCrashOK ==
  ASSUME MailInv, ProjectorCrash
  PROVE  MailInv'
BY ZenonT(60), StillOK DEF ProjectorCrash, ProjectorMoves

-----------------------------------------------------------------------------
(* The invariant.                                                          *)

\* The invariant holds of the empty ledger.
LEMMA MailInitOK == MailInit => MailInv
<1> SUFFICES ASSUME MailInit PROVE MailInv
  BY ZenonT(60)
<1>1. now \in 0..MaxTime
  BY MailAssumption DEF MailInit, ClockInit
<1>2. RowOK(NULL, 0, 0, now) /\ AuditOK(NULL, <<>>) /\ SourceOK(NULL, NoResult)
  BY DEF RowOK, AuditOK, SourceOK, ResultOK
<1>3. OneSender
  BY ZenonT(60) DEF MailInit, OneSender, Idle, Underway
<1> QED BY ZenonT(60), <1>1, <1>2, <1>3 DEF MailInit, MailInv

\* The invariant is inductive.
LEMMA MailNextOK == MailInv /\ [MailNext]_mailVars => MailInv'
<1> SUFFICES ASSUME MailInv, [MailNext]_mailVars PROVE MailInv'
  BY ZenonT(60)
<1>1. CASE UNCHANGED mailVars
  BY ZenonT(60), <1>1, StillOK DEF mailVars, ProjectorMoves
<1>2. CASE MailTick
  BY ZenonT(60), <1>2, MailTickOK
<1>3. CASE \E r \in Requests, m \in Mails : Request(r, m) \/ Execute(r, m)
  BY ZenonT(60), <1>3, RequestStepOK, ExecuteOK
<1>4. CASE \E r \in Requests :
             \/ StopBeforeCall(r) \/ Call(r) \/ ProviderTakes(r) \/ Reply(r) \/ Report(r)
             \/ Crash(r) \/ CancelChanged(r) \/ ApplyResult(r)
  BY ZenonT(60), <1>4, StopBeforeCallOK, CallOK, ProviderTakesOK, ReplyOK, ReportStepOK, CrashOK, CancelChangedOK, ApplyResultOK
<1>5. CASE \E m \in Mails : OrphanTaken(m) \/ CancelDelivery(m) \/ ProjectRead(m)
  BY ZenonT(60), <1>5, OrphanTakenOK, CancelDeliveryOK, ProjectReadOK
<1>6. CASE \E kind \in {"submitting", "prepared", "retry_wait"} : Recover(kind)
  BY ZenonT(60), <1>6, RecoverOK
<1>7. CASE ProjectApply \/ ProjectClear \/ ProjectDefer \/ ProjectorCrash
  BY ZenonT(60), <1>7, ProjectApplyOK, ProjectClearOK, ProjectDeferOK, ProjectorCrashOK
<1> QED BY ZenonT(60), <1>1, <1>2, <1>3, <1>4, <1>5, <1>6, <1>7 DEF MailNext

\* The invariant holds in every reachable state.
LEMMA MailInductive == MailSpec => []MailInv
BY MailInitOK, MailNextOK, PTL DEF MailSpec

\* The invariant says more than MailRecordsAgree.
LEMMA MailInvAgrees == MailInv => MailRecordsAgree
<1> SUFFICES ASSUME MailInv PROVE MailRecordsAgree
  BY ZenonT(60)
<1>1. MailTypeOK
  <2>1. \A r \in Requests : req[r].pc \in {"idle", "sending", "calling", "report", "returned"}
    <3>1. \A q, row, a, o : SendingOK(q, row, a, o) => q.pc \in {"sending", "calling"}
      BY ZenonT(60) DEF SendingOK
    <3>2. \A q, row, a, o : ReportOK(q, row, a, o) => q.pc = "report"
      BY ZenonT(60) DEF ReportOK
    <3>3. \A q, row : ReturnedOK(q, row) => q.pc = "returned"
      BY ZenonT(60) DEF ReturnedOK
    <3>4. Idle.pc = "idle"
      BY ZenonT(60) DEF Idle
    <3> QED BY ZenonT(60), <3>1, <3>2, <3>3, <3>4 DEF MailInv, RequestOK
  <2>2. \A m \in Mails :
          /\ accepted[m] \in Nat /\ orphans[m] \in Nat
          /\ rows[m] # NULL =>
               /\ rows[m].payload \in Mailings /\ rows[m].state \in MailStates
               /\ rows[m].attempt \in 0..MaxAttempts /\ rows[m].started \in 0..now
    BY MailAssumption DEF MailInv, RowOK, MailRows
  <2> QED BY ZenonT(60), <2>1, <2>2 DEF MailTypeOK, MailInv
<1>2. AttemptsAgree
  <2> SUFFICES ASSUME NEW m \in Mails, rows[m] # NULL
               PROVE  /\ Len(attempts[m]) = rows[m].attempt
                      /\ \A k \in DOMAIN attempts[m] :
                           attempts[m][k] = IF k = rows[m].attempt /\ rows[m].state \notin {"cancelled", "expired"}
                                            THEN rows[m].state ELSE "retry_wait"
    BY ZenonT(60) DEF AttemptsAgree
  <2>1. AuditOK(rows[m], attempts[m])
    BY ZenonT(60) DEF MailInv
  <2>2. DOMAIN attempts[m] = 1..Len(attempts[m])
    <3>1. attempts[m] \in Seq(Entries)
      BY ZenonT(60), <2>1 DEF AuditOK
    <3> QED BY <3>1
  <2> QED BY ZenonT(60), <2>1, <2>2 DEF AuditOK
<1>3. ReceiptApplied
  BY DEF ReceiptApplied, MailInv, SourceOK, ResultOK, NoResult, Terminal
<1> QED BY ZenonT(60), <1>1, <1>2, <1>3 DEF MailRecordsAgree

\* The row of a delivery, the audit of its attempts and the result PHP holds
\* always agree, whatever Deliver, its providers, cancellation, recovery and the
\* projection do in between and wherever they crash.
THEOREM MailRecordsAlwaysAgree == MailSpec => []MailRecordsAgree
BY MailInductive, MailInvAgrees, PTL

-----------------------------------------------------------------------------
(* The ledger of mail is an effect ledger.                                 *)

StateOf(row) == IF row = NULL THEN "prepared" ELSE row.state

\* How a delivery moves: it rests, is claimed or settled while it waits, its
\* claimed attempt ends, or a provider takes its message.
Moved(m) ==
  \/ /\ accepted'[m] = accepted[m]
     /\ \/ StateOf(rows'[m]) = StateOf(rows[m])
        \/ StateOf(rows[m]) \in Unsettled /\ StateOf(rows'[m]) \in {"submitting", "expired", "cancelled"}
        \/ StateOf(rows[m]) = "submitting" /\ StateOf(rows'[m]) \in ReportStates
  \/ /\ StateOf(rows'[m]) = StateOf(rows[m]) /\ StateOf(rows[m]) \in Underwritten
     /\ accepted[m] = 0 /\ accepted'[m] = 1

\* A write of mail m to a row of another state.
LEMMA PutMoves ==
  ASSUME MailInv, NEW m \in Mails, NEW new, new # NULL, rows' = [rows EXCEPT ![m] = new], UNCHANGED accepted,
         \/ new.state = StateOf(rows[m])
         \/ StateOf(rows[m]) \in Unsettled /\ new.state \in {"submitting", "expired", "cancelled"}
         \/ StateOf(rows[m]) = "submitting" /\ new.state \in ReportStates
  PROVE  \A n \in Mails : Moved(n)
<1> SUFFICES ASSUME NEW n \in Mails PROVE Moved(n)
  BY ZenonT(60)
<1>1. CASE n = m
  <2>1. StateOf(rows'[n]) = new.state
    BY ZenonT(60), <1>1 DEF StateOf, MailInv
  <2> QED BY ZenonT(60), <1>1, <2>1 DEF Moved
<1>2. CASE n # m
  BY ZenonT(60), <1>2 DEF Moved, MailInv
<1> QED BY ZenonT(60), <1>1, <1>2

\* The first transaction of Deliver claims or settles a delivery that waits.
LEMMA DeliverMoves ==
  ASSUME MailInv, NEW r \in Requests, NEW m \in Mails, NEW p \in Mailings, NEW allow, NEW client,
         Deliver(r, m, p, allow, client)
  PROVE  \A n \in Mails : Moved(n)
<1> DEFINE row == BaseRow(m, p)
<1>1. row \in MailRows /\ row # NULL /\ now \in 0..MaxTime /\ UNCHANGED accepted
  BY ZenonT(60), BaseFacts, RowIsNotNull DEF MailInv, Deliver
<1>2. row.state = StateOf(rows[m])
  BY ZenonT(60), NewFacts DEF BaseRow, StateOf
<1>3. \/ UNCHANGED rows
      \/ rows' = [rows EXCEPT ![m] = row]
      \/ row.state = "submitting" /\ rows' = [rows EXCEPT ![m] = Saved(row, "unknown", 0)]
      \/ row.state \in Unsettled /\ rows' = [rows EXCEPT ![m] = Saved(row, "expired", 0)]
      \/ row.state \in Unsettled /\ rows' = [rows EXCEPT ![m] = Claimed(row)]
  BY ZenonT(60) DEF Deliver, BaseRow, PutDelivery
<1> HIDE DEF row
<1>4. Saved(row, "unknown", 0) # NULL /\ Saved(row, "unknown", 0).state = "unknown"
  BY <1>1, SavedFacts DEF MailStates, Terminal
<1>5. Saved(row, "expired", 0) # NULL /\ Saved(row, "expired", 0).state = "expired"
  BY <1>1, SavedFacts DEF MailStates, Terminal
<1>6. Claimed(row) # NULL /\ Claimed(row).state = "submitting"
  BY ZenonT(60), <1>1, ClaimedFacts
<1>7. CASE UNCHANGED rows
  BY ZenonT(60), <1>1, <1>7 DEF Moved
<1>8. CASE rows' = [rows EXCEPT ![m] = row]
  BY ZenonT(60), <1>1, <1>2, <1>8, PutMoves
<1>9. CASE row.state = "submitting" /\ rows' = [rows EXCEPT ![m] = Saved(row, "unknown", 0)]
  BY ZenonT(60), <1>1, <1>2, <1>4, <1>9, PutMoves DEF ReportStates
<1>10. CASE row.state \in Unsettled /\ rows' = [rows EXCEPT ![m] = Saved(row, "expired", 0)]
  BY ZenonT(60), <1>1, <1>2, <1>5, <1>10, PutMoves
<1>11. CASE row.state \in Unsettled /\ rows' = [rows EXCEPT ![m] = Claimed(row)]
  BY ZenonT(60), <1>1, <1>2, <1>6, <1>11, PutMoves
<1> QED BY ZenonT(60), <1>3, <1>7, <1>8, <1>9, <1>10, <1>11

\* Its second transaction ends the attempt.
LEMMA ReportMoves ==
  ASSUME MailInv, NEW r \in Requests, Report(r)
  PROVE  \A n \in Mails : Moved(n)
<1>1. PICK m \in Mails : m = req[r].mail
  BY ZenonT(60), ReportFacts DEF Report
<1>2. ReportOK(req[r], rows[m], accepted[m], orphans[m]) /\ UNCHANGED accepted
  BY ZenonT(60), <1>1, ReportFacts DEF Report
<1> DEFINE a == req[r].attempt
           state == StateAfter(req[r].verdict, a)
           next == IF state = "retry_wait" THEN Later(RetryDelay(a)) ELSE 0
<1>3. \/ UNCHANGED rows
      \/ Fence(rows[m], a) /\ rows' = [rows EXCEPT ![m] = Saved(rows[m], state, next)]
  BY ZenonT(60), <1>1 DEF Report, PutDelivery
<1>4. CASE UNCHANGED rows
  BY ZenonT(60), <1>2, <1>4 DEF Moved
<1>5. CASE Fence(rows[m], a) /\ rows' = [rows EXCEPT ![m] = Saved(rows[m], state, next)]
  <2>1. rows[m] # NULL /\ rows[m].state = "submitting" /\ rows[m].attempt = a
    BY ZenonT(60), <1>2, <1>5 DEF ReportOK, Fence
  <2>2. rows[m] \in MailRows /\ a \in 1..MaxAttempts
    BY <2>1, MailAssumption DEF MailInv, RowOK, MailRows
  <2>3. RetryDelay(a) \in Nat
    BY ZenonT(60), <2>2, MailAssumption
  <2>4. next \in Nat
    BY ZenonT(60), <2>3, LaterType DEF MailInv
  <2>5. state \in ReportStates /\ state \in MailStates
    BY <1>2, StateAfterFacts DEF ReportOK, ReportStates, MailStates, Unsettled, Terminal
  <2> HIDE DEF state, next, a
  <2>6. Saved(rows[m], state, next) # NULL /\ Saved(rows[m], state, next).state = state
    BY ZenonT(60), <2>2, <2>4, <2>5, SavedFacts
  <2> QED BY ZenonT(60), <1>2, <1>5, <2>1, <2>5, <2>6, PutMoves DEF StateOf
<1> QED BY ZenonT(60), <1>3, <1>4, <1>5

\* A cancellation ends a delivery that waits.
LEMMA CancelMoves ==
  ASSUME MailInv, NEW m \in Mails, rows[m] # NULL, rows[m].state \in Unsettled,
         PutDelivery(m, Saved(rows[m], "cancelled", 0)), UNCHANGED accepted
  PROVE  \A n \in Mails : Moved(n)
<1>1. rows[m] \in MailRows
  BY ZenonT(60) DEF MailInv, RowOK
<1>2. Saved(rows[m], "cancelled", 0) # NULL /\ Saved(rows[m], "cancelled", 0).state = "cancelled"
  <2>1. "cancelled" \in MailStates
    BY ZenonT(60) DEF MailStates, Terminal
  <2> QED BY <1>1, <2>1, SavedFacts
<1> QED BY ZenonT(60), <1>2, PutMoves DEF PutDelivery, StateOf

\* So does the submit handler's when the recipients changed.
LEMMA CancelChangedMoves ==
  ASSUME MailInv, NEW r \in Requests, CancelChanged(r)
  PROVE  \A n \in Mails : Moved(n)
<1>1. PICK m \in Mails : m = req[r].mail
  BY ZenonT(60), ReturnedFacts DEF CancelChanged
<1>2. rows[m] \in MailRows /\ rows[m] # NULL /\ rows[m].payload \in Mailings
  BY ZenonT(60), <1>1, ReturnedFacts DEF CancelChanged, MailRows
<1>3. CASE rows[m].state \in Unsettled /\ PutDelivery(m, Saved(rows[m], "cancelled", 0)) /\ UNCHANGED accepted
  BY ZenonT(60), <1>2, <1>3, CancelMoves
<1>4. CASE UNCHANGED <<rows, accepted>>
  BY ZenonT(60), <1>4 DEF Moved
<1>5. CASE Deliver(r, m, rows[m].payload, FALSE, "task")
  BY ZenonT(60), <1>2, <1>5, DeliverMoves
<1> QED BY ZenonT(60), <1>1, <1>3, <1>4, <1>5 DEF CancelChanged

\* A provider takes a message only while the ledger has it in doubt.
LEMMA TakenMoves ==
  ASSUME MailInv, NEW m \in Mails, accepted' = [accepted EXCEPT ![m] = @ + 1], UNCHANGED rows,
         accepted[m] = 0, rows[m] # NULL, rows[m].state \in Underwritten
  PROVE  \A n \in Mails : Moved(n)
<1> SUFFICES ASSUME NEW n \in Mails PROVE Moved(n)
  BY ZenonT(60)
<1>1. CASE n = m
  BY <1>1 DEF Moved, MailInv, StateOf
<1>2. CASE n # m
  BY ZenonT(60), <1>2 DEF Moved, MailInv
<1> QED BY ZenonT(60), <1>1, <1>2

\* Recovery gives an abandoned submission up and expires what waited too long.
LEMMA RecoverMoves ==
  ASSUME MailInv, NEW kind \in {"submitting", "prepared", "retry_wait"}, Recover(kind)
  PROVE  \A n \in Mails : Moved(n)
<1> SUFFICES ASSUME NEW n \in Mails PROVE Moved(n)
  BY ZenonT(60)
<1> DEFINE final == IF kind = "submitting" THEN "unknown" ELSE "expired"
<1>1. /\ UNCHANGED accepted
      /\ rows'[n] = IF RecoverDue(kind, rows[n]) THEN Saved(rows[n], final, 0) ELSE rows[n]
  BY ZenonT(60) DEF Recover
<1>2. CASE ~RecoverDue(kind, rows[n])
  BY ZenonT(60), <1>1, <1>2 DEF Moved
<1>3. CASE RecoverDue(kind, rows[n])
  <2>1. rows[n] # NULL /\ rows[n].state = kind
    BY ZenonT(60), <1>3 DEF RecoverDue
  <2>2. rows[n] \in MailRows
    BY ZenonT(60), <2>1 DEF MailInv, RowOK
  <2>3. Saved(rows[n], final, 0) # NULL /\ Saved(rows[n], final, 0).state = final
    <3>1. final \in MailStates
      BY ZenonT(60) DEF MailStates, Terminal
    <3> HIDE DEF final
    <3> QED BY <2>2, <3>1, SavedFacts
  <2>4. StateOf(rows[n]) = kind /\ StateOf(rows'[n]) = final
    BY ZenonT(60), <1>1, <1>3, <2>1, <2>3 DEF StateOf
  <2> QED BY ZenonT(60), <1>1, <2>4 DEF Moved, Unsettled, ReportStates
<1> QED BY ZenonT(60), <1>2, <1>3

\* The projection leaves every state alone.
LEMMA ProjectMoves ==
  ASSUME MailInv, ProjectClear \/ ProjectDefer
  PROVE  \A n \in Mails : Moved(n)
<1>1. PICK m \in Mails : m = projector.mail
  BY ZenonT(60), ProjectorFacts DEF ProjectClear, ProjectDefer
<1>2. rows[m] \in MailRows /\ rows[m] # NULL /\ UNCHANGED accepted
  BY ZenonT(60), <1>1, ProjectorFacts DEF ProjectClear, ProjectDefer
<1> DEFINE cleared == [rows[m] EXCEPT !.pending = FALSE]
           deferred == [rows[m] EXCEPT !.projectAt = Later(1)]
<1>3. UNCHANGED rows \/ rows' = [rows EXCEPT ![m] = cleared] \/ rows' = [rows EXCEPT ![m] = deferred]
  BY ZenonT(60), <1>1 DEF ProjectClear, ProjectDefer, PutDelivery
<1>4. Later(1) \in Nat
  BY ZenonT(60), LaterType DEF MailInv
<1>5. cleared \in MailRows /\ deferred \in MailRows /\ cleared.state = rows[m].state /\ deferred.state = rows[m].state
  BY ZenonT(60), <1>2, <1>4 DEF MailRows
<1>6. cleared # NULL /\ deferred # NULL /\ StateOf(rows[m]) = rows[m].state
  BY ZenonT(60), <1>2, <1>5, RowIsNotNull DEF StateOf
<1> HIDE DEF cleared, deferred
<1>7. CASE UNCHANGED rows
  BY ZenonT(60), <1>2, <1>7 DEF Moved
<1> QED BY ZenonT(60), <1>2, <1>3, <1>5, <1>6, <1>7, PutMoves

\* Every step of the mail service moves every delivery so.
LEMMA MailMoves ==
  ASSUME MailInv, MailNext
  PROVE  \A n \in Mails : Moved(n)
<1>1. ASSUME UNCHANGED <<rows, accepted>> PROVE \A n \in Mails : Moved(n)
  BY ZenonT(60), <1>1 DEF Moved
<1>2. CASE MailTick
  BY ZenonT(60), <1>1, <1>2 DEF MailTick
<1>3. ASSUME NEW r \in Requests, NEW m \in Mails, Request(r, m) \/ Execute(r, m)
      PROVE  \A n \in Mails : Moved(n)
  <2>1. rows[m] # NULL => rows[m].payload \in Mailings
    BY ZenonT(60) DEF MailInv, RowOK, MailRows
  <2> QED BY ZenonT(60), <1>3, <2>1, DeliverMoves DEF Request, Execute
<1>4. ASSUME NEW r \in Requests, StopBeforeCall(r) \/ Call(r) \/ Reply(r) \/ Crash(r) \/ ApplyResult(r)
      PROVE  \A n \in Mails : Moved(n)
  <2>1. UNCHANGED <<rows, accepted>>
    BY ZenonT(60), <1>4 DEF StopBeforeCall, Call, Reply, Crash, ApplyResult
  <2> QED BY ZenonT(60), <1>1, <2>1
<1>5. ASSUME NEW r \in Requests, ProviderTakes(r) PROVE \A n \in Mails : Moved(n)
  <2>1. PICK m \in Mails : m = req[r].mail /\ SendingOK(req[r], rows[m], accepted[m], orphans[m])
    BY ZenonT(60), <1>5, SendingFacts DEF ProviderTakes
  <2>2. /\ accepted[m] = 0 /\ rows[m] # NULL /\ rows[m].state \in Underwritten
        /\ UNCHANGED rows /\ accepted' = [accepted EXCEPT ![m] = @ + 1]
    BY ZenonT(60), <1>5, <2>1 DEF ProviderTakes, SendingOK, Underwritten
  <2> QED BY ZenonT(60), <2>2, TakenMoves
<1>6. ASSUME NEW m \in Mails, OrphanTaken(m) PROVE \A n \in Mails : Moved(n)
  <2>1. RowOK(rows[m], accepted[m], orphans[m], now) /\ orphans[m] > 0
    BY ZenonT(60), <1>6 DEF OrphanTaken, MailInv
  <2>2. accepted[m] = 0 /\ orphans[m] # 0 /\ rows[m] # NULL
    BY <2>1 DEF RowOK
  <2>3. rows[m].state \in Underwritten
    BY <2>1, <2>2 DEF RowOK, MailRows, MailStates, Unsettled, Terminal, Underwritten
  <2> QED BY ZenonT(60), <1>6, <2>2, <2>3, TakenMoves DEF OrphanTaken
<1>7. ASSUME NEW m \in Mails, CancelDelivery(m) \/ ProjectRead(m) PROVE \A n \in Mails : Moved(n)
  BY ZenonT(60), <1>1, <1>7, CancelMoves DEF CancelDelivery, ProjectRead
<1>8. CASE ProjectApply \/ ProjectorCrash
  BY ZenonT(60), <1>1, <1>8 DEF ProjectApply, ProjectorCrash
<1>9. /\ \A r \in Requests : Report(r) \/ CancelChanged(r) => \A n \in Mails : Moved(n)
      /\ (\E kind \in {"submitting", "prepared", "retry_wait"} : Recover(kind)) => \A n \in Mails : Moved(n)
      /\ ProjectClear \/ ProjectDefer => \A n \in Mails : Moved(n)
  BY ZenonT(60), ReportMoves, CancelChangedMoves, RecoverMoves, ProjectMoves
<1> QED BY ZenonT(60), <1>2, <1>3, <1>4, <1>5, <1>6, <1>7, <1>8, <1>9 DEF MailNext

\* The ledger's word on a delivery is a renaming of its row's state.
LEMMA PhaseOfRow ==
  ASSUME MailInv, NEW m \in Mails
  PROVE  /\ StateOf(rows[m]) \in MailStates
         /\ StateOf(rows[m]) \in Unsettled => PhaseOf(m) = "ready" /\ accepted[m] = 0
         /\ StateOf(rows[m]) = "submitting" => PhaseOf(m) = "trying"
         /\ StateOf(rows[m]) \in {"failed", "expired", "cancelled"} => PhaseOf(m) = "refused" /\ accepted[m] = 0
         /\ StateOf(rows[m]) \in {"accepted", "unknown"} => PhaseOf(m) = StateOf(rows[m])
         /\ StateOf(rows[m]) = "accepted" => accepted[m] = 1
         /\ accepted[m] \in 0..1
<1>1. RowOK(rows[m], accepted[m], orphans[m], now)
  BY ZenonT(60) DEF MailInv
<1>2. accepted[m] \in 0..1
  BY <1>1 DEF RowOK
<1>3. CASE rows[m] = NULL
  BY ZenonT(60), <1>1, <1>2, <1>3 DEF StateOf, PhaseOf, RowOK, MailStates, Unsettled
<1>4. CASE rows[m] # NULL
  <2>1. rows[m].state \in MailStates /\ StateOf(rows[m]) = rows[m].state
    BY ZenonT(60), <1>1, <1>4 DEF RowOK, MailRows, StateOf
  <2> QED BY ZenonT(60), <1>1, <1>2, <1>4, <2>1 DEF PhaseOf, RowOK, MailStates, Unsettled, Terminal
<1> QED BY ZenonT(60), <1>3, <1>4

\* The same of the next state.
LEMMA PhaseOfNext ==
  ASSUME MailInv', NEW m \in Mails
  PROVE  /\ StateOf(rows'[m]) \in MailStates
         /\ StateOf(rows'[m]) \in Unsettled => PhaseOf(m)' = "ready" /\ accepted'[m] = 0
         /\ StateOf(rows'[m]) = "submitting" => PhaseOf(m)' = "trying"
         /\ StateOf(rows'[m]) \in {"failed", "expired", "cancelled"} => PhaseOf(m)' = "refused" /\ accepted'[m] = 0
         /\ StateOf(rows'[m]) \in {"accepted", "unknown"} => PhaseOf(m)' = StateOf(rows'[m])
         /\ StateOf(rows'[m]) = "accepted" => accepted'[m] = 1
         /\ accepted'[m] \in 0..1
<1>1. RowOK(rows'[m], accepted'[m], orphans'[m], now')
  BY ZenonT(60) DEF MailInv
<1>2. accepted'[m] \in 0..1
  BY <1>1 DEF RowOK
<1>3. CASE rows'[m] = NULL
  BY ZenonT(60), <1>1, <1>2, <1>3 DEF StateOf, PhaseOf, RowOK, MailStates, Unsettled
<1>4. CASE rows'[m] # NULL
  <2>1. rows'[m].state \in MailStates /\ StateOf(rows'[m]) = rows'[m].state
    BY ZenonT(60), <1>1, <1>4 DEF RowOK, MailRows, StateOf
  <2> QED BY ZenonT(60), <1>1, <1>2, <1>4, <2>1 DEF PhaseOf, RowOK, MailStates, Unsettled, Terminal
<1> QED BY ZenonT(60), <1>3, <1>4

\* A move of a delivery is a step of the ledger.
LEMMA MovedIsStep ==
  ASSUME MailInv, MailInv', NEW m \in Mails, Moved(m)
  PROVE  MailLedger!Step(m) \/ MailLedger!Becomes(m, PhaseOf(m))
<1> DEFINE s == StateOf(rows[m])
           t == StateOf(rows'[m])
           p == PhaseOf(m)
           q == PhaseOf(m)'
<1>1. /\ s \in MailStates
      /\ s \in Unsettled => p = "ready" /\ accepted[m] = 0
      /\ s = "submitting" => p = "trying"
      /\ s \in {"failed", "expired", "cancelled"} => p = "refused" /\ accepted[m] = 0
      /\ s \in {"accepted", "unknown"} => p = s
      /\ s = "accepted" => accepted[m] = 1
  BY ZenonT(60), PhaseOfRow
<1>2. /\ t \in MailStates
      /\ t \in Unsettled => q = "ready" /\ accepted'[m] = 0
      /\ t = "submitting" => q = "trying"
      /\ t \in {"failed", "expired", "cancelled"} => q = "refused" /\ accepted'[m] = 0
      /\ t \in {"accepted", "unknown"} => q = t
      /\ t = "accepted" => accepted'[m] = 1
  BY ZenonT(60), PhaseOfNext
<1>3. \/ accepted'[m] = accepted[m] /\ t = s
      \/ accepted'[m] = accepted[m] /\ s \in Unsettled /\ t \in {"submitting", "expired", "cancelled"}
      \/ accepted'[m] = accepted[m] /\ s = "submitting" /\ t \in ReportStates
      \/ t = s /\ s \in Underwritten /\ accepted[m] = 0 /\ accepted'[m] = 1
  BY ZenonT(60) DEF Moved
<1> HIDE DEF s, t, p, q
<1>4. CASE accepted'[m] = accepted[m] /\ t = s
  <2>1. q = p
    BY <1>1, <1>2, <1>4 DEF MailStates, Unsettled, Terminal
  <2> QED BY ZenonT(60), <1>4, <2>1 DEF MailLedger!Becomes, p, q
<1>5. CASE accepted'[m] = accepted[m] /\ s \in Unsettled /\ t \in {"submitting", "expired", "cancelled"}
  BY ZenonT(60), <1>1, <1>2, <1>5
  DEF MailLedger!Becomes, MailLedger!Step, MailLedger!Try, MailLedger!Refuse, p, q
<1>6. CASE accepted'[m] = accepted[m] /\ s = "submitting" /\ t \in ReportStates
  <2>1. /\ p = "trying"
        /\ \/ q = "accepted" /\ accepted[m] = 1
           \/ q = "refused" /\ accepted[m] = 0
           \/ q = "ready" /\ accepted[m] = 0
           \/ q = "unknown"
    BY ZenonT(60), <1>1, <1>2, <1>6 DEF ReportStates, Unsettled
  <2> QED BY ZenonT(60), <1>6, <2>1
    DEF MailLedger!Becomes, MailLedger!Step, MailLedger!Release, MailLedger!Accept, MailLedger!Refuse,
        MailLedger!GiveUp, p, q
<1>7. CASE t = s /\ s \in Underwritten /\ accepted[m] = 0 /\ accepted'[m] = 1
  <2>1. q = p /\ p \in {"trying", "unknown"}
    BY ZenonT(60), <1>1, <1>2, <1>7 DEF Underwritten
  <2> QED BY ZenonT(60), <1>7, <2>1 DEF MailLedger!Step, MailLedger!Perform, p, q
<1> QED BY ZenonT(60), <1>3, <1>4, <1>5, <1>6, <1>7

\* The tally of the providers is a function on the mails.
Tallied == accepted = [m \in Mails |-> accepted[m]]

\* The tally of acceptances is a function of the mails.
LEMMA TalliedAlways == MailSpec => []Tallied
<1>1. MailInit => Tallied
  BY ZenonT(60) DEF MailInit, Tallied
<1>2. Tallied /\ [MailNext]_mailVars => Tallied'
  <2> SUFFICES ASSUME Tallied, [MailNext]_mailVars PROVE Tallied'
    BY ZenonT(60)
  <2>1. ASSUME NEW m, accepted' = [accepted EXCEPT ![m] = @ + 1] PROVE Tallied'
    BY ZenonT(60), <2>1 DEF Tallied
  <2>2. CASE UNCHANGED accepted
    BY ZenonT(60), <2>2 DEF Tallied
  <2>3. ASSUME NEW r \in Requests, NEW m \in Mails, Request(r, m) \/ Execute(r, m) PROVE UNCHANGED accepted
    BY ZenonT(60), <2>3 DEF Request, Execute, Deliver
  <2>4. ASSUME NEW r \in Requests,
               \/ StopBeforeCall(r) \/ Call(r) \/ Reply(r) \/ Report(r) \/ Crash(r) \/ ApplyResult(r)
        PROVE  UNCHANGED accepted
    BY ZenonT(60), <2>4 DEF StopBeforeCall, Call, Reply, Report, Crash, ApplyResult
  <2>5. ASSUME NEW r \in Requests, CancelChanged(r) PROVE UNCHANGED accepted
    BY ZenonT(60), <2>5 DEF CancelChanged, Deliver
  <2>6. ASSUME NEW m \in Mails, CancelDelivery(m) \/ ProjectRead(m) PROVE UNCHANGED accepted
    BY ZenonT(60), <2>6 DEF CancelDelivery, ProjectRead
  <2>7. ASSUME NEW kind, Recover(kind) PROVE UNCHANGED accepted
    BY ZenonT(60), <2>7 DEF Recover
  <2>8. MailTick \/ ProjectApply \/ ProjectClear \/ ProjectDefer \/ ProjectorCrash \/ UNCHANGED mailVars
          => UNCHANGED accepted
    BY ZenonT(60) DEF MailTick, ProjectApply, ProjectClear, ProjectDefer, ProjectorCrash, mailVars
  <2>9. ASSUME NEW r \in Requests, ProviderTakes(r) PROVE Tallied'
    BY ZenonT(60), <2>1, <2>9 DEF ProviderTakes
  <2>10. ASSUME NEW m \in Mails, OrphanTaken(m) PROVE Tallied'
    BY ZenonT(60), <2>1, <2>10 DEF OrphanTaken
  <2> QED BY ZenonT(60), <2>2, <2>3, <2>4, <2>5, <2>6, <2>7, <2>8, <2>9, <2>10 DEF MailNext
<1> QED BY <1>1, <1>2, PTL DEF MailSpec

\* Every step of the mail service is a step of the ledger of external effects:
\* failover, retries, crashes between the two transactions of Deliver and late
\* acceptances included, a message is taken at most once, and only while its
\* row is submitting or unknown.
THEOREM MailStoreImplementsLedger == MailSpec => MailImplementsLedger
<1>1. MailInit => MailLedger!Init
  BY ZenonT(60) DEF MailInit, MailLedger!Init, PhaseOf
<1>2. MailInv /\ MailInv' /\ Tallied' /\ [MailNext]_mailVars => [MailLedger!Next]_<<rows, accepted>>
  <2> SUFFICES ASSUME MailInv, MailInv', Tallied', MailNext PROVE MailLedger!Next
    BY ZenonT(60) DEF mailVars
  <2>1. [m \in Mails |-> PhaseOf(m)]' \in [Mails -> MailLedger!Phases]
    BY ZenonT(60), PhaseOfNext DEF MailLedger!Phases, MailStates, Unsettled, Terminal
  <2>2. accepted' \in [Mails -> Nat]
    BY PhaseOfNext DEF Tallied
  <2>3. \A m \in Mails : Moved(m)
    BY ZenonT(60), MailMoves
  <2>4. \A m \in Mails : MailLedger!Step(m) \/ MailLedger!Becomes(m, PhaseOf(m))
    BY ZenonT(60), <2>3, MovedIsStep
  <2> QED BY ZenonT(60), <2>1, <2>2, <2>4 DEF MailLedger!Next
<1> QED BY <1>1, <1>2, MailInductive, TalliedAlways, PTL DEF MailSpec, MailImplementsLedger
=============================================================================
