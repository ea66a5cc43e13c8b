------------------------------ MODULE EndsProofs ------------------------------
(***************************************************************************)
(* What is proved of the workers that answer, deliver and post, and of the *)
(* pages that show it: guessing is slowed down, a phone becomes one lead,  *)
(* only what was paid for counts, what has ended stays as it ended (the    *)
(* answer to a request of another system, the delivery of a webhook, the   *)
(* summary of a page), one process posts a row of the CRM and one claim of *)
(* the inbox holds an event, and a page owns what it shows.                *)
(***************************************************************************)
EXTENDS MCDeliveries, DialQueueProofs, FiniteSetTheorems, TLAPS

-----------------------------------------------------------------------------
(* LoginGuard: each request in flight may still count one failure, so the  *)
(* failures and the requests that are trying stay below the bound together.*)
Trying == {a \in Logins : loginPhase[a] = "trying"}

GuessInv ==
    /\ failures \in Nat
    /\ loginPhase \in [Logins -> {"idle", "trying", "first"}]
    /\ failures + Cardinality(Trying) < LoginLimit + Cardinality(Logins)

LEMMA TryingCount ==
  ASSUME loginPhase \in [Logins -> {"idle", "trying", "first"}]
  PROVE  /\ IsFiniteSet(Trying) /\ Cardinality(Trying) \in Nat /\ Cardinality(Logins) \in Nat
         /\ Cardinality(Trying) <= Cardinality(Logins)
BY LoginConstants, FS_Subset, FS_CardinalityType DEF Trying

\* A request that leaves the trying ones lowers their number by one.
LEMMA StopsTrying ==
  ASSUME loginPhase \in [Logins -> {"idle", "trying", "first"}], NEW a \in Logins,
         loginPhase[a] = "trying", NEW v \in {"idle", "first"},
         loginPhase' = [loginPhase EXCEPT ![a] = v]
  PROVE  /\ Cardinality(Trying') = Cardinality(Trying) - 1
         /\ loginPhase' \in [Logins -> {"idle", "trying", "first"}]
<1>1. Trying' = Trying \ {a} /\ a \in Trying BY DEF Trying
<1>2. Cardinality(Trying \ {a}) = IF a \in Trying THEN Cardinality(Trying) - 1 ELSE Cardinality(Trying)
  BY TryingCount, FS_RemoveElement
<1> QED BY <1>1, <1>2

LEMMA StepGuess == GuessInv /\ [LoginNext]_loginVars => GuessInv'
<1> SUFFICES ASSUME GuessInv, [LoginNext]_loginVars PROVE GuessInv'
  OBVIOUS
<1>0. /\ IsFiniteSet(Trying) /\ Cardinality(Trying) \in Nat /\ Cardinality(Logins) \in Nat
      /\ Cardinality(Trying) <= Cardinality(Logins) /\ LoginLimit \in Nat \ {0}
  BY TryingCount, LoginConstants DEF GuessInv
<1>1. CASE UNCHANGED loginVars BY <1>1 DEF GuessInv, Trying, loginVars
<1>2. ASSUME NEW a \in Logins, BeginLogin(a) PROVE GuessInv'
  <2>1. /\ failures < LoginLimit /\ failures' = failures /\ loginPhase[a] = "idle"
        /\ loginPhase' = [loginPhase EXCEPT ![a] = "trying"]
    BY <1>2 DEF BeginLogin, MayTry, Phase
  <2>2. Trying' = Trying \cup {a} /\ a \notin Trying BY <2>1 DEF Trying, GuessInv
  <2>3. Cardinality(Trying \cup {a}) = IF a \in Trying THEN Cardinality(Trying) ELSE Cardinality(Trying) + 1
    BY <1>0, FS_AddElement
  <2>4. loginPhase' \in [Logins -> {"idle", "trying", "first"}] BY <2>1 DEF GuessInv
  <2>5. Cardinality(Trying') <= Cardinality(Logins) BY <2>4, LoginConstants, FS_Subset DEF Trying
  <2> QED BY <1>0, <2>1, <2>2, <2>3, <2>4, <2>5 DEF GuessInv
<1>3. ASSUME NEW a \in Logins, WrongPassword(a) PROVE GuessInv'
  <2>1. PICK v \in {"idle", "first"} : loginPhase' = [loginPhase EXCEPT ![a] = v]
    BY <1>3 DEF WrongPassword, Phase
  <2>2. loginPhase[a] = "trying" /\ failures' = failures + 1 BY <1>3 DEF WrongPassword, Phase
  <2>3. /\ Cardinality(Trying') = Cardinality(Trying) - 1
        /\ loginPhase' \in [Logins -> {"idle", "trying", "first"}]
    BY <2>1, <2>2, StopsTrying DEF GuessInv
  <2> QED BY <1>0, <2>2, <2>3 DEF GuessInv
<1>4. ASSUME NEW a \in Logins, RightPassword(a) PROVE GuessInv'
  <2>1. /\ loginPhase[a] = "trying" /\ failures' = 0
        /\ loginPhase' = [loginPhase EXCEPT ![a] = "idle"]
    BY <1>4 DEF RightPassword, Phase
  <2>2. /\ Cardinality(Trying') = Cardinality(Trying) - 1
        /\ loginPhase' \in [Logins -> {"idle", "trying", "first"}]
    BY <2>1, StopsTrying DEF GuessInv
  <2> QED BY <1>0, <2>1, <2>2 DEF GuessInv
<1>5. ASSUME NEW a \in Logins, SetLife(a) PROVE GuessInv'
  <2>1. /\ failures' = failures /\ loginPhase[a] = "first"
        /\ loginPhase' = [loginPhase EXCEPT ![a] = "idle"]
    BY <1>5 DEF SetLife, Phase
  <2>2. Trying' = Trying BY <2>1 DEF Trying, GuessInv
  <2> QED BY <2>1, <2>2 DEF GuessInv
<1>6. CASE FailuresExpire
  <2>1. failures' = 0 /\ UNCHANGED loginPhase BY <1>6 DEF FailuresExpire
  <2>2. Trying' = Trying BY <2>1 DEF Trying
  <2> QED BY <1>0, <2>1, <2>2 DEF GuessInv
<1>7. ASSUME NEW a \in Logins, LoginDies(a) PROVE GuessInv'
  <2>1. failures' = failures /\ loginPhase' = [loginPhase EXCEPT ![a] = "idle"]
    BY <1>7 DEF LoginDies
  <2>2. CASE loginPhase[a] = "trying"
    <3>1. /\ Cardinality(Trying') = Cardinality(Trying) - 1
          /\ loginPhase' \in [Logins -> {"idle", "trying", "first"}]
      BY <2>1, <2>2, StopsTrying DEF GuessInv
    <3> QED BY <1>0, <2>1, <3>1 DEF GuessInv
  <2>3. CASE loginPhase[a] # "trying"
    <3>1. Trying' = Trying BY <2>1, <2>3 DEF Trying, GuessInv
    <3> QED BY <2>1, <3>1 DEF GuessInv
  <2> QED BY <2>2, <2>3
<1> QED BY <1>1, <1>2, <1>3, <1>4, <1>5, <1>6, <1>7 DEF LoginNext, LoginStep

LEMMA InitGuess == LoginInit => GuessInv
<1> SUFFICES ASSUME LoginInit PROVE GuessInv
  OBVIOUS
<1>1. Trying = {} BY DEF Trying, LoginInit
<1>2. Cardinality(Trying) = 0 BY <1>1, FS_EmptySet
<1>3. Cardinality(Logins) \in Nat BY LoginConstants, FS_CardinalityType
<1> QED BY <1>2, <1>3, LoginConstants DEF LoginInit, GuessInv

\* Before the counter expires, or a right password clears it, at most the limit and
\* one more for every other request in flight are counted, however the reads and
\* the counts of login() interleave.
THEOREM FewGuesses == LoginSpec => []GuessesBounded
<1>1. LoginInit => GuessInv BY InitGuess
<1>2. GuessInv /\ [LoginNext]_loginVars => GuessInv' BY StepGuess
<1>3. GuessInv => GuessesBounded
  <2> SUFFICES ASSUME GuessInv PROVE GuessesBounded
    OBVIOUS
  <2> QED BY TryingCount, LoginConstants DEF GuessInv, GuessesBounded
<1> QED BY <1>1, <1>2, <1>3, PTL DEF LoginSpec
-----------------------------------------------------------------------------
(* LeadIntake: the lead is looked for and created under one lock.          *)
LeadsInv == intakeLeads \in [IntakePhones -> Nat] /\ LeadCreatedOnce

LEMMA StepLeads == LeadsInv /\ [IntakeNext]_intakeVars => LeadsInv'
<1> SUFFICES ASSUME LeadsInv, [IntakeNext]_intakeVars PROVE LeadsInv'
  OBVIOUS
<1>1. ASSUME NEW i \in Intakers, UpsertLead(i) PROVE LeadsInv'
  <2> DEFINE p == PhoneOf[WorkOf(i).key]
  <2>1. intakeLeads' = IF intakeLeads[p] > 0 THEN intakeLeads ELSE [intakeLeads EXCEPT ![p] = @ + 1]
    BY <1>1 DEF UpsertLead, KnownLead
  <2> HIDE DEF p
  <2>2. ASSUME NEW q \in IntakePhones PROVE intakeLeads'[q] \in Nat /\ intakeLeads'[q] <= 1
    BY <2>1 DEF LeadsInv, LeadCreatedOnce
  <2>3. intakeLeads' = [q \in IntakePhones |-> intakeLeads'[q]] BY <2>1 DEF LeadsInv
  <2> QED BY <2>2, <2>3 DEF LeadsInv, LeadCreatedOnce
<1>2. CASE UNCHANGED intakeLeads BY <1>2 DEF LeadsInv, LeadCreatedOnce
<1>3. UNCHANGED intakeLeads \/ \E i \in Intakers : UpsertLead(i)
  BY DEF IntakeNext, IntakerStep, intakeVars, Accept, AckLate, AckNever, RevokeIntegration,
         IntakerDies, Publish, PublishFails, ReadEvent, EventEnds, EventFails, TakeLine, Deliver
<1> QED BY <1>1, <1>2, <1>3

\* A phone becomes one lead, however many requests carry it, however often their
\* messages are delivered and whichever processes work on them at once.
THEOREM OneLeadPerPhone == IntakeSpec => []LeadCreatedOnce
<1>1. IntakeInit => LeadsInv BY DEF IntakeInit, LeadsInv, LeadCreatedOnce
<1>2. LeadsInv /\ [IntakeNext]_intakeVars => LeadsInv' BY StepLeads
<1>3. LeadsInv => LeadCreatedOnce BY DEF LeadsInv
<1> QED BY <1>1, <1>2, <1>3, PTL DEF IntakeSpec
-----------------------------------------------------------------------------
(* SubscriptionSync: the types, with those of what is under way.           *)
Dates == 0..SubEnd
Kinds == {"updated", "paid", "deleted"}
InboxEvents == [type : {"none", "done"}] \cup [type : Kinds, at : Dates, snap : Snaps]
Fetched == [pc : {"fetched"}, type : Kinds \cup {"reconcile"}, snap : Snaps, at : Dates \cup {-1}]
Reading == [pc : {"read"}, type : Kinds \cup {"reconcile"}, snap : Snaps, at : Dates,
            existing : Times]
GoodRows == {row \in SubRows : row.ended => row.until = 0}
Syncing == [pc : {"sync"}, row : GoodRows, ent : Entitlements]
Computing == [pc : {"recompute"}, ent : Entitlements]
Granting == [pc : {"grant"}, until : Times, ent : Entitlements]
Tasks == {Idle} \cup Fetched \cup Reading \cup Syncing \cup Computing \cup Granting

SubTypes ==
  /\ subNow \in Dates /\ stripeSub \in Snaps /\ subRow \in GoodRows
  /\ entRow \in Entitlements /\ grantUntil \in Times \cup {-1}
  /\ subInbox \in [SubEvents -> InboxEvents]
  /\ subTask \in [Syncers \cup {"granter"} -> Tasks]
  /\ paidFor \in [end : Times, seats : SeatCounts, late : BOOLEAN]

(* What was paid for bounds the payments that wait, the tasks that write   *)
(* and the row.                                                            *)
Within(snap) == snap.end <= paidFor.end /\ snap.seats <= paidFor.seats
TaskPaid(t) ==
  /\ t \in Fetched \cup Reading /\ t.type = "paid" => Within(t.snap)
  /\ t \in Reading => t.existing <= paidFor.end
  /\ t \in Syncing => t.row.until <= paidFor.end /\ t.row.seats <= paidFor.seats
TasksPaid == \A p \in Syncers \cup {"granter"} : TaskPaid(subTask[p])
PaymentsWait == \A e \in SubEvents : subInbox[e].type = "paid" => Within(subInbox[e].snap)

PaidInv ==
  /\ SubTypes /\ PaymentsWait /\ paidFor.end <= stripeSub.end
  /\ ~paidFor.late => OnlyPaidCounts /\ TasksPaid

LEMMA TaskKinds ==
  /\ \A t \in Fetched : t.pc = "fetched" /\ t \in Tasks
  /\ \A t \in Reading : t.pc = "read" /\ t \in Tasks
  /\ \A t \in Syncing : t.pc = "sync" /\ t \in Tasks
  /\ \A t \in Computing : t.pc = "recompute" /\ t \in Tasks
  /\ \A t \in Granting : t.pc = "grant" /\ t \in Tasks
  /\ Idle \in Tasks /\ Idle.pc = "idle"
  /\ \A t \in Tasks : /\ t.pc = "fetched" => t \in Fetched
                      /\ t.pc = "read" => t \in Reading
                      /\ t.pc = "sync" => t \in Syncing
                      /\ t.pc = "recompute" => t \in Computing
                      /\ t.pc = "grant" => t \in Granting
BY DEF Tasks, Fetched, Reading, Syncing, Computing, Granting, Idle

\* Tasks that write nothing of the row are within whatever was paid for.
LEMMA HarmlessTask ==
  ASSUME NEW t \in Tasks, t.pc \in {"idle", "recompute", "grant"}
  PROVE  TaskPaid(t)
BY TaskKinds DEF TaskPaid

LEMMA RecomputeType ==
  ASSUME SubTypes, NEW row \in SubRows, NEW grant \in Times \cup {-1}
  PROVE  Recompute(row, grant) \in Entitlements
<1>1. NoAccess \in Entitlements BY SubConstants DEF NoAccess, Entitlements, Times
<1>2. row.until \in Times /\ row.seats \in SeatCounts BY DEF SubRows
<1>3. grant > subNow => grant \in Times BY SubConstants DEF SubTypes, Dates, Times
<1>4. ASSUME NEW until \in Times, NEW seats \in SeatCounts, NEW source \in {"stripe", "manual_grant"}
      PROVE  [mode |-> "full", source |-> source, until |-> until, seats |-> seats] \in Entitlements
  BY DEF Entitlements
<1> QED BY <1>1, <1>2, <1>3, <1>4, SubConstants DEF Recompute

\* What a sync writes keeps the types, and ends with no date.
LEMMA SyncedType ==
  ASSUME NEW row \in GoodRows, NEW t \in Reading
  PROVE  Synced(row, t) \in GoodRows
<1>1. /\ row \in SubRows /\ t.snap \in Snaps /\ t.at \in Dates /\ t.existing \in Times
      /\ t.snap.status \in {"active", "past_due", "canceled"} /\ t.snap.seats \in SeatCounts
      /\ t.snap.end \in Times
  BY DEF GoodRows, Reading, Snaps
<1>2. row.until \in Times /\ row.seats \in SeatCounts /\ row.pending \in SeatCounts \cup {-1}
  BY <1>1 DEF SubRows
<1>3. AccessUntil(t) \in Times
  BY <1>1, SubConstants DEF AccessUntil, Times, Reading, Kinds
<1> DEFINE ended == t.type = "deleted" \/ t.snap.status = "canceled"
           new == [known |-> TRUE, status |-> t.snap.status, ended |-> ended, at |-> t.at,
                   until |-> IF ended THEN 0 ELSE IF AccessUntil(t) = 0 THEN row.until ELSE AccessUntil(t),
                   seats |-> IF t.type = "paid" THEN t.snap.seats ELSE row.seats,
                   pending |-> IF t.type = "paid" THEN -1
                               ELSE IF ~row.known \/ t.snap.seats # row.seats THEN t.snap.seats
                               ELSE row.pending]
<1>4. new \in SubRows
  <2>1. ended \in BOOLEAN OBVIOUS
  <2>2. (IF ended THEN 0 ELSE IF AccessUntil(t) = 0 THEN row.until ELSE AccessUntil(t)) \in Times
    BY <1>2, <1>3, SubConstants DEF Times
  <2> QED BY <1>1, <1>2, <2>1, <2>2 DEF SubRows, Dates
<1>5. new.ended => new.until = 0 OBVIOUS
<1>6. Synced(row, t) \in {row, new} BY DEF Synced
<1> QED BY <1>4, <1>5, <1>6 DEF GoodRows

\* A sync within what was paid for writes a row within it: only a payment moves
\* the date and the seats on.
LEMMA SyncedPaid ==
  ASSUME PaidInv, NEW row \in GoodRows, NEW t \in Reading, TaskPaid(t),
         row.until <= paidFor.end, row.seats <= paidFor.seats
  PROVE  Synced(row, t).until <= paidFor.end /\ Synced(row, t).seats <= paidFor.seats
<1>1. paidFor.end \in Times /\ paidFor.end >= 0 BY SubConstants DEF PaidInv, SubTypes, Times
<1>2. AccessUntil(t) <= paidFor.end
  BY <1>1, SubConstants DEF AccessUntil, TaskPaid, Within, Reading, Kinds
<1>3. t.type = "paid" => t.snap.seats <= paidFor.seats BY DEF TaskPaid, Within
<1> QED BY <1>1, <1>2, <1>3 DEF Synced

LEMMA Numbers ==
  /\ \A x \in Times : x \in Nat /\ x \in Int
  /\ \A x \in SeatCounts : x \in Nat /\ x \in Int
BY SubConstants DEF Times

LEMMA SnapNumbers == ASSUME NEW s \in Snaps PROVE s.end \in Nat /\ s.seats \in Nat
<1>1. s.end \in Times /\ s.seats \in SeatCounts BY DEF Snaps
<1> QED BY <1>1, Numbers

LEMMA RowNumbers == ASSUME NEW r \in GoodRows PROVE r.until \in Nat /\ r.seats \in Nat
<1>1. r.until \in Times /\ r.seats \in SeatCounts BY DEF GoodRows, SubRows
<1> QED BY <1>1, Numbers

LEMMA PaidNumbers ==
  ASSUME NEW q \in [end : Times, seats : SeatCounts, late : BOOLEAN]
  PROVE  q.end \in Nat /\ q.seats \in Nat
<1>1. q.end \in Times /\ q.seats \in SeatCounts OBVIOUS
<1> QED BY <1>1, Numbers

\* A step of one task that leaves the row and what was paid for alone.
LEMMA TaskStep ==
  ASSUME PaidInv, NEW p \in Syncers \cup {"granter"}, NEW t \in Tasks,
         subTask' = [subTask EXCEPT ![p] = t], ~paidFor.late => TaskPaid(t),
         UNCHANGED <<subNow, stripeSub, subInbox, subRow, grantUntil, entRow, paidFor>>
  PROVE  PaidInv'
<1>1. SubTypes' BY DEF PaidInv, SubTypes
<1>2. PaymentsWait' /\ (paidFor.end <= stripeSub.end)' BY DEF PaidInv, PaymentsWait, Within
<1>3. ASSUME ~paidFor.late, NEW q \in Syncers \cup {"granter"} PROVE TaskPaid(subTask'[q])
  BY <1>3 DEF PaidInv, SubTypes, TasksPaid
<1>5. ~paidFor.late => TasksPaid'
  BY <1>3 DEF TasksPaid, TaskPaid, Within
<1>6. ~paidFor.late => OnlyPaidCounts' BY DEF PaidInv, OnlyPaidCounts
<1> QED BY <1>1, <1>2, <1>5, <1>6 DEF PaidInv

\* A change at Stripe: the event is typed, and so are the waiting payments.
LEMMA EmitTypes ==
  ASSUME SubTypes, NEW type \in Kinds, NEW snap \in Snaps, Emit(type, snap)
  PROVE  /\ subInbox' \in [SubEvents -> InboxEvents]
         /\ \A e \in SubEvents : subInbox'[e] = subInbox[e]
              \/ (subInbox'[e].type = type /\ subInbox'[e].snap = snap)
<1>1. PICK e \in SubEvents :
        subInbox' = [subInbox EXCEPT ![e] = [type |-> type, at |-> subNow, snap |-> snap]]
  BY DEF Emit
<1> DEFINE ev == [type |-> type, at |-> subNow, snap |-> snap]
<1>2. ev \in InboxEvents BY DEF InboxEvents, SubTypes, Kinds
<1>3. ev.type = type /\ ev.snap = snap OBVIOUS
<1> HIDE DEF ev
<1> QED BY <1>1, <1>2, <1>3 DEF SubTypes, ev

LEMMA TasksPaidKeeps ==
  ASSUME TasksPaid, SubTypes, UNCHANGED subTask, paidFor.end <= paidFor'.end,
         paidFor.seats <= paidFor'.seats, paidFor' \in [end : Times, seats : SeatCounts, late : BOOLEAN]
  PROVE  TasksPaid'
<1> SUFFICES ASSUME NEW p \in Syncers \cup {"granter"} PROVE TaskPaid(subTask[p])'
  BY DEF TasksPaid
<1>0. /\ paidFor.end \in Nat /\ paidFor'.end \in Nat /\ paidFor.seats \in Nat /\ paidFor'.seats \in Nat
  <2>1. paidFor \in [end : Times, seats : SeatCounts, late : BOOLEAN] BY DEF SubTypes
  <2> QED BY <2>1, PaidNumbers
<1> DEFINE t == subTask[p]
<1>1. TaskPaid(t) /\ t' = t BY DEF TasksPaid
<1>2. ASSUME t \in Fetched \cup Reading PROVE t.snap.end \in Nat /\ t.snap.seats \in Nat
  <2>1. t.snap \in Snaps BY <1>2 DEF Fetched, Reading
  <2> QED BY <2>1, SnapNumbers
<1>3. t \in Reading => t.existing \in Nat BY Numbers DEF Reading
<1>4. ASSUME t \in Syncing PROVE t.row.until \in Nat /\ t.row.seats \in Nat
  <2>1. t.row \in GoodRows BY <1>4 DEF Syncing
  <2> QED BY <2>1, RowNumbers
<1> HIDE DEF t
<1>5. /\ t \in Fetched \cup Reading /\ t.type = "paid" =>
           t.snap.end <= paidFor'.end /\ t.snap.seats <= paidFor'.seats
      /\ t \in Reading => t.existing <= paidFor'.end
      /\ t \in Syncing => t.row.until <= paidFor'.end /\ t.row.seats <= paidFor'.seats
  BY <1>0, <1>1, <1>2, <1>3, <1>4 DEF TaskPaid, Within
<1>6. subTask'[p] = t BY DEF t
<1> QED BY <1>5, <1>6 DEF TaskPaid, Within, Fetched, Reading, Syncing, GoodRows, SubRows, Snaps,
  Times, Dates, Kinds, Entitlements

LEMMA StripeKeepsPaid ==
  ASSUME PaidInv, NEW n \in SeatCounts, BuysSeats(n) \/ Renews \/ Pays \/ Cancels
  PROVE  PaidInv'
<1>0. /\ stripeSub \in Snaps /\ stripeSub.end \in Times /\ stripeSub.seats \in SeatCounts
      /\ paidFor \in [end : Times, seats : SeatCounts, late : BOOLEAN] /\ SubTypes
      /\ paidFor.end \in Nat /\ paidFor.seats \in Nat
      /\ stripeSub.end \in Nat /\ stripeSub.seats \in Nat
  <2>1. /\ stripeSub \in Snaps /\ SubTypes
        /\ paidFor \in [end : Times, seats : SeatCounts, late : BOOLEAN]
    BY DEF PaidInv, SubTypes
  <2>2. stripeSub.end \in Times /\ stripeSub.seats \in SeatCounts BY <2>1 DEF Snaps
  <2> QED BY <2>1, <2>2, SnapNumbers, PaidNumbers
<1>1. PICK snap \in Snaps, type \in Kinds :
        /\ StripeChange(snap, type) /\ stripeSub.end <= snap.end
        /\ \/ UNCHANGED paidFor /\ type # "paid"
           \/ /\ snap.end = stripeSub.end /\ snap.seats = stripeSub.seats
              /\ paidFor' = [paidFor EXCEPT !.end = stripeSub.end,
                               !.seats = IF stripeSub.seats > @ THEN stripeSub.seats ELSE @]
  <2>1. CASE BuysSeats(n)
    <3> DEFINE snap == [stripeSub EXCEPT !.seats = n]
    <3>1. snap \in Snaps /\ snap.end = stripeSub.end BY <1>0 DEF Snaps
    <3>2. "updated" \in Kinds BY DEF Kinds
    <3>3. stripeSub.end <= snap.end BY <1>0, <3>1
    <3> QED BY <2>1, <3>1, <3>2, <3>3 DEF BuysSeats
  <2>2. CASE Renews
    <3> DEFINE snap == [stripeSub EXCEPT !.end = @ + Period, !.status = "past_due"]
    <3>1. stripeSub.end + Period \in Times
      BY <1>0, <2>2, SubConstants DEF Renews, Times, SubTypes, Dates
    <3>2. snap \in Snaps /\ snap.end = stripeSub.end + Period BY <1>0, <3>1 DEF Snaps
    <3>3. stripeSub.end <= snap.end BY <1>0, <3>2, SubConstants
    <3>4. "updated" \in Kinds BY DEF Kinds
    <3> QED BY <2>2, <3>2, <3>3, <3>4 DEF Renews
  <2>3. CASE Pays
    <3> DEFINE snap == [stripeSub EXCEPT !.status = "active"]
    <3>1. snap \in Snaps /\ snap.end = stripeSub.end /\ snap.seats = stripeSub.seats BY <1>0 DEF Snaps
    <3>2. "paid" \in Kinds BY DEF Kinds
    <3>3. stripeSub.end <= snap.end BY <1>0, <3>1
    <3> QED BY <2>3, <3>1, <3>2, <3>3 DEF Pays
  <2>4. CASE Cancels
    <3> DEFINE snap == [stripeSub EXCEPT !.status = "canceled"]
    <3>1. snap \in Snaps /\ snap.end = stripeSub.end BY <1>0 DEF Snaps
    <3>2. "deleted" \in Kinds BY DEF Kinds
    <3>3. stripeSub.end <= snap.end BY <1>0, <3>1
    <3> QED BY <2>4, <3>1, <3>2, <3>3 DEF Cancels
  <2> QED BY <2>1, <2>2, <2>3, <2>4
<1>2. /\ stripeSub' = snap /\ Emit(type, snap)
      /\ UNCHANGED <<subNow, subRow, grantUntil, entRow, subTask>>
  BY <1>1 DEF StripeChange
<1>3. /\ subInbox' \in [SubEvents -> InboxEvents]
      /\ \A e \in SubEvents : subInbox'[e] = subInbox[e]
              \/ (subInbox'[e].type = type /\ subInbox'[e].snap = snap)
  BY <1>0, <1>2, EmitTypes
<1>4. /\ paidFor' \in [end : Times, seats : SeatCounts, late : BOOLEAN]
      /\ paidFor.end <= paidFor'.end /\ paidFor.seats <= paidFor'.seats
      /\ paidFor'.late = paidFor.late /\ paidFor'.end <= stripeSub.end
      /\ type = "paid" => snap.end <= paidFor'.end /\ snap.seats <= paidFor'.seats
  <2>1. CASE UNCHANGED paidFor /\ type # "paid" BY <1>0, <2>1 DEF PaidInv
  <2>2. CASE /\ snap.end = stripeSub.end /\ snap.seats = stripeSub.seats
             /\ paidFor' = [paidFor EXCEPT !.end = stripeSub.end,
                               !.seats = IF stripeSub.seats > @ THEN stripeSub.seats ELSE @]
    <3> DEFINE m == IF stripeSub.seats > paidFor.seats THEN stripeSub.seats ELSE paidFor.seats
    <3>1. /\ m \in SeatCounts /\ m \in Nat
          /\ m >= paidFor.seats /\ m >= stripeSub.seats BY <1>0
    <3>2. paidFor' = [end |-> stripeSub.end, seats |-> m, late |-> paidFor.late] BY <1>0, <2>2
    <3> HIDE DEF m
    <3>3. paidFor.end <= stripeSub.end BY DEF PaidInv
    <3>4. /\ paidFor'.end = stripeSub.end /\ paidFor'.seats = m /\ paidFor'.late = paidFor.late
          /\ paidFor' \in [end : Times, seats : SeatCounts, late : BOOLEAN]
      BY <1>0, <3>1, <3>2
    <3> QED BY <1>0, <2>2, <3>1, <3>3, <3>4
  <2> QED BY <1>1, <2>1, <2>2
<1>5. SubTypes' BY <1>0, <1>2, <1>3, <1>4 DEF SubTypes
<1>6. snap.end \in Nat /\ paidFor'.end \in Nat /\ paidFor'.seats \in Nat
  BY <1>4, SnapNumbers, PaidNumbers
<1>7. PaymentsWait'
  <2> SUFFICES ASSUME NEW e \in SubEvents, subInbox'[e].type = "paid"
               PROVE  subInbox'[e].snap.end <= paidFor'.end /\ subInbox'[e].snap.seats <= paidFor'.seats
    BY DEF PaymentsWait, Within
  <2>1. CASE subInbox'[e] = subInbox[e]
    <3>1. Within(subInbox[e].snap) BY <2>1 DEF PaidInv, PaymentsWait
    <3>2. subInbox[e] \in InboxEvents /\ subInbox[e].type = "paid" BY <1>0, <2>1 DEF SubTypes
    <3>3. subInbox[e].snap \in Snaps BY <3>2 DEF InboxEvents
    <3>4. subInbox[e].snap.end \in Nat /\ subInbox[e].snap.seats \in Nat
      BY <3>3, SnapNumbers
    <3> QED BY <1>0, <1>4, <1>6, <2>1, <3>1, <3>4 DEF Within
  <2>2. CASE subInbox'[e].type = type /\ subInbox'[e].snap = snap BY <1>4, <2>2
  <2> QED BY <1>3, <2>1, <2>2
<1>8. (paidFor.end <= stripeSub.end)' BY <1>0, <1>1, <1>2, <1>4, <1>6
<1>9. ~paidFor.late => OnlyPaidCounts' /\ TasksPaid'
  <2>1. subRow.until \in Nat /\ subRow.seats \in Nat
    BY <1>0, RowNumbers DEF SubTypes
  <2>2. ~paidFor.late => OnlyPaidCounts'
    BY <1>0, <1>2, <1>4, <1>6, <2>1 DEF PaidInv, OnlyPaidCounts
  <2> QED BY <1>0, <1>2, <1>4, <2>2, TasksPaidKeeps DEF PaidInv
<1> QED BY <1>4, <1>5, <1>7, <1>8, <1>9 DEF PaidInv

\* Taking an event: a payment that Stripe has not changed since is within what was
\* paid for; any other makes the ghost late.
LEMMA TakeKeepsPaid == ASSUME PaidInv, NEW e \in SubEvents, TakeEvent(e) PROVE PaidInv'
<1> DEFINE ev == subInbox[e]
           snap == IF ev.type = "paid" THEN stripeSub ELSE ev.snap
           t == [pc |-> "fetched", type |-> ev.type, snap |-> snap, at |-> ev.at]
           late == snap.end # ev.snap.end \/ snap.seats # ev.snap.seats
           p == "worker"
<1>0. SubTypes /\ p \in Syncers \cup {"granter"} BY DEF PaidInv, Syncers
<1>1. /\ ev.type \in Kinds /\ subTask' = [subTask EXCEPT ![p] = t]
      /\ paidFor' = [paidFor EXCEPT !.late = @ \/ snap.end # ev.snap.end
                                               \/ snap.seats # ev.snap.seats]
      /\ subInbox' = [subInbox EXCEPT ![e] = [type |-> "done"]]
      /\ UNCHANGED <<subNow, stripeSub, subRow, grantUntil, entRow>>
  BY DEF TakeEvent, Kinds
<1>2. ev \in [type : Kinds, at : Dates, snap : Snaps]
  BY <1>0, <1>1 DEF SubTypes, InboxEvents, Kinds
<1>3. ev.snap \in Snaps /\ ev.at \in Dates /\ snap \in Snaps BY <1>0, <1>2 DEF SubTypes
<1>4. t \in Fetched BY <1>1, <1>3 DEF Fetched
<1>5. t \in Tasks BY <1>4, TaskKinds
<1>6. paidFor' = [end |-> paidFor.end, seats |-> paidFor.seats, late |-> paidFor.late \/ late]
  BY <1>0, <1>1 DEF SubTypes
<1>7. /\ paidFor' \in [end : Times, seats : SeatCounts, late : BOOLEAN]
      /\ paidFor'.end = paidFor.end /\ paidFor'.seats = paidFor.seats
      /\ ~paidFor'.late => ~paidFor.late /\ ~late
  <2>1. paidFor.end \in Times /\ paidFor.seats \in SeatCounts /\ (paidFor.late \/ late) \in BOOLEAN
    BY <1>0 DEF SubTypes
  <2> QED BY <1>6, <2>1
<1>8. ~late /\ ev.type = "paid" => snap.end = ev.snap.end /\ snap.seats = ev.snap.seats OBVIOUS
<1>9. t.pc = "fetched" /\ t.type = ev.type /\ t.snap = snap OBVIOUS
<1>10. ev.type = "paid" => Within(ev.snap) BY DEF PaidInv, PaymentsWait
<1>11. ~paidFor'.late => TaskPaid(t)
  BY <1>4, <1>5, <1>7, <1>8, <1>9, <1>10, TaskKinds DEF TaskPaid, Within
<1>12. [type |-> "done"] \in InboxEvents /\ [type |-> "done"].type # "paid" BY DEF InboxEvents
<1> HIDE DEF t, ev, snap, late
<1>13. SubTypes' BY <1>0, <1>1, <1>5, <1>7, <1>12 DEF SubTypes
<1>14. PaymentsWait' BY <1>0, <1>1, <1>7, <1>12 DEF PaidInv, PaymentsWait, Within, SubTypes
<1>15. (paidFor.end <= stripeSub.end)' BY <1>1, <1>7 DEF PaidInv
<1>16. ~paidFor'.late => OnlyPaidCounts' BY <1>1, <1>7 DEF PaidInv, OnlyPaidCounts
<1>17. ASSUME ~paidFor'.late, NEW q \in Syncers \cup {"granter"} PROVE TaskPaid(subTask'[q])
  BY <1>0, <1>1, <1>7, <1>11, <1>17 DEF PaidInv, TasksPaid, SubTypes
<1>18. ~paidFor'.late => TasksPaid' BY <1>7, <1>17 DEF TasksPaid, TaskPaid, Within
<1> QED BY <1>13, <1>14, <1>15, <1>16, <1>18 DEF PaidInv

LEMMA ReconcileKeepsPaid == ASSUME PaidInv, Reconcile PROVE PaidInv'
<1>0. SubTypes /\ "reconciler" \in Syncers \cup {"granter"} BY DEF PaidInv, Syncers
<1>1. UNCHANGED <<subNow, stripeSub, subInbox, subRow, grantUntil, entRow, paidFor>>
  BY DEF Reconcile
<1>2. CASE subRow.known /\ ~subRow.ended
  <2> DEFINE t == [pc |-> "fetched", type |-> "reconcile", snap |-> stripeSub, at |-> -1]
  <2>1. t \in Fetched BY <1>0 DEF SubTypes, Fetched
  <2>2. subTask' = [subTask EXCEPT !["reconciler"] = t] BY <1>2 DEF Reconcile
  <2>3. t.type # "paid" /\ t.pc = "fetched" OBVIOUS
  <2> HIDE DEF t
  <2>4. t \in Tasks /\ t \notin Reading /\ t \notin Syncing BY <2>1, <2>3, TaskKinds
  <2>5. TaskPaid(t) BY <2>3, <2>4 DEF TaskPaid
  <2> QED BY <1>0, <1>1, <2>2, <2>4, <2>5, TaskStep
<1>3. CASE ~(subRow.known /\ ~subRow.ended)
  <2> DEFINE t == [pc |-> "recompute", ent |-> Recompute(subRow, grantUntil)]
  <2>1. Recompute(subRow, grantUntil) \in Entitlements
    BY <1>0, RecomputeType DEF SubTypes, GoodRows
  <2>2. t \in Computing BY <2>1 DEF Computing
  <2>3. subTask' = [subTask EXCEPT !["reconciler"] = t] BY <1>3 DEF Reconcile
  <2> HIDE DEF t
  <2>4. t \in Tasks /\ TaskPaid(t) BY <2>2, TaskKinds, HarmlessTask
  <2> QED BY <1>0, <1>1, <2>3, <2>4, TaskStep
<1> QED BY <1>2, <1>3

LEMMA ReadKeepsPaid == ASSUME PaidInv, NEW p \in Syncers, ReadExisting(p) PROVE PaidInv'
<1>0. SubTypes /\ p \in Syncers \cup {"granter"} BY DEF PaidInv
<1>1. UNCHANGED <<subNow, stripeSub, subInbox, subRow, grantUntil, entRow, paidFor>>
  BY DEF ReadExisting
<1> DEFINE f == subTask[p]
           t == [pc |-> "read", type |-> f.type, snap |-> f.snap,
                 at |-> IF f.at = -1 THEN subNow ELSE f.at, existing |-> subRow.until]
<1>2. f \in Tasks /\ f.pc = "fetched" BY <1>0 DEF ReadExisting, SubTypes
<1>3. f \in Fetched BY <1>2, TaskKinds
<1>4. subTask' = [subTask EXCEPT ![p] = t] BY <1>0 DEF ReadExisting, SubTypes
<1>5. f.type \in Kinds \cup {"reconcile"} /\ f.snap \in Snaps /\ f.at \in Dates \cup {-1}
  BY <1>3 DEF Fetched
<1>6. subRow.until \in Times BY <1>0 DEF SubTypes, GoodRows, SubRows
<1>7. t \in Reading BY <1>0, <1>5, <1>6 DEF Reading, SubTypes
<1>8. t.pc = "read" /\ t.type = f.type /\ t.snap = f.snap /\ t.existing = subRow.until OBVIOUS
<1>9. t \in Tasks /\ t \notin Syncing BY <1>7, <1>8, TaskKinds
<1>10. ~paidFor.late => TaskPaid(f) /\ subRow.until <= paidFor.end
  BY <1>0 DEF PaidInv, TasksPaid, OnlyPaidCounts
<1>11. ~paidFor.late => TaskPaid(t)
  BY <1>3, <1>8, <1>9, <1>10 DEF TaskPaid
<1> HIDE DEF t, f
<1> QED BY <1>0, <1>1, <1>4, <1>9, <1>11, TaskStep

LEMMA OpenKeepsPaid == ASSUME PaidInv, NEW p \in Syncers, OpenSync(p) PROVE PaidInv'
<1>0. SubTypes /\ p \in Syncers \cup {"granter"} /\ subRow \in GoodRows BY DEF PaidInv, SubTypes
<1>1. UNCHANGED <<subNow, stripeSub, subInbox, subRow, grantUntil, entRow, paidFor>>
  BY DEF OpenSync
<1> DEFINE f == subTask[p]
           row == Synced(subRow, f)
           t == [pc |-> "sync", row |-> row, ent |-> Recompute(row, grantUntil)]
<1>2. f \in Tasks /\ f.pc = "read" BY <1>0 DEF OpenSync, SubTypes
<1>3. f \in Reading BY <1>2, TaskKinds
<1>4. subTask' = [subTask EXCEPT ![p] = t] BY DEF OpenSync
<1>5. row \in GoodRows BY <1>0, <1>3, SyncedType
<1>6. Recompute(row, grantUntil) \in Entitlements
  BY <1>0, <1>5, RecomputeType DEF SubTypes, GoodRows
<1>7. t \in Syncing BY <1>5, <1>6 DEF Syncing
<1>8. t.pc = "sync" /\ t.row = row OBVIOUS
<1>9. t \in Tasks /\ t \notin Fetched /\ t \notin Reading BY <1>7, <1>8, TaskKinds
<1>10. ASSUME ~paidFor.late PROVE row.until <= paidFor.end /\ row.seats <= paidFor.seats
  <2>1. TaskPaid(f) /\ subRow.until <= paidFor.end /\ subRow.seats <= paidFor.seats
    BY <1>0, <1>10 DEF PaidInv, TasksPaid, OnlyPaidCounts
  <2> HIDE DEF f
  <2> QED BY <1>0, <1>3, <2>1, SyncedPaid
<1>11. ~paidFor.late => TaskPaid(t) BY <1>8, <1>9, <1>10 DEF TaskPaid
<1> HIDE DEF t, f, row
<1> QED BY <1>0, <1>1, <1>4, <1>9, <1>11, TaskStep

LEMMA CommitKeepsPaid == ASSUME PaidInv, NEW p \in Syncers, CommitSync(p) PROVE PaidInv'
<1> DEFINE f == subTask[p]
<1>0. SubTypes /\ p \in Syncers \cup {"granter"} /\ f \in Tasks BY DEF PaidInv, SubTypes
<1>1. /\ f.pc \in {"sync", "recompute"} /\ entRow' = f.ent
      /\ subRow' = IF f.pc = "sync" THEN f.row ELSE subRow
      /\ subTask' = [subTask EXCEPT ![p] = Idle]
      /\ UNCHANGED <<subNow, stripeSub, subInbox, grantUntil, paidFor>>
  BY DEF CommitSync
<1>2. f \in Syncing \cup Computing BY <1>0, <1>1, TaskKinds
<1>3. f.ent \in Entitlements BY <1>2 DEF Syncing, Computing
<1>4. subRow' \in GoodRows BY <1>0, <1>1, <1>2, TaskKinds DEF Syncing, SubTypes
<1>5. Idle \in Tasks /\ TaskPaid(Idle) BY TaskKinds, HarmlessTask
<1>6. SubTypes' BY <1>0, <1>1, <1>3, <1>4, <1>5 DEF SubTypes
<1>7. PaymentsWait' /\ (paidFor.end <= stripeSub.end)' BY <1>1 DEF PaidInv, PaymentsWait, Within
<1>8. ASSUME ~paidFor.late PROVE subRow'.until <= paidFor.end /\ subRow'.seats <= paidFor.seats
  <2>1. TaskPaid(f) /\ subRow.until <= paidFor.end /\ subRow.seats <= paidFor.seats
    BY <1>0, <1>8 DEF PaidInv, TasksPaid, OnlyPaidCounts
  <2> QED BY <1>0, <1>1, <2>1, TaskKinds DEF TaskPaid
<1>9. ASSUME ~paidFor.late, NEW q \in Syncers \cup {"granter"} PROVE TaskPaid(subTask'[q])
  BY <1>0, <1>1, <1>5, <1>9 DEF PaidInv, TasksPaid, SubTypes
<1>10. ~paidFor.late => TasksPaid' BY <1>1, <1>9 DEF TasksPaid, TaskPaid, Within
<1>11. ~paidFor.late => OnlyPaidCounts' BY <1>1, <1>8 DEF OnlyPaidCounts
<1> QED BY <1>1, <1>6, <1>7, <1>10, <1>11 DEF PaidInv

LEMMA GrantKeepsPaid ==
  ASSUME PaidInv, NEW until \in {0, SubEnd}, OpenGrant(until) \/ CommitGrant
  PROVE  PaidInv'
<1>0. SubTypes /\ "granter" \in Syncers \cup {"granter"} BY DEF PaidInv
<1>1. CASE OpenGrant(until)
  <2> DEFINE t == [pc |-> "grant", until |-> until, ent |-> Recompute(subRow, until)]
  <2>1. until \in Times BY SubConstants DEF Times
  <2>2. Recompute(subRow, until) \in Entitlements
    BY <1>0, <2>1, RecomputeType DEF SubTypes, GoodRows
  <2>3. t \in Granting BY <2>1, <2>2 DEF Granting
  <2>4. subTask' = [subTask EXCEPT !["granter"] = t]
        /\ UNCHANGED <<subNow, stripeSub, subInbox, subRow, grantUntil, entRow, paidFor>>
    BY <1>1 DEF OpenGrant
  <2> HIDE DEF t
  <2>5. t \in Tasks /\ TaskPaid(t) BY <2>3, TaskKinds, HarmlessTask
  <2> QED BY <1>0, <2>4, <2>5, TaskStep
<1>2. CASE CommitGrant
  <2> DEFINE f == subTask["granter"]
  <2>1. f \in Tasks /\ f.pc = "grant" BY <1>0, <1>2 DEF CommitGrant, SubTypes
  <2>2. f.until \in Times /\ f.ent \in Entitlements BY <2>1, TaskKinds DEF Granting
  <2>3. /\ grantUntil' = f.until /\ entRow' = f.ent /\ subTask' = [subTask EXCEPT !["granter"] = Idle]
        /\ UNCHANGED <<subNow, stripeSub, subInbox, subRow, paidFor>>
    BY <1>2 DEF CommitGrant
  <2>4. Idle \in Tasks /\ TaskPaid(Idle) BY TaskKinds, HarmlessTask
  <2>5. SubTypes' BY <1>0, <2>2, <2>3, <2>4 DEF SubTypes
  <2>6. PaymentsWait' /\ (paidFor.end <= stripeSub.end)' /\ (~paidFor.late => OnlyPaidCounts')
    BY <2>3 DEF PaidInv, PaymentsWait, Within, OnlyPaidCounts
  <2>7. ASSUME ~paidFor.late, NEW q \in Syncers \cup {"granter"} PROVE TaskPaid(subTask'[q])
    BY <1>0, <2>3, <2>4, <2>7 DEF PaidInv, TasksPaid, SubTypes
  <2>8. ~paidFor.late => TasksPaid' BY <2>3, <2>7 DEF TasksPaid, TaskPaid, Within
  <2> QED BY <2>3, <2>5, <2>6, <2>8 DEF PaidInv
<1> QED BY <1>1, <1>2

LEMMA StepPaid == PaidInv /\ [SubNext]_subVars => PaidInv'
<1> SUFFICES ASSUME PaidInv, [SubNext]_subVars PROVE PaidInv'
  OBVIOUS
<1>1. ASSUME UNCHANGED <<stripeSub, subInbox, subRow, grantUntil, entRow, subTask, paidFor>>,
             subNow' \in Dates
      PROVE  PaidInv'
  BY <1>1 DEF PaidInv, SubTypes, PaymentsWait, Within, OnlyPaidCounts, TasksPaid, TaskPaid
<1>2. CASE UNCHANGED subVars BY <1>1, <1>2 DEF subVars, PaidInv, SubTypes
<1>3. CASE SubTick
  <2>1. subNow \in Dates /\ subNow < SubEnd /\ subNow' = subNow + 1
    BY <1>3 DEF SubTick, PaidInv, SubTypes
  <2>2. subNow' \in Dates BY <2>1, SubConstants DEF Dates
  <2> QED BY <1>1, <1>3, <2>2 DEF SubTick
<1>4. CASE SubNext /\ ~SubTick
  <2>1. 0 \in SeatCounts BY SubConstants
  <2> QED BY <1>4, <2>1, StripeKeepsPaid, TakeKeepsPaid, ReconcileKeepsPaid, ReadKeepsPaid,
             OpenKeepsPaid, CommitKeepsPaid, GrantKeepsPaid DEF SubNext, SyncStep
<1> QED BY <1>2, <1>3, <1>4

LEMMA InitPaid == SubInit => PaidInv
<1> SUFFICES ASSUME SubInit PROVE PaidInv
  OBVIOUS
<1>0. 0 \in Times /\ Period \in Times /\ 0 \in Dates /\ 0 \in SeatCounts /\ Period >= 0
  BY SubConstants DEF Times, Dates
<1>1. stripeSub \in Snaps BY <1>0 DEF SubInit, Snaps
<1>2. subRow \in GoodRows BY <1>0 DEF SubInit, GoodRows, SubRows, Dates
<1>3. entRow \in Entitlements BY <1>0 DEF SubInit, NoAccess, Entitlements
<1>4. subInbox \in [SubEvents -> InboxEvents] BY DEF SubInit, InboxEvents
<1>5. Idle \in Tasks /\ TaskPaid(Idle) BY TaskKinds, HarmlessTask
<1>6. SubTypes BY <1>0, <1>1, <1>2, <1>3, <1>4, <1>5 DEF SubInit, SubTypes
<1>7. PaymentsWait /\ TasksPaid BY <1>5 DEF SubInit, PaymentsWait, TasksPaid
<1>8. paidFor.end <= stripeSub.end /\ OnlyPaidCounts
  BY <1>0 DEF SubInit, OnlyPaidCounts
<1> QED BY <1>6, <1>7, <1>8 DEF PaidInv

\* Neither the access date nor the seats of a subscription go beyond what was paid
\* for, in whatever order the events are handled, however many syncs, reconciles and
\* grants overlap, unless a payment is handled after Stripe has changed again.
THEOREM PaidIsTheLimit == SubSpec => []OnlyPaidCounts
<1>1. SubInit => PaidInv BY InitPaid
<1>2. PaidInv /\ [SubNext]_subVars => PaidInv' BY StepPaid
<1>3. PaidInv => OnlyPaidCounts BY DEF PaidInv, OnlyPaidCounts
<1> QED BY <1>1, <1>2, <1>3, PTL DEF SubSpec

-----------------------------------------------------------------------------
(* LeadIntake: as long as no trouble is met with an event its message is   *)
(* out with one worker, and the row that worker has read is marked.        *)
IntakeStatuses == Ended \cup {"none", "received", "processing", "failed", "dead_letter"}
WorkRows == [key : Keys \cup {NoKey}, phase : {"idle", "got", "read", "saved"}, tries : Nat,
             on : BOOLEAN, known : BOOLEAN, result : Ended \cup {"none"}]
IntakerRows == [publishing : Keys \cup {NoKey}, work : WorkRows]

AnswerTypes ==
    /\ event \in [Keys -> [status : IntakeStatuses, tries : Nat]]
    /\ stream \in [Keys -> [at : {"none", "ready", "out", "gone"}, deliveries : Nat]]
    /\ intaker \in [Intakers -> IntakerRows]
    /\ integrationOn \in BOOLEAN
    /\ \A i \in Intakers : WorkOf(i).phase # "idle" => WorkOf(i).key # NoKey

HeldByOne(k) ==
    \A i \in Intakers : WorkOf(i).key = k =>
        /\ stream[k].at = "out"
        /\ WorkOf(i).phase \in {"read", "saved"} => event[k].status = "processing"
        /\ \A j \in Intakers : WorkOf(j).key = k => j = i

AnswerInv == AnswerTypes /\ \A k \in Keys \ intakeTrouble.met : HeldByOne(k)

LEMMA InitAnswer == IntakeInit => AnswerInv
<1> SUFFICES ASSUME IntakeInit PROVE AnswerInv
  OBVIOUS
<1>1. NoWork \in WorkRows /\ NoWork.phase = "idle" /\ NoWork.key = NoKey
  BY DEF NoWork, WorkRows
<1>2. \A i \in Intakers : WorkOf(i) = NoWork BY DEF IntakeInit, WorkOf
<1>3. intaker \in [Intakers -> IntakerRows] BY <1>1 DEF IntakeInit, IntakerRows
<1>4. AnswerTypes BY <1>1, <1>2, <1>3 DEF IntakeInit, AnswerTypes, IntakeStatuses
<1>5. ASSUME NEW k \in Keys PROVE HeldByOne(k)
  BY <1>1, <1>2, IntakeConstants DEF HeldByOne
<1> QED BY <1>4, <1>5 DEF AnswerInv

\* What a process that takes up or puts down an event leaves of the others.
LEMMA OneIntaker ==
  ASSUME AnswerTypes, NEW i \in Intakers, NEW w \in WorkRows,
         w.phase # "idle" => w.key # NoKey,
         intaker' = [intaker EXCEPT ![i].work = w]
  PROVE  /\ intaker' \in [Intakers -> IntakerRows]
         /\ WorkOf(i)' = w
         /\ \A j \in Intakers \ {i} : WorkOf(j)' = WorkOf(j)
         /\ \A j \in Intakers : WorkOf(j)'.phase # "idle" => WorkOf(j)'.key # NoKey
<1>1. intaker[i] \in IntakerRows BY DEF AnswerTypes
<1>2. [intaker[i] EXCEPT !.work = w] \in IntakerRows /\ [intaker[i] EXCEPT !.work = w].work = w
  BY <1>1 DEF IntakerRows
<1>3. intaker' = [intaker EXCEPT ![i] = [intaker[i] EXCEPT !.work = w]] OBVIOUS
<1>4. intaker' \in [Intakers -> IntakerRows] BY <1>2, <1>3 DEF AnswerTypes
<1>5. WorkOf(i)' = w /\ \A j \in Intakers \ {i} : WorkOf(j)' = WorkOf(j)
  BY <1>2, <1>3 DEF AnswerTypes, WorkOf
<1>6. \A j \in Intakers : WorkOf(j)'.phase # "idle" => WorkOf(j)'.key # NoKey
  <2> TAKE j \in Intakers
  <2>1. CASE j = i BY <2>1, <1>5
  <2>2. CASE j # i BY <2>2, <1>5 DEF AnswerTypes
  <2> QED BY <2>1, <2>2
<1> QED BY <1>4, <1>5, <1>6

LEMMA WorkIdle == NoWork \in WorkRows /\ NoWork.phase = "idle" /\ NoWork.key = NoKey
BY DEF NoWork, WorkRows

LEMMA WorkOfRow ==
  ASSUME AnswerTypes, NEW i \in Intakers
  PROVE  WorkOf(i) \in WorkRows /\ (WorkOf(i).phase # "idle" => WorkOf(i).key # NoKey)
BY DEF AnswerTypes, WorkOf, IntakerRows

LEMMA StepAnswer == AnswerInv /\ [IntakeNext]_intakeVars => AnswerInv'
<1> SUFFICES ASSUME AnswerInv, [IntakeNext]_intakeVars PROVE AnswerInv'
  OBVIOUS
<1> USE DEF AnswerInv
<1>1. ASSUME UNCHANGED <<event, stream, integrationOn>>, intakeTrouble'.met = intakeTrouble.met,
             intaker' \in [Intakers -> IntakerRows], \A j \in Intakers : WorkOf(j)' = WorkOf(j)
      PROVE  AnswerInv'
  BY <1>1 DEF AnswerTypes, HeldByOne
<1>2. CASE UNCHANGED intakeVars
  <2>1. \A j \in Intakers : WorkOf(j)' = WorkOf(j) BY <1>2 DEF WorkOf, intakeVars
  <2> QED BY <1>1, <1>2, <2>1 DEF AnswerTypes, intakeVars
<1>3. ASSUME NEW k \in Keys, Accept(k) PROVE AnswerInv'
  <2>1. /\ event[k].status = "none" /\ event' = [event EXCEPT ![k].status = "received"]
        /\ UNCHANGED <<stream, intaker, integrationOn, intakeTrouble>>
    BY <1>3 DEF Accept
  <2>2. event' \in [Keys -> [status : IntakeStatuses, tries : Nat]]
    BY <2>1 DEF AnswerTypes, IntakeStatuses
  <2>3. \A j \in Intakers : WorkOf(j)' = WorkOf(j) BY <2>1 DEF WorkOf
  <2>4. AnswerTypes' BY <2>1, <2>2, <2>3 DEF AnswerTypes
  <2>5. ASSUME NEW q \in Keys, event[q].status = "processing" PROVE event'[q].status = "processing"
    BY <2>1, <2>5 DEF AnswerTypes
  <2>6. ASSUME NEW q \in Keys \ intakeTrouble'.met PROVE HeldByOne(q)'
    <3>1. HeldByOne(q) BY <2>1
    <3> QED BY <2>1, <2>3, <2>5, <3>1 DEF HeldByOne
  <2> QED BY <2>4, <2>6
<1>4. CASE RevokeIntegration
  <2>1. UNCHANGED <<event, stream, intaker, intakeTrouble>> /\ integrationOn' \in BOOLEAN
    BY <1>4 DEF RevokeIntegration
  <2>2. \A j \in Intakers : WorkOf(j)' = WorkOf(j) BY <2>1 DEF WorkOf
  <2> QED BY <2>1, <2>2 DEF AnswerTypes, HeldByOne
<1>5. ASSUME NEW i \in Intakers, NEW p \in Keys \cup {NoKey},
             intaker' = [intaker EXCEPT ![i].publishing = p]
      PROVE  /\ intaker' \in [Intakers -> IntakerRows]
             /\ \A j \in Intakers : WorkOf(j)' = WorkOf(j)
  <2>1. intaker[i] \in IntakerRows BY DEF AnswerTypes
  <2>2. /\ [intaker[i] EXCEPT !.publishing = p] \in IntakerRows
        /\ [intaker[i] EXCEPT !.publishing = p].work = intaker[i].work
    BY <2>1 DEF IntakerRows
  <2>3. intaker' = [intaker EXCEPT ![i] = [intaker[i] EXCEPT !.publishing = p]] BY <1>5
  <2> QED BY <2>2, <2>3 DEF AnswerTypes, WorkOf
<1>6. ASSUME NEW i \in Intakers, NEW k \in Keys, TakeLine(i, k) PROVE AnswerInv'
  BY <1>1, <1>5, <1>6 DEF TakeLine
<1>7. ASSUME NEW i \in Intakers, PublishFails(i) PROVE AnswerInv'
  BY <1>1, <1>5, <1>7 DEF PublishFails
<1>8. ASSUME NEW i \in Intakers, Publish(i) PROVE AnswerInv'
  <2> DEFINE k == intaker[i].publishing
  <2>1. /\ intaker' = [intaker EXCEPT ![i].publishing = NoKey] /\ UNCHANGED <<event, integrationOn>>
        /\ k \in Keys
    BY <1>8 DEF Publish, AnswerTypes, IntakerRows
  <2>2. \/ stream' = stream
        \/ stream[k].at = "none" /\ stream' = [stream EXCEPT ![k].at = "ready"]
        \/ stream[k].at = "gone" /\ stream' = [stream EXCEPT ![k] = [at |-> "ready", deliveries |-> 0]]
    BY <1>8 DEF Publish
  <2>3. intakeTrouble'.met = intakeTrouble.met BY <1>8 DEF Publish, Trouble
  <2> HIDE DEF k
  <2>4. /\ intaker' \in [Intakers -> IntakerRows]
        /\ \A j \in Intakers : WorkOf(j)' = WorkOf(j)
    BY <1>5, <2>1
  <2>5. /\ stream' \in [Keys -> [at : {"none", "ready", "out", "gone"}, deliveries : Nat]]
        /\ \A q \in Keys : stream[q].at = "out" => stream'[q].at = "out"
    <3> k \in Keys BY <2>1
    <3> stream \in [Keys -> [at : {"none", "ready", "out", "gone"}, deliveries : Nat]]
      BY DEF AnswerTypes
    <3>1. CASE stream' = stream BY <3>1
    <3>2. CASE stream[k].at = "none" /\ stream' = [stream EXCEPT ![k].at = "ready"] BY <3>2
    <3>3. CASE stream[k].at = "gone" /\ stream' = [stream EXCEPT ![k] = [at |-> "ready", deliveries |-> 0]]
      <4>1. [at |-> "ready", deliveries |-> 0] \in [at : {"none", "ready", "out", "gone"}, deliveries : Nat]
        OBVIOUS
      <4> QED BY <3>3, <4>1
    <3> QED BY <2>2, <3>1, <3>2, <3>3
  <2>6. AnswerTypes' BY <2>1, <2>4, <2>5 DEF AnswerTypes
  <2>7. ASSUME NEW q \in Keys \ intakeTrouble'.met PROVE HeldByOne(q)'
    <3>1. HeldByOne(q) BY <2>3
    <3> QED BY <2>1, <2>4, <2>5, <3>1 DEF HeldByOne
  <2> QED BY <2>6, <2>7
<1>9. ASSUME NEW i \in Intakers, NEW k \in Keys, Deliver(i, k) PROVE AnswerInv'
  <2> DEFINE w == [NoWork EXCEPT !.key = k, !.phase = "got"]
  <2>1. w \in WorkRows /\ w.key = k /\ w.phase = "got" /\ k # NoKey
    BY IntakeConstants DEF NoWork, WorkRows
  <2>2. /\ stream[k].at = "ready" /\ UNCHANGED <<event, integrationOn, intakeTrouble>>
        /\ stream' = [stream EXCEPT ![k] = [at |-> "out", deliveries |-> @.deliveries + 1]]
        /\ intaker' = [intaker EXCEPT ![i].work = w]
    BY <1>9 DEF Deliver
  <2> HIDE DEF w
  <2>3. stream[k].deliveries + 1 \in Nat BY DEF AnswerTypes
  <2>4. /\ stream' \in [Keys -> [at : {"none", "ready", "out", "gone"}, deliveries : Nat]]
        /\ stream'[k].at = "out" /\ \A q \in Keys \ {k} : stream'[q] = stream[q]
    BY <2>2, <2>3 DEF AnswerTypes
  <2>5. /\ intaker' \in [Intakers -> IntakerRows] /\ WorkOf(i)' = w
        /\ \A j \in Intakers \ {i} : WorkOf(j)' = WorkOf(j)
        /\ \A j \in Intakers : WorkOf(j)'.phase # "idle" => WorkOf(j)'.key # NoKey
    BY <2>1, <2>2, OneIntaker
  <2>6. AnswerTypes' BY <2>2, <2>4, <2>5 DEF AnswerTypes
  <2>7. ASSUME NEW q \in Keys \ intakeTrouble'.met PROVE HeldByOne(q)'
    <3>1. HeldByOne(q) BY <2>2, <2>7
    <3>2. CASE q = k
      <4>1. \A j \in Intakers : WorkOf(j).key # k BY <2>2, <3>1, <3>2 DEF HeldByOne
      <4> QED BY <2>1, <2>4, <2>5, <3>2, <4>1 DEF HeldByOne
    <3>3. CASE q # k
      <4>1. event' = event /\ stream'[q] = stream[q] BY <2>2, <2>4, <3>3
      <4>2. \A j \in Intakers : WorkOf(j)'.key = q => j # i /\ WorkOf(j)' = WorkOf(j)
        BY <2>1, <2>5, <3>3
      <4> QED BY <3>1, <4>1, <4>2 DEF HeldByOne
    <3> QED BY <3>2, <3>3
  <2> QED BY <2>6, <2>7
\* A worker that is done with its event: no other one held it, unless trouble was met.
<1>10. ASSUME NEW i \in Intakers, WorkOf(i).key \in Keys, NEW s \in IntakeStatuses,
              NEW at \in {"none", "ready", "out", "gone"},
              event' = [event EXCEPT ![WorkOf(i).key].status = s] \/ event' = event,
              stream' = [stream EXCEPT ![WorkOf(i).key].at = at],
              intaker' = [intaker EXCEPT ![i].work = NoWork],
              UNCHANGED <<integrationOn, intakeTrouble>>
       PROVE  AnswerInv'
  <2> DEFINE k == WorkOf(i).key
  <2>1. /\ event' \in [Keys -> [status : IntakeStatuses, tries : Nat]]
        /\ stream' \in [Keys -> [at : {"none", "ready", "out", "gone"}, deliveries : Nat]]
        /\ \A q \in Keys \ {k} : event'[q] = event[q] /\ stream'[q] = stream[q]
    <3> k \in Keys BY <1>10
    <3> HIDE DEF k
    <3> QED BY <1>10 DEF AnswerTypes, k
  <2>2. /\ intaker' \in [Intakers -> IntakerRows] /\ WorkOf(i)' = NoWork
        /\ \A j \in Intakers \ {i} : WorkOf(j)' = WorkOf(j)
        /\ \A j \in Intakers : WorkOf(j)'.phase # "idle" => WorkOf(j)'.key # NoKey
    BY <1>10, WorkIdle, OneIntaker
  <2>3. AnswerTypes' BY <1>10, <2>1, <2>2 DEF AnswerTypes
  <2>4. ASSUME NEW q \in Keys \ intakeTrouble'.met PROVE HeldByOne(q)'
    <3>1. HeldByOne(q) BY <1>10
    <3>2. CASE q = k
      <4>1. \A j \in Intakers \ {i} : WorkOf(j).key # q BY <3>1, <3>2 DEF HeldByOne
      <4> QED BY <2>2, <4>1, WorkIdle, IntakeConstants DEF HeldByOne
    <3>3. CASE q # k
      <4>1. event'[q] = event[q] /\ stream'[q] = stream[q] BY <2>1, <3>3
      <4>2. \A j \in Intakers : WorkOf(j)'.key = q => j # i /\ WorkOf(j)' = WorkOf(j)
        BY <2>2, WorkIdle, IntakeConstants
      <4> QED BY <3>1, <4>1, <4>2 DEF HeldByOne
    <3> QED BY <3>2, <3>3
  <2> QED BY <2>3, <2>4
<1>11. ASSUME NEW i \in Intakers, ReadEvent(i) PROVE AnswerInv'
  <2> DEFINE k == WorkOf(i).key
  <2>1. k \in Keys /\ WorkOf(i).phase = "got" /\ UNCHANGED <<integrationOn, intakeTrouble>>
    BY <1>11, WorkOfRow DEF ReadEvent, WorkRows
  <2>2. CASE ~WorthWork(k)
    <3>1. /\ stream' = [stream EXCEPT ![WorkOf(i).key].at = "gone"] /\ event' = event
          /\ intaker' = [intaker EXCEPT ![i].work = NoWork]
      BY <1>11, <2>2 DEF ReadEvent, Acknowledged
    <3> HIDE DEF k
    <3> QED BY <1>10, <2>1, <3>1 DEF k, IntakeStatuses
  <2>3. CASE WorthWork(k)
    <3> DEFINE w == [key |-> k, phase |-> "read", tries |-> event[k].tries + 1, on |-> integrationOn,
                     known |-> intakeLeads[PhoneOf[k]] > 0, result |-> "none"]
    <3>1. /\ event' = [event EXCEPT ![k].status = "processing",
                                    ![k].tries = IF @ < MaxTries THEN @ + 1 ELSE @]
          /\ intaker' = [intaker EXCEPT ![i].work = w] /\ stream' = stream
      BY <1>11, <2>3 DEF ReadEvent
    <3>2. w \in WorkRows /\ w.key = k /\ w.phase = "read" /\ k # NoKey
      BY <2>1, IntakeConstants DEF AnswerTypes, WorkRows
    <3> HIDE DEF w
    <3>3. /\ event' \in [Keys -> [status : IntakeStatuses, tries : Nat]]
          /\ event'[k].status = "processing" /\ \A q \in Keys \ {k} : event'[q] = event[q]
      <4> k \in Keys BY <2>1
      <4> HIDE DEF k
      <4>1. event \in [Keys -> [status : IntakeStatuses, tries : Nat]] BY DEF AnswerTypes
      <4> DEFINE e == [event[k] EXCEPT !.status = "processing",
                                       !.tries = IF @ < MaxTries THEN @ + 1 ELSE @]
      <4>2. event[k].tries \in Nat /\ event[k].tries + 1 \in Nat BY <4>1
      <4>3. e \in [status : IntakeStatuses, tries : Nat] /\ e.status = "processing"
        BY <4>1, <4>2 DEF IntakeStatuses
      <4>4. event' = [event EXCEPT ![k] = e] BY <3>1
      <4> HIDE DEF e
      <4> QED BY <4>1, <4>3, <4>4
    <3>4. /\ intaker' \in [Intakers -> IntakerRows] /\ WorkOf(i)' = w
          /\ \A j \in Intakers \ {i} : WorkOf(j)' = WorkOf(j)
          /\ \A j \in Intakers : WorkOf(j)'.phase # "idle" => WorkOf(j)'.key # NoKey
      BY <3>1, <3>2, OneIntaker
    <3>5. AnswerTypes' BY <2>1, <3>1, <3>3, <3>4 DEF AnswerTypes
    <3>6. ASSUME NEW q \in Keys \ intakeTrouble'.met PROVE HeldByOne(q)'
      <4>1. HeldByOne(q) BY <2>1, <3>6
      <4>2. CASE q = k
        <5>1. stream[q].at = "out" /\ \A j \in Intakers \ {i} : WorkOf(j).key # q
          BY <4>1, <4>2 DEF HeldByOne
        <5> QED BY <3>1, <3>2, <3>3, <3>4, <4>2, <5>1 DEF HeldByOne
      <4>3. CASE q # k
        <5>1. event'[q] = event[q] /\ stream' = stream BY <3>1, <3>3, <4>3
        <5>2. \A j \in Intakers : WorkOf(j)'.key = q => j # i /\ WorkOf(j)' = WorkOf(j)
          BY <3>2, <3>4, <4>3
        <5> QED BY <4>1, <5>1, <5>2 DEF HeldByOne
      <4> QED BY <4>2, <4>3
    <3> QED BY <3>5, <3>6
  <2> QED BY <2>2, <2>3
<1>12. ASSUME NEW i \in Intakers, UpsertLead(i) PROVE AnswerInv'
  <2>1. PICK result \in {"updated", "duplicate", "accepted"} :
            intaker' = [intaker EXCEPT ![i].work.phase = "saved", ![i].work.result = result]
    BY <1>12 DEF UpsertLead
  <2> DEFINE w == [WorkOf(i) EXCEPT !.phase = "saved", !.result = result]
  <2>2. WorkOf(i) \in WorkRows /\ WorkOf(i).phase = "read" /\ WorkOf(i).key # NoKey
    BY <1>12, WorkOfRow DEF UpsertLead
  <2>3. w \in WorkRows /\ w.key = WorkOf(i).key /\ w.phase = "saved" BY <2>2 DEF WorkRows, Ended
  <2>4. intaker' = [intaker EXCEPT ![i].work = w]
    <3>1. intaker[i] \in IntakerRows BY DEF AnswerTypes
    <3>2. [intaker[i] EXCEPT !.work.phase = "saved", !.work.result = result]
            = [intaker[i] EXCEPT !.work = w]
      BY <3>1 DEF IntakerRows, WorkOf
    <3>3. intaker' = [intaker EXCEPT ![i] = [intaker[i] EXCEPT !.work.phase = "saved",
                                                               !.work.result = result]]
      BY <2>1 DEF AnswerTypes
    <3> QED BY <3>2, <3>3
  <2>5. UNCHANGED <<event, stream, integrationOn, intakeTrouble>> BY <1>12 DEF UpsertLead
  <2> HIDE DEF w
  <2>6. /\ intaker' \in [Intakers -> IntakerRows] /\ WorkOf(i)' = w
        /\ \A j \in Intakers \ {i} : WorkOf(j)' = WorkOf(j)
        /\ \A j \in Intakers : WorkOf(j)'.phase # "idle" => WorkOf(j)'.key # NoKey
    BY <2>2, <2>3, <2>4, OneIntaker
  <2>7. AnswerTypes' BY <2>5, <2>6 DEF AnswerTypes
  <2>8. \A j \in Intakers : /\ WorkOf(j)'.key = WorkOf(j).key
                            /\ WorkOf(j)'.phase \in {"read", "saved"} => WorkOf(j).phase \in {"read", "saved"}
    BY <2>2, <2>3, <2>6
  <2>9. ASSUME NEW q \in Keys \ intakeTrouble'.met PROVE HeldByOne(q)'
    <3>1. HeldByOne(q) BY <2>5
    <3> QED BY <2>5, <2>8, <3>1 DEF HeldByOne
  <2> QED BY <2>7, <2>9
<1>13. ASSUME NEW i \in Intakers, EventEnds(i) PROVE AnswerInv'
  <2>1. /\ WorkOf(i).key \in Keys
        /\ event' = [event EXCEPT ![WorkOf(i).key].status = WorkOf(i).result]
        /\ stream' = [stream EXCEPT ![WorkOf(i).key].at = "gone"]
        /\ intaker' = [intaker EXCEPT ![i].work = NoWork]
        /\ UNCHANGED <<integrationOn, intakeTrouble>>
    BY <1>13, WorkOfRow DEF EventEnds, Acknowledged, WorkRows
  <2>2. WorkOf(i).result \in IntakeStatuses BY WorkOfRow DEF WorkRows, IntakeStatuses
  <2> QED BY <1>10, <2>1, <2>2
<1>14. ASSUME NEW i \in Intakers, NEW final \in BOOLEAN, EventFails(i, final) PROVE AnswerInv'
  <2>1. WorkOf(i).key \in Keys BY <1>14, WorkOfRow DEF EventFails, WorkRows
  <2>2. PICK s \in {"dead_letter", "failed"} : event' = [event EXCEPT ![WorkOf(i).key].status = s]
    BY <1>14 DEF EventFails
  <2>3. PICK at \in {"ready", "gone"} : stream' = [stream EXCEPT ![WorkOf(i).key].at = at]
    BY <1>14 DEF EventFails, SentBack
  <2>4. intaker' = [intaker EXCEPT ![i].work = NoWork] /\ UNCHANGED <<integrationOn, intakeTrouble>>
    BY <1>14 DEF EventFails
  <2> QED BY <1>10, <2>1, <2>2, <2>3, <2>4 DEF IntakeStatuses
\* Trouble with an event takes it out of what is claimed; the death of a process leaves the rest.
<1>15. ASSUME NEW k \in Keys, AckLate(k) \/ AckNever(k) PROVE AnswerInv'
  <2>1. /\ UNCHANGED <<event, intaker, integrationOn>>
        /\ \E at \in {"ready", "gone"} : stream' = [stream EXCEPT ![k].at = at]
        /\ intakeTrouble.met \subseteq intakeTrouble'.met
        /\ k \in intakeTrouble'.met \/ \A j \in Intakers : WorkOf(j).key # k
    BY <1>15 DEF AckLate, AckNever, SentBack, Trouble, Working
  <2>2. \A j \in Intakers : WorkOf(j)' = WorkOf(j) BY <2>1 DEF WorkOf
  <2>3. /\ stream' \in [Keys -> [at : {"none", "ready", "out", "gone"}, deliveries : Nat]]
        /\ \A q \in Keys \ {k} : stream'[q] = stream[q]
    BY <2>1 DEF AnswerTypes
  <2>4. AnswerTypes' BY <2>1, <2>2, <2>3 DEF AnswerTypes
  <2>5. ASSUME NEW q \in Keys \ intakeTrouble'.met PROVE HeldByOne(q)'
    <3>1. HeldByOne(q) BY <2>1
    <3> QED BY <2>1, <2>2, <2>3, <3>1 DEF HeldByOne
  <2> QED BY <2>4, <2>5
<1>16. ASSUME NEW i \in Intakers, IntakerDies(i) PROVE AnswerInv'
  <2> DEFINE p == intaker[i].publishing
             none == [publishing |-> NoKey, work |-> NoWork]
  <2>1. /\ UNCHANGED <<event, integrationOn>> /\ intaker' = [intaker EXCEPT ![i] = none]
        /\ stream' = IF p # NoKey /\ stream[p].at = "none"
                     THEN [stream EXCEPT ![p].at = "ready"] ELSE stream
        /\ intakeTrouble.met \subseteq intakeTrouble'.met
    BY <1>16 DEF IntakerDies, Trouble
  <2>2. none \in IntakerRows /\ none.work = NoWork BY WorkIdle DEF IntakerRows
  <2> HIDE DEF none, p
  <2>3. /\ intaker' \in [Intakers -> IntakerRows] /\ WorkOf(i)' = NoWork
        /\ \A j \in Intakers \ {i} : WorkOf(j)' = WorkOf(j)
    BY <2>1, <2>2 DEF AnswerTypes, WorkOf
  <2>4. /\ stream' \in [Keys -> [at : {"none", "ready", "out", "gone"}, deliveries : Nat]]
        /\ \A q \in Keys : stream[q].at = "out" => stream'[q].at = "out"
    BY <2>1 DEF AnswerTypes
  <2>5. AnswerTypes' BY <2>1, <2>3, <2>4, WorkIdle DEF AnswerTypes
  <2>6. ASSUME NEW q \in Keys \ intakeTrouble'.met PROVE HeldByOne(q)'
    <3>1. HeldByOne(q) BY <2>1
    <3>2. \A j \in Intakers : WorkOf(j)'.key = q => WorkOf(j)' = WorkOf(j)
      BY <2>3, WorkIdle, IntakeConstants
    <3> QED BY <2>1, <2>4, <3>1, <3>2 DEF HeldByOne
  <2> QED BY <2>5, <2>6
<1> QED BY <1>2, <1>3, <1>4, <1>6, <1>7, <1>8, <1>9, <1>11, <1>12, <1>13, <1>14, <1>15, <1>16
        DEF IntakeNext, IntakerStep

\* Whoever writes a row that has ended does so with a worker too many, and that is trouble.
LEMMA AnswersStay ==
  AnswerInv /\ [IntakeNext]_intakeVars =>
     \A k \in Keys \ intakeTrouble.met : event[k].status \in Ended => event'[k] = event[k]
<1> SUFFICES ASSUME AnswerInv, [IntakeNext]_intakeVars, NEW k \in Keys \ intakeTrouble.met,
                    event[k].status \in Ended
             PROVE  event'[k] = event[k]
  OBVIOUS
<1>1. event \in [Keys -> [status : IntakeStatuses, tries : Nat]] /\ HeldByOne(k)
  BY DEF AnswerInv, AnswerTypes
<1>2. \A i \in Intakers : WorkOf(i).key = k => WorkOf(i).phase \notin {"read", "saved"}
  BY <1>1 DEF HeldByOne, Ended
<1>3. ASSUME NEW q \in Keys, Accept(q) PROVE event'[k] = event[k]
  BY <1>1, <1>3 DEF Accept, Ended
<1>4. ASSUME NEW i \in Intakers, ReadEvent(i) PROVE event'[k] = event[k]
  <2>1. CASE WorthWork(WorkOf(i).key)
    <3>1. WorkOf(i).key # k BY <2>1 DEF WorthWork
    <3>2. event' = [event EXCEPT ![WorkOf(i).key].status = "processing",
                       ![WorkOf(i).key].tries = IF @ < MaxTries THEN @ + 1 ELSE @]
      BY <1>4, <2>1 DEF ReadEvent
    <3> QED BY <1>1, <3>1, <3>2
  <2>2. CASE ~WorthWork(WorkOf(i).key) BY <1>4, <2>2 DEF ReadEvent
  <2> QED BY <2>1, <2>2
<1>5. ASSUME NEW i \in Intakers, EventEnds(i) PROVE event'[k] = event[k]
  <2>1. WorkOf(i).key # k BY <1>2, <1>5 DEF EventEnds
  <2>2. event' = [event EXCEPT ![WorkOf(i).key].status = WorkOf(i).result] BY <1>5 DEF EventEnds
  <2> QED BY <1>1, <2>1, <2>2
<1>6. ASSUME NEW i \in Intakers, NEW final \in BOOLEAN, EventFails(i, final)
      PROVE  event'[k] = event[k]
  <2>1. WorkOf(i).key # k BY <1>2, <1>6 DEF EventFails
  <2>2. PICK s \in {"dead_letter", "failed"} : event' = [event EXCEPT ![WorkOf(i).key].status = s]
    BY <1>6 DEF EventFails
  <2> QED BY <1>1, <2>1, <2>2
<1>7. \/ UNCHANGED event
      \/ \E q \in Keys : Accept(q)
      \/ \E i \in Intakers : \/ ReadEvent(i) \/ EventEnds(i)
                             \/ \E final \in BOOLEAN : EventFails(i, final)
  BY DEF IntakeNext, IntakerStep, intakeVars, AckLate, AckNever, RevokeIntegration, IntakerDies,
         Publish, PublishFails, UpsertLead, TakeLine, Deliver
<1> QED BY <1>3, <1>4, <1>5, <1>6, <1>7

-----------------------------------------------------------------------------
(* WebhookPipeline and MetricsView: each write is conditional.             *)
LEMMA HookStepStays ==
  [HookNext]_hookVars =>
     [\A d \in DOMAIN delivery :
        delivery[d].status \in {"delivered", "dead_letter"} => delivery'[d].status = delivery[d].status]_hookVars
<1> SUFFICES ASSUME [HookNext]_hookVars, NEW d \in DOMAIN delivery,
                    delivery[d].status \in {"delivered", "dead_letter"}
             PROVE  delivery'[d].status = delivery[d].status
  OBVIOUS
<1>1. ASSUME NEW c \in HookConsumers, NEW e \in HookEvents, NEW h \in Endpoints, Enqueue(c, e, h)
      PROVE  delivery'[d].status = delivery[d].status
  <2>1. \/ delivery' = delivery
        \/ /\ delivery[<<e, h>>].status = "none"
           /\ delivery' = [delivery EXCEPT ![<<e, h>>].status = "pending"]
    BY <1>1 DEF Enqueue
  <2> QED BY <2>1
<1>2. ASSUME NEW r \in HookRuns, NEW t \in hookRun[r].posting, PostArrives(r, t) \/ PostIsRefused(r, t)
      PROVE  delivery'[d].status = delivery[d].status
  <2>1. PICK outcome : delivery' = IF StillPending(t.row) THEN [delivery EXCEPT ![t.row] = outcome]
                                   ELSE delivery
    BY <1>2 DEF PostArrives, PostIsRefused, EndPost
  <2>2. CASE StillPending(t.row) BY <2>1, <2>2 DEF StillPending
  <2>3. CASE ~StillPending(t.row) BY <2>1, <2>3
  <2> QED BY <2>2, <2>3
<1>3. \/ UNCHANGED delivery
      \/ \E c \in HookConsumers, e \in HookEvents, h \in Endpoints : Enqueue(c, e, h)
      \/ \E r \in HookRuns : \E t \in hookRun[r].posting : PostArrives(r, t) \/ PostIsRefused(r, t)
  BY DEF HookNext, hookVars, CreateEndpoint, RevokeEndpoint, RecordAnalytics, PublisherStep,
         PublishAnalytics, PublishAnalyticsFails, MessageReturns, ConsumerStep, TakeMessage,
         Acknowledge, ConsumeFails, RunStep, ReadRows, BeginPost, RunDies
<1> QED BY <1>1, <1>2, <1>3

LEMMA SummaryStep ==
  [MetricsViewNext]_viewVars => [summary' # summary => summary' = filters]_viewVars
BY DEF MetricsViewNext, SetFilters, Effects, Refreshes, Answered, AnswerLost, OpensRanking,
       RankingAnswered, Counts, viewVars

-----------------------------------------------------------------------------
LEMMA IntakeScene == [Next]_deliveryVars => [IntakeNext]_intakeVars
BY DEF Next, deliveryVars, others

LEMMA HookScene == [Next]_deliveryVars => [HookNext]_hookVars
BY DEF Next, deliveryVars, others

LEMMA ViewScene == [Next]_deliveryVars => [MetricsViewNext]_viewVars
BY DEF Next, deliveryVars, others

\* A request that another system was answered keeps its answer, a webhook that was delivered or
\* given up stays so whichever runs of the timer still post it, and an answer to a query of
\* earlier filters never replaces the summary of a page.
THEOREM EndsAreKept == Spec => EndsStay
<1>1. Init => AnswerInv BY InitAnswer DEF Init
<1>2. AnswerInv /\ [Next]_deliveryVars => AnswerInv' BY StepAnswer, IntakeScene
<1>3. AnswerInv /\ [Next]_deliveryVars =>
        [\A k \in Keys \ intakeTrouble.met : event[k].status \in Ended => event'[k] = event[k]]_intakeVars
  BY AnswersStay, IntakeScene
<1>4. [Next]_deliveryVars =>
        [\A d \in DOMAIN delivery :
          delivery[d].status \in {"delivered", "dead_letter"} => delivery'[d].status = delivery[d].status]_hookVars
  BY HookStepStays, HookScene
<1>5. [Next]_deliveryVars => [summary' # summary => summary' = filters]_viewVars
  BY SummaryStep, ViewScene
<1> QED BY <1>1, <1>2, <1>3, <1>4, <1>5, PTL
        DEF Spec, EndsStay, AnswerKept, HookEndStays, SummaryOfFilters

-----------------------------------------------------------------------------
(* OperationsView: a page has one of a socket, a ticket it waits for and a *)
(* timer that will ask for one, and a request only for the company that is *)
(* chosen.                                                                 *)
OpsLinked ==
    /\ linking \subseteq 1..view /\ sockets \subseteq (IF current THEN {view} ELSE {})
    /\ current => applied /\ ~reconnect /\ view \notin linking
    /\ reconnect => applied /\ view \notin linking
    /\ refreshDue => applied
    /\ ~applied => view \notin linking /\ reading = NotReading

OpsRows == [of : 0..MaxViews, version : Nat]

OpsInv ==
    /\ OpsTypeOK /\ OpsLinked
    /\ reading \in OpsRows /\ snapshot \in OpsRows
    /\ reading = NotReading \/ reading.of = view
    /\ applied => snapshot = NoSnapshot \/ snapshot.of = view

LEMMA InitOps == OpsInit => OpsInv
<1> SUFFICES ASSUME OpsInit PROVE OpsInv
  OBVIOUS
<1>1. NoSnapshot \in OpsRows /\ NotReading \in OpsRows
  BY OperationsViewConstants DEF OpsRows, NoSnapshot, NotReading
<1>2. OpsTypeOK
  <2>1. 1 \in 1..(MaxVersions + 1) /\ 1 \in 1..MaxViews BY OperationsViewConstants
  <2> QED BY <2>1 DEF OpsInit, OpsTypeOK, Views
<1>3. OpsLinked BY DEF OpsInit, OpsLinked
<1> QED BY <1>1, <1>2, <1>3 DEF OpsInit, OpsInv

LEMMA OpsRefreshed ==
  ASSUME OpsInv
  PROVE  Refreshed \in OpsRows /\ Refreshed.of = view /\ view \in Views /\ Refreshed # NotReading
BY OperationsViewConstants DEF Refreshed, OpsInv, OpsTypeOK, OpsRows, Views, NotReading

LEMMA StepOps == OpsInv /\ [OpsNext]_opsVars => OpsInv'
<1> SUFFICES ASSUME OpsInv, [OpsNext]_opsVars PROVE OpsInv'
  OBVIOUS
<1> USE OperationsViewConstants DEF OpsTypeOK, OpsLinked
<1>0. /\ Refreshed \in OpsRows /\ Refreshed.of = view /\ view \in Views /\ Refreshed # NotReading
      /\ OpsInv
  BY OpsRefreshed
<1>1. CASE UNCHANGED opsVars BY <1>1 DEF opsVars, OpsInv
<1>2. CASE OpsEffect BY <1>0, <1>2 DEF OpsEffect, OpsInv, OpsRows, NoSnapshot, Views
<1>3. CASE ChangesCompany
  <2>1. /\ view < MaxViews /\ view' = view + 1 /\ applied' = FALSE /\ reading' = NotReading
        /\ sockets' = sockets \ {view} /\ current' = FALSE /\ reconnect' = FALSE
        /\ refreshDue' = FALSE /\ UNCHANGED <<version, snapshot, linking>>
    BY <1>3 DEF ChangesCompany
  <2>2. view' \in Views /\ 1..view \subseteq 1..view' /\ view' \notin 1..view
    BY <1>0, <2>1 DEF Views
  <2>3. sockets' = {} BY <2>1 DEF OpsInv
  <2>4. NotReading \in OpsRows BY DEF OpsRows, NotReading
  <2>5. OpsTypeOK' BY <2>1, <2>2, <2>3 DEF OpsInv, Views
  <2>6. OpsLinked' BY <2>1, <2>2, <2>3 DEF OpsInv
  <2> QED BY <2>1, <2>4, <2>5, <2>6 DEF OpsInv
<1>4. CASE Reads
  <2>1. reading.of = view /\ reading' = [reading EXCEPT !.version = version] /\ version \in Nat
    BY <1>4 DEF Reads, OpsInv
  <2>2. reading' \in OpsRows /\ reading'.of = view BY <1>0, <2>1 DEF OpsInv, OpsRows
  <2> QED BY <1>0, <1>4, <2>2 DEF Reads, OpsInv
<1>5. CASE Shows
  <2>1. reading.of = view /\ applied BY <1>5 DEF Shows, OpsInv
  <2> QED BY <1>0, <1>5, <2>1 DEF Shows, OpsInv, OpsRows, NotReading
<1>6. CASE ReadFails BY <1>0, <1>6 DEF ReadFails, OpsInv, OpsRows, NotReading
<1>7. CASE Polls BY <1>0, <1>7 DEF Polls, OpsInv
<1>8. ASSUME NEW v \in Views, Links(v) PROVE OpsInv'
  <2>1. CASE Alive(v)
    <3>1. v = view /\ applied /\ view \in linking BY <1>8, <2>1 DEF Links, Alive
    <3>2. [of |-> v, version |-> version] \in OpsRows BY <1>0 DEF OpsInv, OpsRows, Views
    <3>3. [of |-> v, version |-> version].of = v OBVIOUS
    <3> QED BY <1>0, <1>8, <2>1, <3>1, <3>2, <3>3 DEF Links, OpsInv
  <2>2. CASE ~Alive(v)
    <3>1. applied => v # view BY <2>2 DEF Alive
    <3>2. /\ UNCHANGED <<version, view, applied, reconnect, refreshDue, sockets, current, snapshot>>
          /\ linking' = linking \ {v} /\ reading' = IF applied THEN Refreshed ELSE reading
      BY <1>8, <2>2 DEF Links
    <3> QED BY <1>0, <3>2 DEF OpsInv
  <2> QED BY <2>1, <2>2
<1>9. ASSUME NEW v \in Views, LinkFails(v) PROVE OpsInv'
  BY <1>0, <1>9 DEF LinkFails, OpsInv
<1>10. CASE SocketBreaks BY <1>0, <1>10 DEF SocketBreaks, OpsInv
<1>11. CASE Reconnects
  <2>1. /\ reconnect /\ reconnect' = FALSE /\ linking' = linking \union {view}
        /\ UNCHANGED <<version, view, applied, snapshot, reading, sockets, current, refreshDue>>
    BY <1>11 DEF Reconnects
  <2>2. applied /\ ~current BY <2>1 DEF OpsInv
  <2>3. view \in 1..view /\ view \in Views BY <1>0 DEF Views
  <2>4. OpsTypeOK' BY <2>1, <2>3 DEF OpsInv
  <2>5. OpsLinked' BY <2>1, <2>2, <2>3 DEF OpsInv
  <2> QED BY <2>1, <2>4, <2>5 DEF OpsInv
<1>12. CASE RefreshTimer BY <1>0, <1>12 DEF RefreshTimer, OpsInv
<1>13. ASSUME NEW here \in BOOLEAN, Changes(here) PROVE OpsInv'
  BY <1>0, <1>13 DEF Changes, OpsInv
<1> QED BY <1>1, <1>2, <1>3, <1>4, <1>5, <1>6, <1>7, <1>8, <1>9, <1>10, <1>11, <1>12, <1>13 DEF OpsNext

\* A page never shows the company it has left, whatever requests, tickets and sockets of that
\* company are still under way, and never keeps a second socket open.
THEOREM PageOwnsAll == OpsSpec => [](OpsTypeOK /\ ViewOwnsAll)
<1>1. OpsInit => OpsInv BY InitOps
<1>2. OpsInv /\ [OpsNext]_opsVars => OpsInv' BY StepOps
<1>3. OpsInv => OpsTypeOK /\ ViewOwnsAll BY DEF OpsInv, OpsLinked, ViewOwnsAll
<1> QED BY <1>1, <1>2, <1>3, PTL DEF OpsSpec

-----------------------------------------------------------------------------
(* MetricsView: the rankings and what counts as loaded.                    *)
ViewInv ==
    /\ MetricsViewTypeOK /\ RankingsOfFilters
    /\ asking \subseteq [query : Queries, of : Rankings, id : Nat] /\ rankingId \in Nat

LEMMA InitView == MetricsViewInit => ViewInv
BY DEF MetricsViewInit, ViewInv, MetricsViewTypeOK, RankingsOfFilters

LEMMA LoadsTyped ==
  ASSUME MetricsViewTypeOK, Loads
  PROVE  \A f \in flights' : f.query \in Queries
<1>1. CASE InFlight(filters) BY <1>1 DEF Loads, MetricsViewTypeOK
<1>2. CASE ~InFlight(filters)
  <2>1. flights' = flights \union {[query |-> filters, turn |-> Turn]} BY <1>2 DEF Loads
  <2> QED BY <2>1 DEF MetricsViewTypeOK
<1> QED BY <1>1, <1>2

LEMMA StepView == ViewInv /\ [MetricsViewNext]_viewVars => ViewInv'
<1> SUFFICES ASSUME ViewInv, [MetricsViewNext]_viewVars PROVE ViewInv'
  OBVIOUS
<1> USE DEF ViewInv, RankingsOfFilters
<1>1. CASE UNCHANGED viewVars BY <1>1 DEF viewVars, MetricsViewTypeOK
<1>2. ASSUME NEW q \in Queries, SetFilters(q) PROVE ViewInv'
  BY <1>2 DEF SetFilters, MetricsViewTypeOK
<1>3. CASE Effects
  <2>1. \A f \in flights' : f.query \in Queries BY <1>3, LoadsTyped DEF Effects
  <2>2. /\ UNCHANGED <<filters, summary, asking>> /\ unrun' = FALSE /\ loaded' = {}
        /\ rankingId' = rankingId + 1 /\ ranking' = [r \in Rankings |-> NoQuery]
    BY <1>3 DEF Effects
  <2>3. MetricsViewTypeOK' BY <2>1, <2>2 DEF MetricsViewTypeOK
  <2>4. \A r \in Rankings : ranking'[r] \in {filters', NoQuery} BY <2>2
  <2> QED BY <2>2, <2>3, <2>4
<1>4. CASE Refreshes
  <2>1. \A f \in flights' : f.query \in Queries BY <1>4, LoadsTyped DEF Refreshes
  <2>2. UNCHANGED <<filters, unrun, summary, ranking, rankingId, asking, loaded>>
    BY <1>4 DEF Refreshes
  <2>3. MetricsViewTypeOK' BY <2>1, <2>2 DEF MetricsViewTypeOK
  <2> QED BY <2>2, <2>3
<1>5. ASSUME NEW f \in flights, Answered(f) \/ AnswerLost(f) PROVE ViewInv'
  <2>1. UNCHANGED <<filters, unrun, ranking, rankingId, asking, loaded>> /\ flights' \subseteq flights
    BY <1>5 DEF Answered, AnswerLost
  <2>2. summary' \in {summary, f.query} /\ f.query \in Queries
    BY <1>5 DEF Answered, AnswerLost, MetricsViewTypeOK
  <2>3. summary' \in Queries \union {NoQuery} BY <2>2 DEF MetricsViewTypeOK
  <2>4. \A g \in flights' : g.query \in Queries BY <2>1 DEF MetricsViewTypeOK
  <2>5. MetricsViewTypeOK' BY <2>1, <2>3, <2>4 DEF MetricsViewTypeOK
  <2> QED BY <2>1, <2>5
<1>6. ASSUME NEW r \in Rankings, OpensRanking(r) PROVE ViewInv'
  <2>1. /\ UNCHANGED <<filters, unrun, summary, flights, ranking, loaded>>
        /\ rankingId' = rankingId + 1
        /\ asking' = asking \union {[query |-> filters, of |-> r, id |-> rankingId + 1]}
    BY <1>6 DEF OpensRanking
  <2>2. [query |-> filters, of |-> r, id |-> rankingId + 1] \in [query : Queries, of : Rankings, id : Nat]
    BY DEF MetricsViewTypeOK
  <2> QED BY <2>1, <2>2 DEF MetricsViewTypeOK
<1>7. ASSUME NEW a \in asking, RankingAnswered(a) PROVE ViewInv'
  <2>1. UNCHANGED <<filters, unrun, summary, flights, rankingId>> /\ asking' = asking \ {a}
    BY <1>7 DEF RankingAnswered
  <2>2. a.of \in Rankings /\ a.query \in Queries OBVIOUS
  <2>3. CASE RankingCounts(a)
    <3>1. /\ ranking' = [ranking EXCEPT ![a.of] = filters] /\ filters = a.query
          /\ loaded' = loaded \union {<<filters, a.of>>}
      BY <1>7, <2>3 DEF RankingAnswered, RankingCounts
    <3>2. ranking' \in [Rankings -> Queries \union {NoQuery}] /\ loaded' \subseteq Queries \X Rankings
      BY <2>2, <3>1 DEF MetricsViewTypeOK
    <3>3. ASSUME ~unrun PROVE \A r \in Rankings : ranking'[r] \in {filters, NoQuery}
      BY <2>2, <3>1, <3>3 DEF MetricsViewTypeOK
    <3>4. ASSUME ~unrun, NEW l \in loaded' PROVE l[1] = filters /\ ranking'[l[2]] = filters
      <4>1. CASE l \in loaded
        <5>1. l[1] = filters /\ ranking[l[2]] = filters /\ l[2] \in Rankings
          BY <3>4, <4>1 DEF MetricsViewTypeOK
        <5> QED BY <2>2, <3>1, <5>1 DEF MetricsViewTypeOK
      <4>2. CASE l = <<filters, a.of>>
        BY <2>2, <3>1, <4>2 DEF MetricsViewTypeOK
      <4> QED BY <3>1, <4>1, <4>2
    <3> QED BY <2>1, <3>2, <3>3, <3>4 DEF MetricsViewTypeOK
  <2>4. CASE ~RankingCounts(a)
    <3>1. UNCHANGED <<ranking, loaded>> BY <1>7, <2>4 DEF RankingAnswered
    <3> QED BY <2>1, <3>1 DEF MetricsViewTypeOK
  <2> QED BY <2>3, <2>4
<1> QED BY <1>1, <1>2, <1>3, <1>4, <1>5, <1>6, <1>7 DEF MetricsViewNext

\* Once the effects of a render have run, no ranking of earlier filters is shown and what counts
\* as loaded is shown, whatever order the answers to the rankings come in.
THEOREM RankingsAreOfFilters == MetricsViewSpec => [](MetricsViewTypeOK /\ RankingsOfFilters)
<1>1. MetricsViewInit => ViewInv BY InitView
<1>2. ViewInv /\ [MetricsViewNext]_viewVars => ViewInv' BY StepView
<1>3. ViewInv => MetricsViewTypeOK /\ RankingsOfFilters BY DEF ViewInv
<1> QED BY <1>1, <1>2, <1>3, PTL DEF MetricsViewSpec

-----------------------------------------------------------------------------
(* CrmOutbox: a row in a batch is pending under a claim that is held, and  *)
(* is in one batch once, unless its claim was outlived or taken by a retry.*)
CrmPosts == [event : CrmEvents, attempt : 1..MaxPosts]
CrmStatuses == {"none", "pending", "delivered", "dead_letter", "purged"}
CrmRows == [status : CrmStatuses, attempts : 0..MaxPosts, claim : {"none", "held", "over"},
            waits : BOOLEAN]
CrmBatches == [batch : SUBSET CrmPosts, posting : SUBSET CrmPosts]
RowsOf(p) == crmFlush[p].batch \cup crmFlush[p].posting

CrmTypes ==
    /\ crmRow \in [CrmEvents -> CrmRows] /\ crmFlush \in [CrmFlushers -> CrmBatches]
    /\ \A e \in CrmEvents : /\ crmRow[e].status = "pending" => crmRow[e].attempts < MaxPosts
                            /\ crmRow[e].status = "none" => crmRow[e].attempts = 0
                            /\ crmRow[e].status \in {"none", "purged"} => crmRow[e].claim = "none"
    /\ \A p \in CrmFlushers : /\ crmFlush[p].batch \cap crmFlush[p].posting = {}
                              /\ \A r, t \in RowsOf(p) : r.event = t.event => r = t

\* The row and the batches of an event whose claim was never outlived.
OneHolder(e) ==
    /\ \A p \in CrmFlushers : \A r \in RowsOf(p) :
           r.event = e => crmRow[e].status = "pending" /\ crmRow[e].claim = "held"
    /\ \A p, q \in CrmFlushers : \A r \in RowsOf(p), t \in RowsOf(q) :
           r.event = e /\ t.event = e => p = q

CrmInv == CrmTypes /\ \A e \in CrmEvents \ crmLoose : OneHolder(e)

LEMMA InitCrmInv == CrmInit => CrmInv
<1> SUFFICES ASSUME CrmInit PROVE CrmInv
  OBVIOUS
<1>1. \A p \in CrmFlushers : crmFlush[p] = NotFlushing /\ RowsOf(p) = {}
  BY DEF CrmInit, RowsOf, NotFlushing
<1>2. crmFlush \in [CrmFlushers -> CrmBatches] BY DEF CrmInit, CrmBatches, NotFlushing
<1>3. crmRow \in [CrmEvents -> CrmRows] BY CrmConstants DEF CrmInit, CrmRows, CrmStatuses
<1>4. \A p \in CrmFlushers : crmFlush[p].batch \cap crmFlush[p].posting = {}
  BY <1>1 DEF NotFlushing
<1>5. CrmTypes BY <1>1, <1>2, <1>3, <1>4, CrmConstants DEF CrmInit, CrmTypes
<1>6. \A e \in CrmEvents : OneHolder(e) BY <1>1 DEF OneHolder
<1> QED BY <1>5, <1>6 DEF CrmInv

\* A write to the row of an event that nobody holds, or that is loose by now.
LEMMA CrmRowWritten ==
  ASSUME CrmInv, NEW e \in CrmEvents, NEW row \in CrmRows,
         crmRow' = [crmRow EXCEPT ![e] = row], crmFlush' = crmFlush,
         row.status = "pending" => row.attempts < MaxPosts,
         row.status = "none" => row.attempts = 0,
         row.status \in {"none", "purged"} => row.claim = "none",
         crmLoose \subseteq crmLoose',
         \/ e \in crmLoose'
         \/ \A p \in CrmFlushers : \A r \in RowsOf(p) : r.event # e
         \/ row.status = crmRow[e].status /\ row.claim = crmRow[e].claim
  PROVE  CrmInv'
<1>1. \A p \in CrmFlushers : RowsOf(p)' = RowsOf(p) BY DEF RowsOf
<1>2. crmRow'[e] = row /\ \A f \in CrmEvents \ {e} : crmRow'[f] = crmRow[f]
  BY DEF CrmInv, CrmTypes
<1>3. crmRow' \in [CrmEvents -> CrmRows] BY DEF CrmInv, CrmTypes
<1>4. CrmTypes' BY <1>1, <1>2, <1>3 DEF CrmInv, CrmTypes
<1>5. ASSUME NEW f \in CrmEvents \ crmLoose' PROVE OneHolder(f)'
  <2>1. OneHolder(f) BY DEF CrmInv
  <2>2. CASE f # e BY <1>1, <1>2, <2>1, <2>2 DEF OneHolder
  <2>3. CASE f = e BY <1>1, <1>2, <2>1, <2>3 DEF OneHolder
  <2> QED BY <2>2, <2>3
<1> QED BY <1>4, <1>5 DEF CrmInv

\* A process keeps some of its rows; the rows it drops may be written.
LEMMA CrmBatchShrinks ==
  ASSUME CrmInv, NEW p \in CrmFlushers, NEW b \in CrmBatches,
         crmFlush' = [crmFlush EXCEPT ![p] = b],
         b.batch \cup b.posting \subseteq RowsOf(p), b.batch \cap b.posting = {},
         UNCHANGED <<crmRow, crmLoose>>
  PROVE  CrmInv'
<1>1. RowsOf(p)' \subseteq RowsOf(p) /\ \A q \in CrmFlushers \ {p} : RowsOf(q)' = RowsOf(q)
  BY DEF RowsOf, CrmInv, CrmTypes
<1>2. \A q \in CrmFlushers : RowsOf(q)' \subseteq RowsOf(q) BY <1>1
<1>3. crmFlush' \in [CrmFlushers -> CrmBatches] BY DEF CrmInv, CrmTypes
<1>4. \A q \in CrmFlushers : crmFlush'[q].batch \cap crmFlush'[q].posting = {}
  BY DEF CrmInv, CrmTypes
<1>5. CrmTypes' BY <1>2, <1>3, <1>4 DEF CrmInv, CrmTypes
<1>6. ASSUME NEW f \in CrmEvents \ crmLoose' PROVE OneHolder(f)'
  <2>1. OneHolder(f) BY DEF CrmInv
  <2> QED BY <1>2, <2>1 DEF OneHolder
<1> QED BY <1>5, <1>6 DEF CrmInv

\* The end of a post: the row is written, and is no longer held by the process that posted it.
LEMMA CrmPostEnds ==
  ASSUME CrmInv, NEW p \in CrmFlushers, NEW r \in crmFlush[p].posting,
         crmFlush' = [crmFlush EXCEPT ![p].posting = {}], UNCHANGED crmLoose,
         \/ UNCHANGED crmRow
         \/ \E status \in CrmStatuses \ {"none", "purged"}, waits \in BOOLEAN :
               /\ status = "pending" => r.attempt < MaxPosts
               /\ crmRow' = Written(r, status, waits)
  PROVE  CrmInv'
<1>1. r \in CrmPosts /\ r \in RowsOf(p) /\ r.event \in CrmEvents /\ r.attempt \in 1..MaxPosts
  BY DEF CrmInv, CrmTypes, CrmBatches, CrmPosts, RowsOf
<1> DEFINE b == [crmFlush[p] EXCEPT !.posting = {}]
<1>2. /\ b \in CrmBatches /\ b.batch = crmFlush[p].batch /\ b.posting = {}
      /\ crmFlush' = [crmFlush EXCEPT ![p] = b]
  BY DEF CrmInv, CrmTypes, CrmBatches
<1> HIDE DEF b
<1>3. /\ crmFlush' \in [CrmFlushers -> CrmBatches] /\ crmFlush'[p] = b
      /\ \A q \in CrmFlushers \ {p} : crmFlush'[q] = crmFlush[q]
  BY <1>2 DEF CrmInv, CrmTypes
<1>4. /\ RowsOf(p)' = crmFlush[p].batch /\ \A q \in CrmFlushers \ {p} : RowsOf(q)' = RowsOf(q)
  BY <1>2, <1>3 DEF RowsOf
<1>5. \A q \in CrmFlushers : RowsOf(q)' \subseteq RowsOf(q) BY <1>4 DEF RowsOf
<1>6. \A t \in RowsOf(p)' : t.event # r.event
  <2>1. r \notin crmFlush[p].batch BY DEF CrmInv, CrmTypes
  <2> QED BY <1>1, <1>4, <2>1 DEF CrmInv, CrmTypes, RowsOf
<1>7. \A q \in CrmFlushers : crmFlush'[q].batch \cap crmFlush'[q].posting = {}
  BY <1>2, <1>3 DEF CrmInv, CrmTypes
<1>8. CASE UNCHANGED crmRow
  <2>1. CrmTypes' BY <1>3, <1>5, <1>7, <1>8 DEF CrmInv, CrmTypes
  <2>2. ASSUME NEW f \in CrmEvents \ crmLoose' PROVE OneHolder(f)'
    <3>1. OneHolder(f) BY DEF CrmInv
    <3> QED BY <1>5, <1>8, <3>1 DEF OneHolder
  <2> QED BY <2>1, <2>2 DEF CrmInv
<1>9. ASSUME NEW status \in CrmStatuses \ {"none", "purged"}, NEW waits \in BOOLEAN,
             status = "pending" => r.attempt < MaxPosts,
             crmRow' = Written(r, status, waits)
      PROVE  CrmInv'
  <2> DEFINE row == [status |-> status, attempts |-> r.attempt, claim |-> "none", waits |-> waits]
  <2>1. row \in CrmRows /\ row.status = status /\ row.attempts = r.attempt
    BY <1>1 DEF CrmRows, CrmStatuses
  <2>2. crmRow' = [crmRow EXCEPT ![r.event] = row] BY <1>9 DEF Written
  <2> HIDE DEF row
  <2>3. /\ crmRow' \in [CrmEvents -> CrmRows] /\ crmRow'[r.event] = row
        /\ \A f \in CrmEvents \ {r.event} : crmRow'[f] = crmRow[f]
    BY <1>1, <2>1, <2>2 DEF CrmInv, CrmTypes
  <2>4. CrmTypes' BY <1>3, <1>5, <1>7, <1>9, <2>1, <2>3 DEF CrmInv, CrmTypes
  <2>5. ASSUME NEW f \in CrmEvents \ crmLoose' PROVE OneHolder(f)'
    <3>1. OneHolder(f) BY DEF CrmInv
    <3>2. CASE f # r.event BY <1>5, <2>3, <3>1, <3>2 DEF OneHolder
    <3>3. CASE f = r.event
      <4>1. \A q \in CrmFlushers : \A t \in RowsOf(q)' : t.event # f
        <5> TAKE q \in CrmFlushers
        <5>1. CASE q = p BY <1>6, <3>3, <5>1
        <5>2. CASE q # p BY <1>1, <1>4, <3>1, <3>3, <5>2 DEF OneHolder
        <5> QED BY <5>1, <5>2
      <4> QED BY <4>1 DEF OneHolder
    <3> QED BY <3>2, <3>3
  <2> QED BY <2>4, <2>5 DEF CrmInv
<1> QED BY <1>8, <1>9

LEMMA CrmClaims == ASSUME CrmInv, NEW p \in CrmFlushers, Claim(p) PROVE CrmInv'
<1> DEFINE taken == {[event |-> e, attempt |-> crmRow[e].attempts + 1] : e \in Due}
           b == [crmFlush[p] EXCEPT !.batch = taken]
<1>1. /\ crmFlush[p] = NotFlushing /\ UNCHANGED crmLoose
      /\ crmRow' = [e \in CrmEvents |-> IF e \in Due THEN [crmRow[e] EXCEPT !.claim = "held"] ELSE crmRow[e]]
      /\ crmFlush' = [crmFlush EXCEPT ![p] = b]
  BY DEF Claim
<1>2. ASSUME NEW e \in Due
      PROVE  [event |-> e, attempt |-> crmRow[e].attempts + 1] \in CrmPosts
  <2>1. e \in CrmEvents /\ crmRow[e].attempts < MaxPosts /\ crmRow[e].attempts \in 0..MaxPosts
    BY DEF Due, CrmInv, CrmTypes, CrmRows
  <2> QED BY <2>1, CrmConstants DEF CrmPosts
<1>3. /\ taken \subseteq CrmPosts /\ \A r \in taken : r.event \in Due
      /\ \A r, t \in taken : r.event = t.event => r = t
  BY <1>2
<1>4. b = [batch |-> taken, posting |-> {}]
  <2>1. crmFlush[p] = NotFlushing BY <1>1
  <2> HIDE DEF taken
  <2>2. b = [NotFlushing EXCEPT !.batch = taken] BY <2>1
  <2> HIDE DEF b
  <2> QED BY <2>2 DEF NotFlushing
<1> HIDE DEF taken, b
<1>5. b \in CrmBatches /\ b.batch = taken /\ b.posting = {} BY <1>3, <1>4 DEF CrmBatches
<1>6. /\ crmFlush' \in [CrmFlushers -> CrmBatches] /\ crmFlush'[p] = b
      /\ \A q \in CrmFlushers \ {p} : crmFlush'[q] = crmFlush[q]
  BY <1>1, <1>5 DEF CrmInv, CrmTypes
<1>7. RowsOf(p)' = taken /\ \A q \in CrmFlushers \ {p} : RowsOf(q)' = RowsOf(q)
  BY <1>5, <1>6 DEF RowsOf
<1>8. ASSUME NEW e \in CrmEvents
      PROVE  /\ crmRow'[e] \in CrmRows
             /\ crmRow'[e].status = crmRow[e].status /\ crmRow'[e].attempts = crmRow[e].attempts
             /\ e \in Due => crmRow'[e].claim = "held"
             /\ e \notin Due => crmRow'[e] = crmRow[e]
  BY <1>1 DEF CrmInv, CrmTypes, CrmRows
<1>9. crmRow' \in [CrmEvents -> CrmRows] BY <1>1, <1>8
<1>10. \A e \in Due : crmRow[e].status = "pending" /\ crmRow[e].claim # "held" /\ e \in CrmEvents
  BY DEF Due
<1>11. \A q \in CrmFlushers : /\ crmFlush'[q].batch \cap crmFlush'[q].posting = {}
                              /\ \A r, t \in RowsOf(q)' : r.event = t.event => r = t
  BY <1>3, <1>5, <1>6, <1>7 DEF CrmInv, CrmTypes
<1>12. CrmTypes' BY <1>6, <1>8, <1>9, <1>10, <1>11 DEF CrmInv, CrmTypes
<1>13. ASSUME NEW f \in CrmEvents \ crmLoose' PROVE OneHolder(f)'
  <2>1. OneHolder(f) BY <1>1 DEF CrmInv
  <2>2. CASE f \notin Due BY <1>3, <1>7, <1>8, <2>1, <2>2 DEF OneHolder
  <2>3. CASE f \in Due
    <3>1. \A q \in CrmFlushers : \A r \in RowsOf(q) : r.event # f
      BY <1>10, <2>1, <2>3 DEF OneHolder
    <3>2. \A q \in CrmFlushers : \A r \in RowsOf(q)' : r.event = f => q = p
      BY <1>7, <3>1
    <3>3. crmRow'[f].status = "pending" /\ crmRow'[f].claim = "held" BY <1>8, <1>10, <2>3
    <3> QED BY <3>2, <3>3 DEF OneHolder
  <2> QED BY <2>2, <2>3
<1> QED BY <1>12, <1>13 DEF CrmInv

LEMMA StepCrm == CrmInv /\ [CrmNext]_crmVars => CrmInv'
<1> SUFFICES ASSUME CrmInv, [CrmNext]_crmVars PROVE CrmInv'
  OBVIOUS
<1>0. \A e \in CrmEvents : /\ crmRow[e] \in CrmRows
                           /\ HeldBy(e) = {} => \A p \in CrmFlushers : \A r \in RowsOf(p) : r.event # e
  BY DEF CrmInv, CrmTypes, HeldBy, RowsOf
<1>1. ASSUME UNCHANGED <<crmRow, crmFlush, crmLoose>> PROVE CrmInv'
  BY <1>1 DEF CrmInv, CrmTypes, OneHolder, RowsOf
<1>2. ASSUME NEW e \in CrmEvents, RecordCrm(e) PROVE CrmInv'
  <2> DEFINE row == [crmRow[e] EXCEPT !.status = "pending"]
  <2>1. crmRow[e].status = "none" /\ crmRow' = [crmRow EXCEPT ![e] = row] /\ UNCHANGED <<crmFlush, crmLoose>>
    BY <1>2 DEF RecordCrm
  <2>2. row \in CrmRows /\ row.status = "pending" /\ row.attempts = crmRow[e].attempts
    BY <1>0 DEF CrmRows, CrmStatuses
  <2>3. row.attempts < MaxPosts BY <2>1, <2>2, CrmConstants DEF CrmInv, CrmTypes
  <2> HIDE DEF row
  <2>4. e \in crmLoose \/ \A p \in CrmFlushers : \A r \in RowsOf(p) : r.event # e
    BY <2>1 DEF CrmInv, OneHolder
  <2> QED BY <2>1, <2>2, <2>3, <2>4, CrmRowWritten
<1>3. ASSUME NEW e \in CrmEvents, RetryCrm(e) PROVE CrmInv'
  <2> DEFINE row == [status |-> "pending", attempts |-> 0, claim |-> "none", waits |-> FALSE]
  <2>1. crmRow' = [crmRow EXCEPT ![e] = row] /\ UNCHANGED crmFlush
        /\ crmLoose' = (IF HeldBy(e) # {} THEN crmLoose \cup {e} ELSE crmLoose)
    BY <1>3 DEF RetryCrm
  <2>2. row \in CrmRows /\ row.status = "pending" /\ row.attempts < MaxPosts
    BY CrmConstants DEF CrmRows, CrmStatuses
  <2> HIDE DEF row
  <2> QED BY <1>0, <2>1, <2>2, CrmRowWritten
<1>4. ASSUME NEW e \in CrmEvents, WaitEnds(e) PROVE CrmInv'
  <2> DEFINE row == [crmRow[e] EXCEPT !.waits = FALSE]
  <2>1. crmRow' = [crmRow EXCEPT ![e] = row] /\ UNCHANGED <<crmFlush, crmLoose>>
    BY <1>4 DEF WaitEnds
  <2>2. /\ row \in CrmRows /\ row.status = crmRow[e].status /\ row.claim = crmRow[e].claim
        /\ row.attempts = crmRow[e].attempts
    BY <1>0 DEF CrmRows
  <2> HIDE DEF row
  <2>3. /\ row.status = "pending" => row.attempts < MaxPosts
        /\ row.status = "none" => row.attempts = 0
        /\ row.status \in {"none", "purged"} => row.claim = "none"
    BY <2>2 DEF CrmInv, CrmTypes
  <2> QED BY <2>1, <2>2, <2>3, CrmRowWritten
<1>5. ASSUME NEW e \in CrmEvents, ClaimRunsOut(e) PROVE CrmInv'
  <2> DEFINE row == [crmRow[e] EXCEPT !.claim = "over"]
  <2>1. /\ crmRow[e].claim = "held" /\ crmRow' = [crmRow EXCEPT ![e] = row] /\ UNCHANGED crmFlush
        /\ (HeldBy(e) = {} /\ crmLoose' = crmLoose) \/ crmLoose' = crmLoose \cup {e}
    BY <1>5 DEF ClaimRunsOut
  <2>2. row \in CrmRows /\ row.status = crmRow[e].status /\ row.attempts = crmRow[e].attempts
    BY <1>0 DEF CrmRows
  <2> HIDE DEF row
  <2>3. /\ row.status = "pending" => row.attempts < MaxPosts
        /\ row.status = "none" => row.attempts = 0
        /\ row.status \notin {"none", "purged"}
    BY <2>1, <2>2 DEF CrmInv, CrmTypes
  <2> QED BY <1>0, <2>1, <2>2, <2>3, CrmRowWritten
<1>6. ASSUME NEW e \in CrmEvents, PurgeCrm(e) PROVE CrmInv'
  <2> DEFINE row == [status |-> "purged", attempts |-> 0, claim |-> "none", waits |-> FALSE]
  <2>1. /\ crmRow[e].status = "delivered" /\ crmRow' = [crmRow EXCEPT ![e] = row]
        /\ UNCHANGED <<crmFlush, crmLoose>>
    BY <1>6 DEF PurgeCrm
  <2>2. row \in CrmRows /\ row.status = "purged" /\ row.claim = "none" /\ row.attempts = 0
    BY CrmConstants DEF CrmRows, CrmStatuses
  <2> HIDE DEF row
  <2>3. e \in crmLoose \/ \A p \in CrmFlushers : \A r \in RowsOf(p) : r.event # e
    BY <2>1 DEF CrmInv, OneHolder
  <2> QED BY <2>1, <2>2, <2>3, CrmRowWritten
<1>7. ASSUME NEW p \in CrmFlushers, NEW r \in crmFlush[p].batch, PostCrm(p, r) PROVE CrmInv'
  <2> DEFINE b == [batch |-> crmFlush[p].batch \ {r}, posting |-> {r}]
  <2>1. crmFlush' = [crmFlush EXCEPT ![p] = b] /\ UNCHANGED <<crmRow, crmLoose>>
    BY <1>7 DEF PostCrm
  <2>2. /\ b \in CrmBatches /\ b.batch \cup b.posting \subseteq RowsOf(p)
        /\ b.batch \cap b.posting = {}
    BY DEF CrmInv, CrmTypes, CrmBatches, RowsOf
  <2> HIDE DEF b
  <2> QED BY <2>1, <2>2, CrmBatchShrinks
<1>8. ASSUME NEW p \in CrmFlushers, NEW r \in crmFlush[p].posting, PostSucceeds(p, r) PROVE CrmInv'
  <2>1. "delivered" \in CrmStatuses \ {"none", "purged"} BY DEF CrmStatuses
  <2> QED BY <1>8, <2>1, CrmPostEnds DEF PostSucceeds
<1>9. ASSUME NEW p \in CrmFlushers, NEW r \in crmFlush[p].posting, PostFailsCrm(p, r) PROVE CrmInv'
  <2>1. /\ AfterFailure(r.attempt) \in CrmStatuses \ {"none", "purged"}
        /\ AfterFailure(r.attempt) = "pending" => ~(r.attempt >= MaxPosts)
    BY DEF CrmStatuses, AfterFailure
  <2>2. r.attempt \in 1..MaxPosts BY DEF CrmInv, CrmTypes, CrmBatches, CrmPosts
  <2>3. AfterFailure(r.attempt) = "pending" => r.attempt < MaxPosts
    BY <2>1, <2>2, CrmConstants
  <2>4. /\ crmFlush' = [crmFlush EXCEPT ![p].posting = {}] /\ UNCHANGED crmLoose
        /\ UNCHANGED crmRow \/ crmRow' = Written(r, AfterFailure(r.attempt), TRUE)
    BY <1>9 DEF PostFailsCrm
  <2> QED BY <2>1, <2>3, <2>4, CrmPostEnds
<1>10. ASSUME NEW p \in CrmFlushers, FlusherDies(p) PROVE CrmInv'
  <2>1. crmFlush' = [crmFlush EXCEPT ![p] = NotFlushing] /\ UNCHANGED <<crmRow, crmLoose>>
    BY <1>10 DEF FlusherDies
  <2>2. /\ NotFlushing \in CrmBatches /\ NotFlushing.batch = {} /\ NotFlushing.posting = {}
    BY DEF NotFlushing, CrmBatches
  <2> QED BY <2>1, <2>2, CrmBatchShrinks
<1>11. CASE UNCHANGED crmVars BY <1>1, <1>11 DEF crmVars
<1>12. CASE SetCrmHook BY <1>1, <1>12 DEF SetCrmHook
<1> QED BY <1>2, <1>3, <1>4, <1>5, <1>6, <1>7, <1>8, <1>9, <1>10, <1>11, <1>12, CrmClaims
        DEF CrmNext, FlusherStep

LEMMA CrmIsKept == CrmInv => CrmTypeOK /\ CrmOnePoster
<1> SUFFICES ASSUME CrmInv PROVE CrmTypeOK /\ CrmOnePoster
  OBVIOUS
<1>1. CrmTypeOK BY DEF CrmInv, CrmTypes, CrmRows, CrmStatuses, CrmTypeOK
<1>2. ASSUME NEW e \in CrmEvents \ crmLoose PROVE Cardinality(HeldBy(e)) <= 1
  <2>1. \A p, q \in HeldBy(e) : p = q
    <3>1. OneHolder(e) BY DEF CrmInv
    <3>2. HeldBy(e) = {p \in CrmFlushers : \E r \in RowsOf(p) : r.event = e} BY DEF HeldBy, RowsOf
    <3> QED BY <3>1, <3>2 DEF OneHolder
  <2>2. CASE HeldBy(e) = {} BY <2>2, FS_EmptySet
  <2>3. CASE HeldBy(e) # {}
    <3>1. PICK p \in HeldBy(e) : HeldBy(e) = {p} BY <2>1, <2>3
    <3>2. Cardinality({p}) = 1 BY FS_Singleton
    <3> QED BY <3>1, <3>2
  <2> QED BY <2>2, <2>3
<1> QED BY <1>1, <1>2 DEF CrmOnePoster

\* An event is posted by one process at a time, while no batch outlives its claim and nobody
\* sends the event again by hand: whichever timers claim, die or fail to write an outcome.
THEOREM OnePoster == CrmSpec => [](CrmTypeOK /\ CrmOnePoster)
BY InitCrmInv, StepCrm, CrmIsKept, PTL DEF CrmSpec

-----------------------------------------------------------------------------
(* BillingInbox: a worker whose claim has not lapsed knows how old it is,  *)
(* and no other one holds a claim on the same event that has not lapsed.   *)
Ages == 0..Reclaim + 1
InboxRows == [status : InboxStatus, attempts : 0..DeadAfter, age : Ages, wait : 0..DeadAfter]
WorkFields == [running : BOOLEAN, todo : Seq(Events), holds : Events \cup {NoEvent}, held : Ages]

\* What a worker holds is on its list, and it has a list only while it runs.
InboxWork == {b \in WorkFields : /\ b.holds # NoEvent => b.todo # <<>>
                                 /\ b.todo # <<>> => b.running}

Fresh(w) == inboxWorker[w].holds \in Events \ inboxLate /\ inboxWorker[w].held <= Reclaim

ClaimsInv ==
    /\ inboxRow \in [Events -> InboxRows] /\ inboxWorker \in [BillingWorkers -> InboxWork]
    /\ \A w \in BillingWorkers : Fresh(w) =>
           /\ inboxRow[inboxWorker[w].holds].status = "processing"
           /\ inboxRow[inboxWorker[w].holds].age = inboxWorker[w].held
    /\ \A w, v \in BillingWorkers :
           Fresh(w) /\ Fresh(v) /\ inboxWorker[w].holds = inboxWorker[v].holds => w = v

(* An event that a worker holds has been recorded.                         *)
RowsListed ==
    /\ inboxOrder \in Seq(Events) /\ inboxLock.left \in 0..WorkerTTL
    /\ \A e \in Events : inboxRow[e].status = "none" <=> \A i \in DOMAIN inboxOrder : inboxOrder[i] # e
    /\ \A e \in Events : inboxRow[e].status = "processing" => inboxRow[e].attempts > 0
    /\ \A w \in BillingWorkers : inboxWorker[w].holds \in Events =>
           inboxRow[inboxWorker[w].holds].status # "none"

InboxIInv == ClaimsInv /\ RowsListed

LEMMA RestingWorks == Resting \in InboxWork /\ Resting.holds = NoEvent
<1>1. 0 \in Ages BY InboxConstants DEF Ages
<1>2. <<>> \in Seq(Events) OBVIOUS
<1>3. Resting \in WorkFields /\ Resting.holds = NoEvent /\ Resting.todo = <<>>
  BY <1>1, <1>2 DEF Resting, WorkFields
<1> QED BY <1>3 DEF InboxWork

LEMMA InitClaims == InboxInit => ClaimsInv
<1> SUFFICES ASSUME InboxInit PROVE ClaimsInv
  OBVIOUS
<1>1. Resting \in InboxWork /\ Resting.holds = NoEvent BY RestingWorks
<1>2. \A w \in BillingWorkers : ~Fresh(w) BY <1>1, InboxConstants DEF InboxInit, Fresh
<1>3. inboxRow \in [Events -> InboxRows]
  BY InboxConstants DEF InboxInit, InboxRows, InboxStatus, Ages
<1> QED BY <1>1, <1>2, <1>3 DEF InboxInit, ClaimsInv

\* A worker steps and the rows stay: it holds nothing new.
LEMMA ClaimsWorkerRests ==
  ASSUME ClaimsInv, NEW w \in BillingWorkers, NEW b \in InboxWork,
         inboxWorker' = [inboxWorker EXCEPT ![w] = b],
         b.holds \in {inboxWorker[w].holds, NoEvent}, b.held = inboxWorker[w].held \/ b.holds = NoEvent,
         UNCHANGED <<inboxRow, inboxLate>>
  PROVE  ClaimsInv'
<1>1. /\ inboxWorker' \in [BillingWorkers -> InboxWork] /\ inboxWorker'[w] = b
      /\ \A v \in BillingWorkers \ {w} : inboxWorker'[v] = inboxWorker[v]
  BY DEF ClaimsInv
<1>2. ASSUME NEW v \in BillingWorkers, Fresh(v)'
      PROVE  /\ Fresh(v) /\ inboxWorker'[v].holds = inboxWorker[v].holds
             /\ inboxWorker'[v].held = inboxWorker[v].held
  <2>1. CASE v = w BY <1>1, <1>2, <2>1, InboxConstants DEF Fresh
  <2>2. CASE v # w BY <1>1, <1>2, <2>2 DEF Fresh
  <2> QED BY <2>1, <2>2
<1> QED BY <1>1, <1>2 DEF ClaimsInv

\* A row is written that no claim protects, or whose event is settled late.
LEMMA ClaimsRowWritten ==
  ASSUME ClaimsInv, NEW e \in Events, NEW r \in InboxRows,
         inboxRow' = [inboxRow EXCEPT ![e] = r],
         inboxWorker' \in [BillingWorkers -> InboxWork], inboxLate \subseteq inboxLate',
         \A v \in BillingWorkers : Fresh(v)' =>
            /\ inboxWorker'[v].holds = inboxWorker[v].holds /\ inboxWorker'[v].held = inboxWorker[v].held
            /\ inboxWorker'[v].holds # e
  PROVE  ClaimsInv'
<1>1. /\ inboxRow' \in [Events -> InboxRows] /\ \A f \in Events \ {e} : inboxRow'[f] = inboxRow[f]
  BY DEF ClaimsInv
<1>2. ASSUME NEW v \in BillingWorkers, Fresh(v)'
      PROVE  /\ Fresh(v) /\ inboxWorker'[v].holds = inboxWorker[v].holds
             /\ inboxWorker'[v].held = inboxWorker[v].held
             /\ inboxWorker[v].holds \in Events \ {e}
  BY <1>2 DEF Fresh
<1> QED BY <1>1, <1>2 DEF ClaimsInv

LEMMA ClaimsTaken ==
  ASSUME ClaimsInv, NEW w \in BillingWorkers, ClaimEvent(w)
  PROVE  ClaimsInv'
<1> DEFINE e == Head(inboxWorker[w].todo)
<1>1. /\ inboxWorker[w].holds = NoEvent /\ inboxWorker[w].todo # <<>> /\ UNCHANGED inboxLate
      /\ inboxWorker[w] \in InboxWork /\ inboxWorker[w] \in WorkFields
      /\ inboxWorker[w].todo \in Seq(Events) /\ inboxWorker[w].running
  BY DEF ClaimEvent, ClaimsInv, InboxWork, WorkFields
<1>2. e \in Events BY <1>1
<1>3. CASE ~Claimable(inboxRow[e])
  <2> DEFINE b == [inboxWorker[w] EXCEPT !.todo = Tail(@)]
  <2>1. inboxWorker' = [inboxWorker EXCEPT ![w] = b] /\ UNCHANGED inboxRow
    BY <1>3 DEF ClaimEvent
  <2>2. Tail(inboxWorker[w].todo) \in Seq(Events) BY <1>1
  <2>3. /\ b \in WorkFields /\ b.holds = inboxWorker[w].holds /\ b.held = inboxWorker[w].held
        /\ b.running
    BY <1>1, <2>2 DEF WorkFields
  <2>4. b \in InboxWork BY <1>1, <2>3 DEF InboxWork
  <2> HIDE DEF b
  <2> QED BY <1>1, <2>1, <2>3, <2>4, ClaimsWorkerRests
<1>4. CASE Claimable(inboxRow[e])
  <2> DEFINE b == [inboxWorker[w] EXCEPT !.holds = e, !.held = 0]
             r == [inboxRow[e] EXCEPT !.status = "processing", !.age = 0,
                                      !.attempts = Lesser(@ + 1, DeadAfter)]
  <2>1. inboxWorker' = [inboxWorker EXCEPT ![w] = b]
    BY <1>4 DEF ClaimEvent
  <2>2. inboxRow' = [inboxRow EXCEPT ![e] = r]
    BY <1>4 DEF ClaimEvent
  <2>3. 0 \in Ages BY InboxConstants DEF Ages
  <2>4. b \in InboxWork /\ b.holds = e /\ b.held = 0
    <3> HIDE DEF e
    <3>1. /\ b \in WorkFields /\ b.holds = e /\ b.held = 0 /\ b.running
          /\ b.todo = inboxWorker[w].todo
      BY <1>1, <1>2, <2>3 DEF WorkFields
    <3> QED BY <1>1, <3>1 DEF InboxWork
  <2>5. inboxRow[e] \in InboxRows BY <1>2 DEF ClaimsInv
  <2>6. r \in InboxRows /\ r.status = "processing" /\ r.age = 0
    <3> HIDE DEF e
    <3>1. inboxRow[e].attempts \in 0..DeadAfter /\ DeadAfter \in Nat BY <2>5, InboxConstants DEF InboxRows
    <3>2. Lesser(inboxRow[e].attempts + 1, DeadAfter) \in 0..DeadAfter BY <3>1 DEF Lesser
    <3> QED BY <2>3, <2>5, <3>2 DEF InboxRows, InboxStatus
  <2> HIDE DEF b, r, e
  <2>7. /\ inboxWorker' \in [BillingWorkers -> InboxWork] /\ inboxWorker'[w] = b
        /\ \A v \in BillingWorkers \ {w} : inboxWorker'[v] = inboxWorker[v]
    BY <2>1, <2>4 DEF ClaimsInv
  <2>8. /\ inboxRow' \in [Events -> InboxRows] /\ inboxRow'[e] = r
        /\ \A f \in Events \ {e} : inboxRow'[f] = inboxRow[f]
    BY <1>2, <2>2, <2>6 DEF ClaimsInv
  <2>9. ASSUME NEW v \in BillingWorkers, Fresh(v) PROVE v # w /\ inboxWorker[v].holds # e
    <3>1. v # w BY <1>1, <2>9, InboxConstants DEF Fresh
    <3>2. inboxRow[e].status = "processing" => inboxRow[e].age > Reclaim
      BY <1>4 DEF Claimable
    <3>3. inboxRow[e].age \in Ages BY <2>5 DEF InboxRows
    <3> QED BY <2>9, <3>1, <3>2, <3>3, InboxConstants DEF ClaimsInv, Fresh, Ages
  <2>10. \A v \in BillingWorkers \ {w} : Fresh(v)' <=> Fresh(v)
    BY <1>1, <2>7 DEF Fresh
  <2>11. ASSUME NEW v \in BillingWorkers, Fresh(v)'
         PROVE  /\ inboxRow'[inboxWorker'[v].holds].status = "processing"
                /\ inboxRow'[inboxWorker'[v].holds].age = inboxWorker'[v].held
    <3>1. CASE v = w BY <2>4, <2>6, <2>7, <2>8, <3>1
    <3>2. CASE v # w
      <4>1. Fresh(v) /\ inboxWorker'[v] = inboxWorker[v] BY <2>7, <2>10, <2>11, <3>2
      <4>2. inboxWorker[v].holds \in Events \ {e} BY <2>9, <4>1 DEF Fresh
      <4> QED BY <2>8, <4>1, <4>2 DEF ClaimsInv
    <3> QED BY <3>1, <3>2
  <2>12. ASSUME NEW u \in BillingWorkers, NEW v \in BillingWorkers, Fresh(u)', Fresh(v)',
                inboxWorker'[u].holds = inboxWorker'[v].holds
         PROVE  u = v
    <3>1. CASE u # w /\ v # w BY <2>7, <2>10, <2>12, <3>1 DEF ClaimsInv
    <3>2. CASE u = w /\ v # w BY <2>4, <2>7, <2>9, <2>10, <2>12, <3>2
    <3>3. CASE v = w /\ u # w BY <2>4, <2>7, <2>9, <2>10, <2>12, <3>3
    <3> QED BY <3>1, <3>2, <3>3
  <2> QED BY <2>7, <2>8, <2>11, <2>12 DEF ClaimsInv
<1> QED BY <1>3, <1>4

LEMMA ClaimsSettled ==
  ASSUME ClaimsInv, NEW w \in BillingWorkers, NEW r \in InboxRows, Settle(w, r)
  PROVE  ClaimsInv'
<1> DEFINE e == inboxWorker[w].holds
           b == [inboxWorker[w] EXCEPT !.holds = NoEvent, !.held = 0, !.todo = Tail(@)]
<1>1. /\ e \in Events /\ e # NoEvent
      /\ inboxWorker[w] \in InboxWork /\ inboxWorker[w] \in WorkFields
      /\ inboxRow' = [inboxRow EXCEPT ![e] = r] /\ inboxWorker' = [inboxWorker EXCEPT ![w] = b]
      /\ inboxLate' = IF inboxRow[e].status = "processing" /\ inboxRow[e].age = inboxWorker[w].held
                      THEN inboxLate ELSE inboxLate \cup {e}
  BY DEF Settle, ClaimsInv, InboxWork, WorkFields
<1>3. inboxWorker[w].todo \in Seq(Events) /\ inboxWorker[w].todo # <<>> /\ inboxWorker[w].running
  BY <1>1 DEF InboxWork, WorkFields
<1> HIDE DEF e
<1>2. inboxWorker'[w] = b /\ \A v \in BillingWorkers \ {w} : inboxWorker'[v] = inboxWorker[v]
  <2> HIDE DEF b
  <2> QED BY <1>1 DEF ClaimsInv
<1>4. 0 \in Ages BY InboxConstants DEF Ages
<1>5. b.holds = NoEvent BY <1>1 DEF WorkFields
<1>6. b \in InboxWork
  <2>1. Tail(inboxWorker[w].todo) \in Seq(Events) BY <1>3
  <2>2. b \in WorkFields /\ b.running BY <1>1, <1>3, <1>4, <2>1 DEF WorkFields
  <2> QED BY <1>5, <2>2 DEF InboxWork
<1> HIDE DEF b
<1>7. inboxWorker' \in [BillingWorkers -> InboxWork] BY <1>1, <1>6 DEF ClaimsInv
<1>8. ASSUME NEW v \in BillingWorkers, Fresh(v)'
      PROVE  /\ inboxWorker'[v].holds = inboxWorker[v].holds /\ inboxWorker'[v].held = inboxWorker[v].held
             /\ inboxWorker'[v].holds # e
  <2>1. v # w BY <1>2, <1>5, <1>8, InboxConstants DEF Fresh
  <2>2. inboxWorker'[v] = inboxWorker[v] /\ Fresh(v) BY <1>1, <1>2, <1>8, <2>1 DEF Fresh
  <2>3. ASSUME inboxWorker[v].holds = e PROVE FALSE
    <3>1. inboxRow[e].age = inboxWorker[v].held BY <2>2, <2>3 DEF ClaimsInv
    <3>2. e \notin inboxLate' BY <1>8, <2>2, <2>3 DEF Fresh
    <3>3. inboxRow[e].age = inboxWorker[w].held /\ e \notin inboxLate BY <1>1, <3>2
    <3>4. Fresh(w) BY <1>1, <2>2, <3>1, <3>3 DEF Fresh, e
    <3> QED BY <2>1, <2>2, <2>3, <3>4 DEF ClaimsInv, e
  <2> QED BY <2>2, <2>3
<1> QED BY <1>1, <1>7, <1>8, ClaimsRowWritten

LEMMA ClaimsAge ==
  ASSUME ClaimsInv, MinutePasses
  PROVE  ClaimsInv'
<1>1. /\ inboxLate' = inboxLate
      /\ \A w \in BillingWorkers : inboxWorker'[w] = [inboxWorker[w] EXCEPT
           !.held = IF inboxWorker[w].holds = NoEvent THEN 0 ELSE Lesser(@ + 1, Reclaim + 1)]
      /\ \A e \in Events : inboxRow'[e] = [inboxRow[e] EXCEPT
           !.wait = IF @ > 0 THEN @ - 1 ELSE 0,
           !.age = IF inboxRow[e].status = "processing" THEN Lesser(@ + 1, Reclaim + 1) ELSE 0]
      /\ inboxWorker' = [w \in BillingWorkers |-> inboxWorker'[w]]
      /\ inboxRow' = [e \in Events |-> inboxRow'[e]]
  BY DEF MinutePasses
<1>2. ASSUME NEW n \in Ages PROVE Lesser(n + 1, Reclaim + 1) \in Ages /\ 0 \in Ages
  BY <1>2, InboxConstants DEF Ages, Lesser
<1>3. ASSUME NEW w \in BillingWorkers
      PROVE  /\ inboxWorker'[w] \in InboxWork /\ inboxWorker'[w].holds = inboxWorker[w].holds
             /\ inboxWorker[w].holds # NoEvent =>
                  inboxWorker'[w].held = Lesser(inboxWorker[w].held + 1, Reclaim + 1)
  <2> DEFINE n == IF inboxWorker[w].holds = NoEvent THEN 0 ELSE Lesser(inboxWorker[w].held + 1, Reclaim + 1)
  <2>1. /\ inboxWorker[w] \in InboxWork /\ inboxWorker[w] \in WorkFields
        /\ inboxWorker[w].held \in Ages
    BY DEF ClaimsInv, InboxWork, WorkFields
  <2>2. n \in Ages BY <1>2, <2>1
  <2>3. inboxWorker'[w] = [inboxWorker[w] EXCEPT !.held = n] BY <1>1
  <2>4. inboxWorker[w].holds # NoEvent => n = Lesser(inboxWorker[w].held + 1, Reclaim + 1) OBVIOUS
  <2> HIDE DEF n
  <2>5. /\ inboxWorker'[w] \in WorkFields /\ inboxWorker'[w].holds = inboxWorker[w].holds
        /\ inboxWorker'[w].held = n /\ inboxWorker'[w].todo = inboxWorker[w].todo
        /\ inboxWorker'[w].running = inboxWorker[w].running
    BY <2>1, <2>2, <2>3 DEF WorkFields
  <2> QED BY <2>1, <2>4, <2>5 DEF InboxWork
<1>4. ASSUME NEW e \in Events
      PROVE  /\ inboxRow'[e] \in InboxRows /\ inboxRow'[e].status = inboxRow[e].status
             /\ inboxRow[e].status = "processing" =>
                  inboxRow'[e].age = Lesser(inboxRow[e].age + 1, Reclaim + 1)
  <2>1. inboxRow[e] \in InboxRows BY DEF ClaimsInv
  <2>2. (IF inboxRow[e].wait > 0 THEN inboxRow[e].wait - 1 ELSE 0) \in 0..DeadAfter
    BY <2>1, InboxConstants DEF InboxRows
  <2> QED BY <1>1, <1>2, <2>1, <2>2 DEF InboxRows
<1>5. ASSUME NEW w \in BillingWorkers, Fresh(w)' PROVE Fresh(w)
  <2>1. inboxWorker[w].holds \in Events \ inboxLate /\ inboxWorker[w].holds # NoEvent
    BY <1>1, <1>3, <1>5, InboxConstants DEF Fresh
  <2>2. inboxWorker[w].held \in Ages BY DEF ClaimsInv, InboxWork, WorkFields
  <2>3. inboxWorker'[w].held <= Reclaim BY <1>5 DEF Fresh
  <2>4. inboxWorker[w].held <= Reclaim
    BY <1>3, <2>1, <2>2, <2>3, InboxConstants DEF Lesser, Ages
  <2> QED BY <2>1, <2>4 DEF Fresh
<1>6. ASSUME NEW w \in BillingWorkers, Fresh(w)'
      PROVE  /\ inboxRow'[inboxWorker'[w].holds].status = "processing"
             /\ inboxRow'[inboxWorker'[w].holds].age = inboxWorker'[w].held
  <2>1. Fresh(w) BY <1>5, <1>6
  <2>2. inboxWorker[w].holds \in Events /\ inboxWorker[w].holds # NoEvent
    BY <2>1, InboxConstants DEF Fresh
  <2> QED BY <1>3, <1>4, <2>1, <2>2 DEF ClaimsInv
<1>7. inboxRow' \in [Events -> InboxRows] /\ inboxWorker' \in [BillingWorkers -> InboxWork]
  BY <1>1, <1>3, <1>4
<1> QED BY <1>3, <1>5, <1>6, <1>7 DEF ClaimsInv

LEMMA StepClaims ==
  InboxIInv /\ [InboxNext]_inboxVars => ClaimsInv'
<1> SUFFICES ASSUME InboxIInv, [InboxNext]_inboxVars PROVE ClaimsInv'
  OBVIOUS
<1>0. ClaimsInv /\ RowsListed BY DEF InboxIInv
<1>1. CASE UNCHANGED inboxVars BY <1>0, <1>1 DEF inboxVars, ClaimsInv, Fresh
<1>2. ASSUME NEW e \in Events, RecordWebhook(e) PROVE ClaimsInv'
  <2> DEFINE r == [inboxRow[e] EXCEPT !.status = "received"]
  <2>1. /\ inboxRow[e].status = "none" /\ inboxRow' = [inboxRow EXCEPT ![e] = r]
        /\ UNCHANGED <<inboxWorker, inboxLate>>
    BY <1>2 DEF RecordWebhook
  <2>2. r \in InboxRows BY <1>0 DEF ClaimsInv, InboxRows, InboxStatus
  <2> HIDE DEF r
  <2>3. \A v \in BillingWorkers : Fresh(v)' => Fresh(v) /\ inboxWorker[v].holds # e
    BY <1>0, <2>1 DEF Fresh, ClaimsInv
  <2> QED BY <1>0, <2>1, <2>2, <2>3, ClaimsRowWritten DEF ClaimsInv
<1>3. ASSUME NEW e \in Events, RetryWebhookEvent(e) PROVE ClaimsInv'
  <2> DEFINE r == [status |-> "received", attempts |-> 0, age |-> 0, wait |-> 0]
  <2>1. /\ inboxRow[e].status = "dead_letter" /\ inboxRow' = [inboxRow EXCEPT ![e] = r]
        /\ UNCHANGED <<inboxWorker, inboxLate>>
    BY <1>3 DEF RetryWebhookEvent
  <2>2. r \in InboxRows BY InboxConstants DEF InboxRows, InboxStatus, Ages
  <2> HIDE DEF r
  <2>3. \A v \in BillingWorkers : Fresh(v)' => Fresh(v) /\ inboxWorker[v].holds # e
    BY <1>0, <2>1 DEF Fresh, ClaimsInv
  <2> QED BY <1>0, <2>1, <2>2, <2>3, ClaimsRowWritten DEF ClaimsInv
<1>4. ASSUME NEW w \in BillingWorkers, BeginRun(w) PROVE ClaimsInv'
  <2>1. PICK n \in 0..Len(inboxOrder) : \E todo \in [1..n -> DueEvents] :
           inboxWorker' = [inboxWorker EXCEPT ![w].running = TRUE, ![w].todo = todo]
    BY <1>4 DEF BeginRun
  <2>2. PICK listed \in [1..n -> DueEvents] :
           inboxWorker' = [inboxWorker EXCEPT ![w].running = TRUE, ![w].todo = listed]
    BY <2>1
  <2>3. listed \in Seq(Events)
    <3>1. Len(inboxOrder) \in Nat BY <1>0 DEF RowsListed
    <3>2. n \in Nat BY <3>1
    <3>3. DueEvents \subseteq Events BY DEF DueEvents
    <3>4. listed \in [1..n -> Events] BY <3>3
    <3> QED BY <3>2, <3>4
  <2>4. UNCHANGED <<inboxRow, inboxLate>> BY <1>4 DEF BeginRun
  <2> DEFINE b == [inboxWorker[w] EXCEPT !.running = TRUE, !.todo = listed]
  <2>5. inboxWorker[w] \in InboxWork /\ inboxWorker[w] \in WorkFields /\ ~inboxWorker[w].running
    BY <1>0, <1>4 DEF ClaimsInv, InboxWork, BeginRun
  <2>6. inboxWorker[w].holds = NoEvent BY <2>5 DEF InboxWork
  <2>7. /\ inboxWorker' = [inboxWorker EXCEPT ![w] = b] /\ b \in WorkFields /\ b.running
        /\ b.holds = inboxWorker[w].holds /\ b.held = inboxWorker[w].held
    BY <2>2, <2>3, <2>5 DEF WorkFields
  <2>8. b \in InboxWork BY <2>6, <2>7 DEF InboxWork
  <2> HIDE DEF b
  <2> QED BY <1>0, <2>4, <2>7, <2>8, ClaimsWorkerRests
<1>5. ASSUME NEW w \in BillingWorkers, ClaimEvent(w) PROVE ClaimsInv'
  BY <1>0, <1>5, ClaimsTaken
<1>6. ASSUME NEW w \in BillingWorkers, Processed(w) \/ Failed(w) PROVE ClaimsInv'
  <2> DEFINE old == inboxRow[inboxWorker[w].holds]
  <2>1. inboxWorker[w].holds \in Events
    BY <1>0, <1>6 DEF Processed, Failed, Settle, ClaimsInv, InboxWork, WorkFields
  <2>2. old \in InboxRows BY <1>0, <2>1 DEF ClaimsInv
  <2> HIDE DEF old
  <2>3. 0 \in Ages /\ \A n \in 0..DeadAfter : n \in 0..DeadAfter BY InboxConstants DEF Ages
  <2>4. [old EXCEPT !.status = "processed", !.age = 0] \in InboxRows
    BY <2>2, <2>3 DEF InboxRows, InboxStatus
  <2>5. FailedRow(old) \in InboxRows
    BY <2>2, <2>3 DEF InboxRows, InboxStatus, FailedRow
  <2> QED BY <1>0, <1>6, <2>4, <2>5, ClaimsSettled DEF Processed, Failed, old
<1>7. ASSUME NEW w \in BillingWorkers, EndRun(w) \/ WorkerDies(w) PROVE ClaimsInv'
  <2>1. inboxWorker' = [inboxWorker EXCEPT ![w] = Resting] /\ UNCHANGED <<inboxRow, inboxLate>>
    BY <1>7 DEF EndRun, WorkerDies
  <2> QED BY <1>0, <2>1, RestingWorks, ClaimsWorkerRests
<1> QED BY <1>0, <1>1, <1>2, <1>3, <1>4, <1>5, <1>6, <1>7, ClaimsAge DEF InboxNext, WorkerStep

LEMMA InitRowsListed == InboxInit => RowsListed
<1> SUFFICES ASSUME InboxInit PROVE RowsListed
  OBVIOUS
<1>1. inboxOrder = <<>> /\ inboxOrder \in Seq(Events) /\ DOMAIN inboxOrder = {}
  BY DEF InboxInit
<1>2. inboxLock.left = 0 /\ WorkerTTL \in Nat BY InboxConstants DEF InboxInit
<1>3. \A e \in Events : inboxRow[e].status = "none" BY DEF InboxInit
<1>4. \A w \in BillingWorkers : inboxWorker[w].holds \notin Events
  BY InboxConstants DEF InboxInit, Resting
<1> QED BY <1>1, <1>2, <1>3, <1>4 DEF RowsListed

\* A row changes that has been recorded, and stays recorded.
LEMMA ListedRowWritten ==
  ASSUME InboxIInv, NEW e \in Events, NEW r, inboxRow' = [inboxRow EXCEPT ![e] = r],
         inboxRow[e].status # "none", r.status # "none",
         r.status = "processing" => r.attempts > 0,
         UNCHANGED inboxOrder, inboxLock'.left \in 0..WorkerTTL,
         \A w \in BillingWorkers : inboxWorker'[w].holds \in Events =>
             inboxWorker'[w].holds \in {inboxWorker[w].holds, e}
  PROVE  RowsListed'
<1>1. inboxRow'[e] = r /\ \A f \in Events \ {e} : inboxRow'[f] = inboxRow[f]
  BY DEF InboxIInv, ClaimsInv
<1>2. ASSUME NEW f \in Events
      PROVE  /\ inboxRow'[f].status = "none" <=> inboxRow[f].status = "none"
             /\ inboxRow'[f].status = "processing" => inboxRow'[f].attempts > 0
  <2>1. CASE f = e BY <1>1, <2>1
  <2>2. CASE f # e BY <1>1, <2>2 DEF InboxIInv, RowsListed
  <2> QED BY <2>1, <2>2
<1>3. ASSUME NEW w \in BillingWorkers, inboxWorker'[w].holds \in Events
      PROVE  inboxRow'[inboxWorker'[w].holds].status # "none"
  <2>1. CASE inboxWorker'[w].holds = e BY <1>1, <2>1
  <2>2. CASE inboxWorker'[w].holds # e
    <3>1. inboxWorker'[w].holds = inboxWorker[w].holds BY <1>3, <2>2
    <3> QED BY <1>2, <1>3, <3>1 DEF InboxIInv, RowsListed
  <2> QED BY <2>1, <2>2
<1> QED BY <1>2, <1>3 DEF InboxIInv, RowsListed

\* No row changes, and nobody takes hold of another.
LEMMA ListedRowsStay ==
  ASSUME InboxIInv, UNCHANGED <<inboxRow, inboxOrder>>, inboxLock'.left \in 0..WorkerTTL,
         \A w \in BillingWorkers : inboxWorker'[w].holds \in Events =>
             inboxWorker'[w].holds = inboxWorker[w].holds
  PROVE  RowsListed'
BY DEF InboxIInv, RowsListed

LEMMA StepRowsListed == InboxIInv /\ [InboxNext]_inboxVars => RowsListed'
<1> SUFFICES ASSUME InboxIInv, [InboxNext]_inboxVars PROVE RowsListed'
  OBVIOUS
<1>0. /\ inboxRow \in [Events -> InboxRows] /\ inboxWorker \in [BillingWorkers -> InboxWork]
      /\ inboxLock.left \in 0..WorkerTTL /\ WorkerTTL \in Nat /\ inboxOrder \in Seq(Events)
      /\ InboxWork \subseteq WorkFields
  BY InboxConstants DEF InboxIInv, ClaimsInv, RowsListed, InboxWork
<1>1. CASE UNCHANGED inboxVars BY <1>0, <1>1, ListedRowsStay DEF inboxVars
<1>2. ASSUME NEW e \in Events, RecordWebhook(e) PROVE RowsListed'
  <2> DEFINE r == [inboxRow[e] EXCEPT !.status = "received"]
  <2>1. /\ inboxRow[e].status = "none" /\ inboxRow' = [inboxRow EXCEPT ![e] = r]
        /\ inboxOrder' = Append(inboxOrder, e) /\ UNCHANGED <<inboxWorker, inboxLock>>
    BY <1>2 DEF RecordWebhook
  <2>2. r.status = "received" BY <1>0 DEF InboxRows
  <2> HIDE DEF r
  <2>3. inboxRow'[e] = r /\ \A f \in Events \ {e} : inboxRow'[f] = inboxRow[f] BY <1>0, <2>1
  <2>4. inboxOrder' \in Seq(Events) BY <1>0, <2>1
  <2>5. ASSUME NEW f \in Events
        PROVE  /\ inboxRow'[f].status = "none" <=> \A i \in DOMAIN inboxOrder' : inboxOrder'[i] # f
               /\ inboxRow'[f].status = "processing" => inboxRow'[f].attempts > 0
    <3>1. /\ DOMAIN inboxOrder = 1..Len(inboxOrder) /\ Len(inboxOrder) \in Nat
          /\ DOMAIN inboxOrder' = 1..Len(inboxOrder) + 1 /\ inboxOrder'[Len(inboxOrder) + 1] = e
          /\ \A i \in 1..Len(inboxOrder) : inboxOrder'[i] = inboxOrder[i]
      BY <1>0, <2>1
    <3>2. CASE f = e
      <4>1. Len(inboxOrder) + 1 \in DOMAIN inboxOrder' BY <3>1
      <4> QED BY <2>2, <2>3, <3>1, <3>2, <4>1
    <3>3. CASE f # e
      <4>1. \A i \in 1..Len(inboxOrder) + 1 : i \in 1..Len(inboxOrder) \/ i = Len(inboxOrder) + 1
        BY <3>1
      <4>2. \A i \in 1..Len(inboxOrder) : i \in 1..Len(inboxOrder) + 1 BY <3>1
      <4>3. (\A i \in DOMAIN inboxOrder' : inboxOrder'[i] # f)
              <=> (\A i \in DOMAIN inboxOrder : inboxOrder[i] # f)
        BY <3>1, <3>3, <4>1, <4>2
      <4> QED BY <2>3, <3>3, <4>3 DEF InboxIInv, RowsListed
    <3> QED BY <3>2, <3>3
  <2>6. ASSUME NEW w \in BillingWorkers, inboxWorker[w].holds \in Events
        PROVE  inboxRow'[inboxWorker[w].holds].status # "none"
    <3>1. inboxWorker[w].holds # e BY <2>1, <2>6 DEF InboxIInv, RowsListed
    <3> QED BY <2>3, <2>6, <3>1 DEF InboxIInv, RowsListed
  <2> QED BY <1>0, <2>1, <2>4, <2>5, <2>6 DEF RowsListed
<1>3. ASSUME NEW e \in Events, RetryWebhookEvent(e) PROVE RowsListed'
  <2> DEFINE r == [status |-> "received", attempts |-> 0, age |-> 0, wait |-> 0]
  <2>1. /\ inboxRow[e].status = "dead_letter" /\ inboxRow' = [inboxRow EXCEPT ![e] = r]
        /\ UNCHANGED <<inboxWorker, inboxOrder, inboxLock>>
    BY <1>3 DEF RetryWebhookEvent
  <2>2. r.status = "received" OBVIOUS
  <2> HIDE DEF r
  <2>3. inboxLock'.left \in 0..WorkerTTL BY <1>0, <2>1
  <2> QED BY <2>1, <2>2, <2>3, ListedRowWritten
<1>4. ASSUME NEW w \in BillingWorkers, BeginRun(w) PROVE RowsListed'
  <2>1. PICK todo : inboxWorker' = [inboxWorker EXCEPT ![w].running = TRUE, ![w].todo = todo]
    BY <1>4 DEF BeginRun
  <2>2. \A v \in BillingWorkers : inboxWorker'[v].holds = inboxWorker[v].holds
    BY <1>0, <2>1 DEF WorkFields
  <2>3. UNCHANGED <<inboxRow, inboxOrder>> /\ inboxLock'.left = WorkerTTL BY <1>4 DEF BeginRun
  <2> QED BY <1>0, <2>2, <2>3, ListedRowsStay
<1>5. ASSUME NEW w \in BillingWorkers, ClaimEvent(w) PROVE RowsListed'
  <2> DEFINE e == Head(inboxWorker[w].todo)
  <2>1. /\ inboxWorker[w] \in WorkFields /\ inboxWorker[w].todo \in Seq(Events)
        /\ inboxWorker[w].todo # <<>> /\ UNCHANGED <<inboxOrder, inboxLock>>
    BY <1>0, <1>5 DEF ClaimEvent, WorkFields
  <2>2. e \in Events BY <2>1
  <2>3. CASE ~Claimable(inboxRow[e])
    <3>1. /\ inboxWorker' = [inboxWorker EXCEPT ![w].todo = Tail(@)] /\ UNCHANGED inboxRow
      BY <1>5, <2>3 DEF ClaimEvent
    <3>2. \A v \in BillingWorkers : inboxWorker'[v].holds = inboxWorker[v].holds
      BY <1>0, <3>1 DEF WorkFields
    <3> QED BY <1>0, <2>1, <3>1, <3>2, ListedRowsStay
  <2>4. CASE Claimable(inboxRow[e])
    <3> DEFINE r == [inboxRow[e] EXCEPT !.status = "processing", !.age = 0,
                                        !.attempts = Lesser(@ + 1, DeadAfter)]
    <3>1. inboxRow' = [inboxRow EXCEPT ![e] = r] BY <1>5, <2>4 DEF ClaimEvent
    <3>2. inboxWorker' = [inboxWorker EXCEPT ![w].holds = e, ![w].held = 0]
      BY <1>5, <2>4 DEF ClaimEvent
    <3>3. inboxRow[e].status # "none" BY <2>4 DEF Claimable
    <3> HIDE DEF e
    <3>4. inboxRow[e] \in InboxRows BY <1>0, <2>2
    <3>5. Lesser(inboxRow[e].attempts + 1, DeadAfter) > 0
      BY <3>4, InboxConstants DEF InboxRows, Lesser
    <3>6. r.status = "processing" /\ r.attempts > 0 BY <3>4, <3>5 DEF InboxRows
    <3> HIDE DEF r
    <3>7. /\ inboxWorker'[w].holds = e
          /\ \A v \in BillingWorkers \ {w} : inboxWorker'[v] = inboxWorker[v]
      BY <1>0, <2>1, <3>2 DEF WorkFields
    <3>8. \A v \in BillingWorkers : inboxWorker'[v].holds \in {inboxWorker[v].holds, e} BY <3>7
    <3> QED BY <1>0, <2>1, <2>2, <3>1, <3>3, <3>6, <3>8, ListedRowWritten
  <2> QED BY <2>3, <2>4
<1>6. ASSUME NEW w \in BillingWorkers, NEW r \in InboxRows, Settle(w, r),
             r.status \notin {"none", "processing"}
      PROVE  RowsListed'
  <2>1. /\ inboxWorker[w].holds \in Events
        /\ inboxRow' = [inboxRow EXCEPT ![inboxWorker[w].holds] = r]
        /\ UNCHANGED <<inboxOrder, inboxLock>>
        /\ inboxWorker' = [inboxWorker EXCEPT ![w].holds = NoEvent, ![w].held = 0, ![w].todo = Tail(@)]
    BY <1>0, <1>6 DEF Settle, WorkFields
  <2>2. inboxRow[inboxWorker[w].holds].status # "none" BY <2>1 DEF InboxIInv, RowsListed
  <2>3. \A v \in BillingWorkers : inboxWorker'[v].holds \in {inboxWorker[v].holds, NoEvent}
    BY <1>0, <2>1 DEF WorkFields
  <2>4. NoEvent \notin Events BY InboxConstants
  <2> QED BY <1>0, <1>6, <2>1, <2>2, <2>3, <2>4, ListedRowWritten
<1>7. ASSUME NEW w \in BillingWorkers, Processed(w) \/ Failed(w) PROVE RowsListed'
  <2> DEFINE old == inboxRow[inboxWorker[w].holds]
  <2>1. inboxWorker[w].holds \in Events
    BY <1>0, <1>7 DEF Processed, Failed, Settle, WorkFields
  <2>2. old \in InboxRows /\ 0 \in Ages BY <1>0, <2>1, InboxConstants DEF Ages
  <2> HIDE DEF old
  <2>3. /\ [old EXCEPT !.status = "processed", !.age = 0] \in InboxRows
        /\ [old EXCEPT !.status = "processed", !.age = 0].status = "processed"
    BY <2>2 DEF InboxRows, InboxStatus
  <2>4. FailedRow(old) \in InboxRows /\ FailedRow(old).status \in {"dead_letter", "failed"}
    BY <2>2 DEF InboxRows, InboxStatus, FailedRow
  <2> QED BY <1>6, <1>7, <2>3, <2>4 DEF Processed, Failed, old
<1>8. ASSUME NEW w \in BillingWorkers, EndRun(w) \/ WorkerDies(w) PROVE RowsListed'
  <2>1. inboxWorker' = [inboxWorker EXCEPT ![w] = Resting] /\ UNCHANGED <<inboxRow, inboxOrder>>
    BY <1>8 DEF EndRun, WorkerDies
  <2>2. inboxLock' \in {inboxLock, [owner |-> NoEvent, left |-> 0]} BY <1>8 DEF EndRun, WorkerDies
  <2>3. inboxLock'.left \in 0..WorkerTTL BY <1>0, <2>2
  <2>4. \A v \in BillingWorkers : inboxWorker'[v].holds \in {inboxWorker[v].holds, NoEvent}
    BY <1>0, <2>1, RestingWorks
  <2> QED BY <2>1, <2>3, <2>4, InboxConstants, ListedRowsStay
<1>9. CASE MinutePasses
  <2>1. /\ UNCHANGED inboxOrder
        /\ inboxLock' = IF inboxLock.left > 1 THEN [inboxLock EXCEPT !.left = @ - 1]
                        ELSE [owner |-> NoEvent, left |-> 0]
        /\ \A e \in Events : inboxRow'[e] = [inboxRow[e] EXCEPT
               !.wait = IF @ > 0 THEN @ - 1 ELSE 0,
               !.age = IF inboxRow[e].status = "processing" THEN Lesser(@ + 1, Reclaim + 1) ELSE 0]
        /\ \A w \in BillingWorkers : inboxWorker'[w] = [inboxWorker[w] EXCEPT
               !.held = IF inboxWorker[w].holds = NoEvent THEN 0 ELSE Lesser(@ + 1, Reclaim + 1)]
    BY <1>9 DEF MinutePasses
  <2>2. \A e \in Events : /\ inboxRow'[e].status = inboxRow[e].status
                          /\ inboxRow'[e].attempts = inboxRow[e].attempts
    BY <1>0, <2>1 DEF InboxRows
  <2>3. ASSUME NEW w \in BillingWorkers
        PROVE  inboxWorker'[w].holds = inboxWorker[w].holds
    <3>1. inboxWorker[w] \in WorkFields BY <1>0
    <3>2. PICK n : inboxWorker'[w] = [inboxWorker[w] EXCEPT !.held = n] BY <2>1
    <3> QED BY <3>1, <3>2 DEF WorkFields
  <2>4. inboxLock'.left \in 0..WorkerTTL
    <3>1. CASE inboxLock.left > 1
      <4>1. inboxLock' = [inboxLock EXCEPT !.left = @ - 1] BY <2>1, <3>1
      <4>2. inboxLock'.left = inboxLock.left - 1 BY <4>1
      <4> QED BY <1>0, <3>1, <4>2
    <3>2. CASE ~(inboxLock.left > 1)
      <4>1. inboxLock' = [owner |-> NoEvent, left |-> 0] BY <2>1, <3>2
      <4>2. inboxLock'.left = 0 BY <4>1
      <4> QED BY <1>0, <4>2
    <3> QED BY <3>1, <3>2
  <2> QED BY <2>1, <2>2, <2>3, <2>4 DEF InboxIInv, RowsListed
<1> QED BY <1>1, <1>2, <1>3, <1>4, <1>5, <1>7, <1>8, <1>9 DEF InboxNext, WorkerStep

LEMMA InitInbox == InboxInit => InboxIInv
BY InitClaims, InitRowsListed DEF InboxIInv

LEMMA StepInbox == InboxIInv /\ [InboxNext]_inboxVars => InboxIInv'
BY StepClaims, StepRowsListed DEF InboxIInv

LEMMA InboxIsKept == InboxIInv => InboxTypeOK /\ InboxClaimsApart
<1> SUFFICES ASSUME InboxIInv PROVE InboxTypeOK /\ InboxClaimsApart
  OBVIOUS
<1>1. ClaimsInv /\ RowsListed BY DEF InboxIInv
<1>2. InboxTypeOK
  <2>1. inboxWorker \in [BillingWorkers -> WorkFields]
    BY <1>1 DEF ClaimsInv, InboxWork
  <2> QED BY <1>1, <2>1 DEF ClaimsInv, RowsListed, InboxTypeOK, InboxRows, WorkFields, Ages
<1>3. InboxClaimsApart
  <2> SUFFICES ASSUME NEW w \in BillingWorkers, NEW v \in BillingWorkers, w # v,
                      inboxWorker[w].holds = inboxWorker[v].holds, inboxWorker[w].holds # NoEvent,
                      inboxWorker[w].holds \notin inboxLate
               PROVE  inboxWorker[w].held > Reclaim \/ inboxWorker[v].held > Reclaim
    BY DEF InboxClaimsApart
  <2>1. /\ inboxWorker[w].holds \in Events /\ inboxWorker[w].held \in Ages
        /\ inboxWorker[v].held \in Ages
    BY <1>1 DEF ClaimsInv, InboxWork, WorkFields
  <2>2. ~Fresh(w) \/ ~Fresh(v) BY <1>1 DEF ClaimsInv
  <2> QED BY <2>1, <2>2, InboxConstants DEF Fresh, Ages
<1> QED BY <1>2, <1>3

\* Two workers have a Stripe event at once only when the claim of one of them has lapsed, and
\* nobody settled it late: the conditional UPDATE is enough, whatever lock lapses meanwhile.
THEOREM ClaimsApart == InboxSpec => [](InboxTypeOK /\ InboxClaimsApart)
BY InitInbox, StepInbox, InboxIsKept, PTL DEF InboxSpec

-----------------------------------------------------------------------------
(* InviteMail: the row of the invitation, and nobody mails a link that     *)
(* does not exist yet.                                                     *)
MailRows == [state : {"none", "open", "expired", "closed"}, status : {"queued", "sent", "failed"},
             tries : 0..MaxMailTries, holds : BOOLEAN, due : {"now", "later", "never"}]
GoodMailRows == {r \in MailRows : r.holds => r.status = "queued" /\ r.state \in {"open", "expired"}}

MailInv ==
    /\ inviteRow \in GoodMailRows
    /\ inviteLink \in 0..MaxLinks /\ (inviteRow.state = "none" => inviteLink = 0)
    /\ mailing \in [Mailers -> 0..inviteLink]

LEMMA MailInvTyped == MailInv => MailTypeOK
<1> SUFFICES ASSUME MailInv PROVE MailTypeOK
  OBVIOUS
<1>1. inviteRow \in MailRows /\ (inviteRow.holds => inviteRow.status = "queued" /\ inviteRow.state \in {"open", "expired"})
  BY DEF MailInv, GoodMailRows
<1> QED BY <1>1 DEF MailInv, MailRows, MailTypeOK

LEMMA FreshMail == FreshRow \in GoodMailRows /\ FreshRow.state = "open"
<1>1. 0 \in 0..MaxMailTries BY MailConstants
<1>2. FreshRow \in MailRows /\ FreshRow.state = "open" /\ FreshRow.status = "queued"
  BY <1>1 DEF FreshRow, MailRows
<1> QED BY <1>2 DEF GoodMailRows

LEMMA InitMail == MailInit => MailInv
<1> SUFFICES ASSUME MailInit PROVE MailInv
  OBVIOUS
<1>1. 0 \in 0..MaxMailTries /\ 0 \in 0..MaxLinks BY MailConstants
<1>2. inviteRow \in MailRows /\ inviteRow.state = "none" /\ ~inviteRow.holds
  BY <1>1 DEF MailInit, MailRows
<1>3. inviteRow \in GoodMailRows BY <1>2 DEF GoodMailRows
<1> QED BY <1>1, <1>2, <1>3 DEF MailInit, MailInv

\* The row changes and no link: whoever mails still mails a link there is.
LEMMA MailRowWritten ==
  ASSUME MailInv, inviteRow' \in GoodMailRows, UNCHANGED inviteLink,
         inviteRow'.state = "none" => inviteRow.state = "none",
         NEW m \in Mailers, NEW n \in 0..inviteLink,
         mailing' \in {mailing, [mailing EXCEPT ![m] = n]}
  PROVE  MailInv'
<1>1. mailing' \in [Mailers -> 0..inviteLink] BY DEF MailInv
<1> QED BY <1>1 DEF MailInv

\* A new link: the row starts afresh.
LEMMA NewLink ==
  ASSUME MailInv, NEW m \in Mailers, inviteLink < MaxLinks, inviteLink' = inviteLink + 1,
         inviteRow' \in GoodMailRows, inviteRow'.state = "open",
         mailing' \in {mailing, [mailing EXCEPT ![m] = inviteLink + 1]}
  PROVE  MailInv'
<1>1. inviteLink \in Nat /\ MaxLinks \in Nat BY MailConstants DEF MailInv
<1>2. inviteLink' \in 0..MaxLinks /\ 0..inviteLink \subseteq 0..inviteLink' /\ inviteLink' \in 0..inviteLink'
  BY <1>1
<1>3. mailing' \in [Mailers -> 0..inviteLink'] BY <1>2 DEF MailInv
<1> QED BY <1>2, <1>3 DEF MailInv

LEMMA StepMail == MailInv /\ [MailNext]_mailVars => MailInv'
<1> SUFFICES ASSUME MailInv, [MailNext]_mailVars PROVE MailInv'
  OBVIOUS
<1>0. /\ inviteRow \in GoodMailRows /\ inviteRow \in MailRows /\ inviteLink \in Nat
      /\ mailing \in [Mailers -> 0..inviteLink] /\ 0 \in 0..inviteLink
      /\ inviteLink \in 0..inviteLink /\ MaxLinks \in Nat \ {0}
      /\ (inviteRow.holds => inviteRow.status = "queued" /\ inviteRow.state \in {"open", "expired"})
  BY MailConstants DEF MailInv, GoodMailRows
<1>1. Counted(inviteRow.tries) \in 0..MaxMailTries
  BY <1>0, MailConstants DEF MailRows, Counted
<1>2. CASE UNCHANGED mailVars BY <1>2 DEF MailInv, mailVars
<1>3. ASSUME NEW m \in Mailers, CreateMailed(m) PROVE MailInv'
  <2>1. inviteLink = 0 BY <1>3 DEF CreateMailed, MailInv
  <2>2. /\ inviteLink < MaxLinks /\ inviteLink' = inviteLink + 1 /\ inviteRow' = FreshRow
        /\ mailing' = [mailing EXCEPT ![m] = inviteLink + 1]
    BY <1>0, <1>3, <2>1 DEF CreateMailed
  <2> QED BY <2>2, FreshMail, NewLink
<1>4. ASSUME NEW m \in Mailers, ResendMailed(m) PROVE MailInv'
  BY <1>0, <1>4, FreshMail, NewLink DEF ResendMailed
<1>5. CASE CreateLinked
  <2>1. /\ inviteLink = 0 /\ inviteLink' = 1 /\ mailing' = mailing
        /\ inviteRow' = [FreshRow EXCEPT !.holds = FALSE]
    BY <1>5 DEF CreateLinked, MailInv
  <2>2. inviteRow' \in MailRows /\ inviteRow'.state = "open" /\ ~inviteRow'.holds
    BY <2>1, FreshMail DEF GoodMailRows, MailRows
  <2>3. inviteRow' \in GoodMailRows BY <2>2 DEF GoodMailRows
  <2>4. inviteLink' \in 0..MaxLinks /\ 0..inviteLink \subseteq 0..inviteLink' BY <1>0, <2>1
  <2> QED BY <1>0, <2>1, <2>2, <2>3, <2>4 DEF MailInv
<1>6. CASE CloseInvitation \/ InvitationExpires \/ DueAgain
  <2>1. UNCHANGED <<inviteLink, mailing>> BY <1>6 DEF CloseInvitation, InvitationExpires, DueAgain
  <2>2. inviteRow' \in GoodMailRows /\ (inviteRow'.state = "none" => inviteRow.state = "none")
    <3>1. CASE CloseInvitation
      <4>1. inviteRow' = [inviteRow EXCEPT !.state = "closed", !.holds = FALSE, !.due = "never"]
        BY <3>1 DEF CloseInvitation
      <4>2. inviteRow' \in MailRows /\ inviteRow'.state = "closed" /\ ~inviteRow'.holds
        BY <1>0, <4>1 DEF MailRows
      <4> QED BY <4>2 DEF GoodMailRows
    <3>2. CASE InvitationExpires
      <4>1. inviteRow' = [inviteRow EXCEPT !.state = "expired"] BY <3>2 DEF InvitationExpires
      <4>2. /\ inviteRow' \in MailRows /\ inviteRow'.state = "expired"
            /\ inviteRow'.holds = inviteRow.holds /\ inviteRow'.status = inviteRow.status
        BY <1>0, <4>1 DEF MailRows
      <4> QED BY <1>0, <4>2 DEF GoodMailRows
    <3>3. CASE DueAgain
      <4>1. inviteRow' = [inviteRow EXCEPT !.due = "now"] BY <3>3 DEF DueAgain
      <4>2. /\ inviteRow' \in MailRows /\ inviteRow'.state = inviteRow.state
            /\ inviteRow'.holds = inviteRow.holds /\ inviteRow'.status = inviteRow.status
        BY <1>0, <4>1 DEF MailRows
      <4> QED BY <1>0, <4>2 DEF GoodMailRows
    <3> QED BY <1>6, <3>1, <3>2, <3>3
  <2> QED BY <2>1, <2>2 DEF MailInv
<1>7. ASSUME NEW m \in Mailers, TakeDueMail(m) PROVE MailInv'
  <2>1. /\ inviteRow' = [inviteRow EXCEPT !.due = "later"] /\ UNCHANGED inviteLink
        /\ mailing' = [mailing EXCEPT ![m] = inviteLink]
    BY <1>7 DEF TakeDueMail, ClaimedUntil
  <2>2. /\ inviteRow' \in MailRows /\ inviteRow'.state = inviteRow.state
        /\ inviteRow'.holds = inviteRow.holds /\ inviteRow'.status = inviteRow.status
    BY <1>0, <2>1 DEF MailRows
  <2>3. inviteRow' \in GoodMailRows BY <1>0, <2>2 DEF GoodMailRows
  <2> QED BY <1>0, <2>1, <2>2, <2>3, MailRowWritten
<1>8. ASSUME NEW m \in Mailers, MailArrives(m) PROVE MailInv'
  <2>1. /\ inviteRow' = [inviteRow EXCEPT !.status = "sent", !.tries = Counted(@), !.holds = FALSE,
                                          !.due = "never"]
        /\ UNCHANGED inviteLink /\ mailing' = [mailing EXCEPT ![m] = 0]
    BY <1>8 DEF MailArrives
  <2>2. inviteRow' \in MailRows /\ inviteRow'.state = inviteRow.state /\ ~inviteRow'.holds
    BY <1>0, <1>1, <2>1 DEF MailRows
  <2>3. inviteRow' \in GoodMailRows BY <2>2 DEF GoodMailRows
  <2> QED BY <1>0, <2>1, <2>2, <2>3, MailRowWritten
<1>9. ASSUME NEW m \in Mailers, MailFails(m) PROVE MailInv'
  <2>1. UNCHANGED inviteLink /\ mailing' = [mailing EXCEPT ![m] = 0] BY <1>9 DEF MailFails
  <2>2. /\ inviteRow' \in MailRows /\ inviteRow'.state = inviteRow.state
        /\ inviteRow'.holds => inviteRow.holds /\ inviteRow'.status = "queued"
    <3>1. CASE inviteRow.tries + 1 >= MaxMailTries
      <4>1. inviteRow' = [inviteRow EXCEPT !.tries = Counted(@), !.status = "failed", !.due = "never",
                                           !.holds = @ /\ ~TRUE]
        BY <1>9, <3>1 DEF MailFails
      <4>2. (inviteRow.holds /\ ~TRUE) = FALSE OBVIOUS
      <4> QED BY <1>0, <1>1, <4>1, <4>2 DEF MailRows
    <3>2. CASE ~(inviteRow.tries + 1 >= MaxMailTries)
      <4>1. inviteRow' = [inviteRow EXCEPT !.tries = Counted(@), !.status = "queued", !.due = "later",
                                           !.holds = @ /\ ~FALSE]
        BY <1>9, <3>2 DEF MailFails
      <4>2. inviteRow.holds \in BOOLEAN BY <1>0 DEF MailRows
      <4>3. (inviteRow.holds /\ ~FALSE) = inviteRow.holds BY <4>2
      <4> QED BY <1>0, <1>1, <4>1, <4>2, <4>3 DEF MailRows
    <3> QED BY <3>1, <3>2
  <2>3. inviteRow' \in GoodMailRows BY <1>0, <2>2 DEF GoodMailRows
  <2> QED BY <1>0, <2>1, <2>2, <2>3, MailRowWritten
<1>10. ASSUME NEW m \in Mailers, MailerDies(m) PROVE MailInv'
  BY <1>0, <1>10, MailRowWritten DEF MailerDies
<1> QED BY <1>2, <1>3, <1>4, <1>5, <1>6, <1>7, <1>8, <1>9, <1>10 DEF MailNext, MailerStep

-----------------------------------------------------------------------------
(* WebhookPipeline: a row that is pending has a post left, however many    *)
(* runs of the timer have read it, and a message that is ready a delivery. *)
HookTasks == [row : HookEvents \X Endpoints, attempt : 1..MaxHookPosts]
DeliveryRows == [status : {"none", "pending", "delivered", "dead_letter"}, attempts : 0..MaxHookPosts]
GoodDeliveries ==
    {r \in DeliveryRows : /\ r.status = "none" => r.attempts = 0
                          /\ r.status = "pending" => r.attempts < MaxHookPosts}
Messages == [at : {"none", "ready", "out", "gone"}, deliveries : 0..MaxHookDeliver]
GoodMessages == {m \in Messages : m.at \in {"none", "ready"} => m.deliveries < MaxHookDeliver}

HookInv ==
    /\ hookMessage \in [HookEvents -> GoodMessages]
    /\ delivery \in [HookEvents \X Endpoints -> GoodDeliveries]
    /\ hookRun \in [HookRuns -> [rows : SUBSET HookTasks, posting : SUBSET HookTasks]]

LEMMA HookInvTyped == HookInv => HookTypeOK
<1> SUFFICES ASSUME HookInv PROVE HookTypeOK
  OBVIOUS
<1>1. ASSUME NEW e \in HookEvents PROVE hookMessage[e].deliveries \in 0..MaxHookDeliver
  BY DEF HookInv, GoodMessages, Messages
<1>2. DOMAIN delivery = HookEvents \X Endpoints BY DEF HookInv
<1>3. ASSUME NEW d \in HookEvents \X Endpoints
      PROVE  /\ delivery[d].status \in {"none", "pending", "delivered", "dead_letter"}
             /\ delivery[d].attempts \in 0..MaxHookPosts
             /\ delivery[d].status = "none" => delivery[d].attempts = 0
  BY DEF HookInv, GoodDeliveries, DeliveryRows
<1> QED BY <1>1, <1>2, <1>3 DEF HookTypeOK

LEMMA InitHook == HookInit => HookInv
<1> SUFFICES ASSUME HookInit PROVE HookInv
  OBVIOUS
<1>1. /\ MaxHookDeliver \in Nat /\ MaxHookPosts \in Nat /\ 0 < MaxHookDeliver /\ 0 < MaxHookPosts
  BY HookConstants
<1>2. [at |-> "none", deliveries |-> 0] \in GoodMessages BY <1>1 DEF GoodMessages, Messages
<1>3. [status |-> "none", attempts |-> 0] \in GoodDeliveries BY <1>1 DEF GoodDeliveries, DeliveryRows
<1>4. NoRun \in [rows : SUBSET HookTasks, posting : SUBSET HookTasks] BY DEF NoRun
<1> QED BY <1>2, <1>3, <1>4 DEF HookInit, HookInv

\* A message is given out, given back or done with.
LEMMA MessageMoves ==
  ASSUME HookInv, NEW e \in HookEvents, NEW m \in GoodMessages,
         hookMessage' \in {hookMessage, [hookMessage EXCEPT ![e] = m]},
         UNCHANGED <<delivery, hookRun>>
  PROVE  HookInv'
BY DEF HookInv

LEMMA MessageKinds ==
  ASSUME HookInv, NEW e \in HookEvents
  PROVE  /\ [hookMessage[e] EXCEPT !.at = "gone"] \in GoodMessages
         /\ hookMessage[e].at = "none" => [hookMessage[e] EXCEPT !.at = "ready"] \in GoodMessages
         /\ [hookMessage[e] EXCEPT !.at =
               IF hookMessage[e].deliveries < MaxHookDeliver THEN "ready" ELSE "gone"] \in GoodMessages
         /\ hookMessage[e].at = "ready" =>
               [at |-> "out", deliveries |-> hookMessage[e].deliveries + 1] \in GoodMessages
<1> DEFINE n == hookMessage[e].deliveries
<1>1. /\ hookMessage[e] \in GoodMessages /\ hookMessage[e] \in Messages /\ n \in 0..MaxHookDeliver
      /\ hookMessage[e].at \in {"none", "ready"} => n < MaxHookDeliver
  BY DEF HookInv, GoodMessages, Messages
<1>2. MaxHookDeliver \in Nat BY HookConstants
<1>3. ASSUME NEW a \in {"none", "ready", "out", "gone"}, a \in {"none", "ready"} => n < MaxHookDeliver
      PROVE  [hookMessage[e] EXCEPT !.at = a] \in GoodMessages
  <2>1. /\ [hookMessage[e] EXCEPT !.at = a] \in Messages
        /\ [hookMessage[e] EXCEPT !.at = a].at = a
        /\ [hookMessage[e] EXCEPT !.at = a].deliveries = n
    BY <1>1 DEF Messages
  <2> HIDE DEF n
  <2> QED BY <1>3, <2>1 DEF GoodMessages
<1>4. hookMessage[e].at = "ready" => n + 1 \in 0..MaxHookDeliver BY <1>1, <1>2
<1>5. hookMessage[e].at = "ready" => [at |-> "out", deliveries |-> n + 1] \in GoodMessages
  BY <1>4 DEF GoodMessages, Messages
<1>6. [hookMessage[e] EXCEPT !.at = IF n < MaxHookDeliver THEN "ready" ELSE "gone"] \in GoodMessages
  <2>1. CASE n < MaxHookDeliver BY <1>3, <2>1
  <2>2. CASE ~(n < MaxHookDeliver) BY <1>3, <2>2
  <2> QED BY <2>1, <2>2
<1> QED BY <1>1, <1>3, <1>5, <1>6

\* A run of the timer takes up or puts down rows it has read.
LEMMA RunMoves ==
  ASSUME HookInv, NEW r \in HookRuns, NEW b \in [rows : SUBSET HookTasks, posting : SUBSET HookTasks],
         hookRun' = [hookRun EXCEPT ![r] = b],
         NEW d \in HookEvents \X Endpoints, NEW row \in GoodDeliveries,
         delivery' \in {delivery, [delivery EXCEPT ![d] = row]}, UNCHANGED hookMessage
  PROVE  HookInv'
BY DEF HookInv

LEMMA StepHook == HookInv /\ [HookNext]_hookVars => HookInv'
<1> SUFFICES ASSUME HookInv, [HookNext]_hookVars PROVE HookInv'
  OBVIOUS
<1>0. /\ hookMessage \in [HookEvents -> GoodMessages]
      /\ delivery \in [HookEvents \X Endpoints -> GoodDeliveries]
      /\ hookRun \in [HookRuns -> [rows : SUBSET HookTasks, posting : SUBSET HookTasks]]
      /\ MaxHookPosts \in Nat /\ 0 < MaxHookPosts
  BY HookConstants DEF HookInv
<1>1. CASE UNCHANGED <<hookMessage, delivery, hookRun>> BY <1>1 DEF HookInv
<1>2. ASSUME NEW e \in HookEvents, PublishAnalytics(e) PROVE HookInv'
  <2>1. /\ hookMessage' = IF hookMessage[e].at = "none" THEN [hookMessage EXCEPT ![e].at = "ready"]
                          ELSE hookMessage
        /\ UNCHANGED <<delivery, hookRun>>
    BY <1>2 DEF PublishAnalytics
  <2>2. CASE hookMessage[e].at = "none"
    <3> DEFINE m == [hookMessage[e] EXCEPT !.at = "ready"]
    <3>1. hookMessage' = [hookMessage EXCEPT ![e] = m] BY <2>1, <2>2
    <3>2. m \in GoodMessages BY <2>2, MessageKinds
    <3> HIDE DEF m
    <3> QED BY <2>1, <3>1, <3>2, MessageMoves
  <2>3. CASE hookMessage[e].at # "none" BY <1>1, <2>1, <2>3
  <2> QED BY <2>2, <2>3
<1>3. ASSUME NEW e \in HookEvents, hookMessage' = Again(e), UNCHANGED <<delivery, hookRun>>
      PROVE  HookInv'
  <2> DEFINE m == [hookMessage[e] EXCEPT !.at =
                     IF hookMessage[e].deliveries < MaxHookDeliver THEN "ready" ELSE "gone"]
  <2>1. hookMessage' = [hookMessage EXCEPT ![e] = m] BY <1>3 DEF Again, Sent
  <2>2. m \in GoodMessages BY MessageKinds
  <2> HIDE DEF m
  <2> QED BY <1>3, <2>1, <2>2, MessageMoves
<1>4. ASSUME NEW c \in HookConsumers, NEW e \in HookEvents, TakeMessage(c, e) PROVE HookInv'
  <2> DEFINE m == [at |-> "out", deliveries |-> hookMessage[e].deliveries + 1]
  <2>1. /\ hookMessage[e].at = "ready" /\ hookMessage' = [hookMessage EXCEPT ![e] = m]
        /\ UNCHANGED <<delivery, hookRun>>
    BY <1>4 DEF TakeMessage
  <2>2. m \in GoodMessages BY <2>1, MessageKinds
  <2> HIDE DEF m
  <2> QED BY <2>1, <2>2, MessageMoves
<1>5. ASSUME NEW c \in HookConsumers, NEW e \in HookEvents, Acknowledge(c, e) PROVE HookInv'
  <2> DEFINE m == [hookMessage[e] EXCEPT !.at = "gone"]
  <2>1. hookMessage' = [hookMessage EXCEPT ![e] = m] /\ UNCHANGED <<delivery, hookRun>>
    BY <1>5 DEF Acknowledge, Sent
  <2>2. m \in GoodMessages BY MessageKinds
  <2> HIDE DEF m
  <2> QED BY <2>1, <2>2, MessageMoves
<1>6. ASSUME NEW c \in HookConsumers, NEW e \in HookEvents, NEW h \in Endpoints, Enqueue(c, e, h)
      PROVE  HookInv'
  <2> DEFINE d == <<e, h>>
             row == [delivery[d] EXCEPT !.status = "pending"]
  <2>1. /\ delivery' = IF delivery[d].status = "none" THEN [delivery EXCEPT ![d].status = "pending"]
                       ELSE delivery
        /\ UNCHANGED <<hookMessage, hookRun>>
    BY <1>6 DEF Enqueue
  <2>2. d \in HookEvents \X Endpoints OBVIOUS
  <2> HIDE DEF d
  <2>3. CASE delivery[d].status = "none"
    <3>1. delivery[d] \in DeliveryRows /\ delivery[d].attempts = 0
      BY <1>0, <2>2, <2>3 DEF GoodDeliveries
    <3>2. row \in DeliveryRows /\ row.status = "pending" /\ row.attempts = 0
      BY <3>1 DEF DeliveryRows
    <3>3. row \in GoodDeliveries BY <1>0, <3>2 DEF GoodDeliveries
    <3>4. delivery' = [delivery EXCEPT ![d] = row] BY <2>1, <2>3
    <3> HIDE DEF row
    <3> QED BY <1>0, <2>1, <2>2, <3>3, <3>4 DEF HookInv
  <2>4. CASE delivery[d].status # "none" BY <1>1, <2>1, <2>4
  <2> QED BY <2>3, <2>4
<1>7. ASSUME NEW r \in HookRuns, ReadRows(r) PROVE HookInv'
  <2> DEFINE tasks == {[row |-> d, attempt |-> delivery[d].attempts + 1] : d \in ReadyRows}
             b == [hookRun[r] EXCEPT !.rows = tasks]
  <2>1. hookRun' = [hookRun EXCEPT ![r] = b] /\ UNCHANGED <<hookMessage, delivery>>
    BY <1>7 DEF ReadRows
  <2>2. ASSUME NEW d \in ReadyRows
        PROVE  [row |-> d, attempt |-> delivery[d].attempts + 1] \in HookTasks
    <3>1. d \in HookEvents \X Endpoints /\ delivery[d].status = "pending"
      BY <1>0, <2>2 DEF ReadyRows
    <3>2. delivery[d].attempts \in 0..MaxHookPosts /\ delivery[d].attempts < MaxHookPosts
      BY <1>0, <3>1 DEF GoodDeliveries, DeliveryRows
    <3>3. delivery[d].attempts + 1 \in 1..MaxHookPosts BY <1>0, <3>2
    <3> QED BY <3>1, <3>3 DEF HookTasks
  <2>3. tasks \in SUBSET HookTasks BY <2>2
  <2> HIDE DEF tasks
  <2>4. b \in [rows : SUBSET HookTasks, posting : SUBSET HookTasks] BY <1>0, <2>3
  <2> HIDE DEF b
  <2> QED BY <1>0, <2>1, <2>4 DEF HookInv
<1>8. ASSUME NEW r \in HookRuns, NEW t \in hookRun[r].rows, BeginPost(r, t) PROVE HookInv'
  <2> DEFINE b == [rows |-> hookRun[r].rows \ {t}, posting |-> {t}]
  <2>1. hookRun' = [hookRun EXCEPT ![r] = b] /\ UNCHANGED <<hookMessage, delivery>>
    BY <1>8 DEF BeginPost
  <2>2. hookRun[r].rows \in SUBSET HookTasks BY <1>0
  <2>3. b \in [rows : SUBSET HookTasks, posting : SUBSET HookTasks] BY <2>2
  <2> HIDE DEF b
  <2> QED BY <1>0, <2>1, <2>3 DEF HookInv
<1>9. ASSUME NEW r \in HookRuns, NEW t \in hookRun[r].posting, NEW row \in GoodDeliveries,
             EndPost(r, t, row), UNCHANGED hookMessage
      PROVE  HookInv'
  <2> DEFINE b == [hookRun[r] EXCEPT !.posting = {}]
  <2>1. /\ hookRun' = [hookRun EXCEPT ![r] = b]
        /\ delivery' \in {delivery, [delivery EXCEPT ![t.row] = row]}
    BY <1>9 DEF EndPost
  <2>2. b \in [rows : SUBSET HookTasks, posting : SUBSET HookTasks] BY <1>0
  <2>3. t \in HookTasks BY <1>0
  <2>4. t.row \in HookEvents \X Endpoints BY <2>3 DEF HookTasks
  <2> HIDE DEF b
  <2> QED BY <1>9, <2>1, <2>2, <2>4, RunMoves
<1>10. ASSUME NEW r \in HookRuns, NEW t \in hookRun[r].posting, PostArrives(r, t) \/ PostIsRefused(r, t)
       PROVE  HookInv'
  <2> DEFINE n == t.attempt
  <2>1. n \in 1..MaxHookPosts BY <1>0 DEF HookTasks
  <2>2. [status |-> "delivered", attempts |-> n] \in GoodDeliveries
    BY <1>0, <2>1 DEF GoodDeliveries, DeliveryRows
  <2>3. [status |-> IF n >= MaxHookPosts THEN "dead_letter" ELSE "pending", attempts |-> n] \in GoodDeliveries
    BY <1>0, <2>1 DEF GoodDeliveries, DeliveryRows
  <2> QED BY <1>9, <1>10, <2>2, <2>3 DEF PostArrives, PostIsRefused
<1>11. ASSUME NEW r \in HookRuns, RunDies(r) PROVE HookInv'
  <2>1. NoRun \in [rows : SUBSET HookTasks, posting : SUBSET HookTasks] BY DEF NoRun
  <2>2. hookRun' = [hookRun EXCEPT ![r] = NoRun] /\ UNCHANGED <<hookMessage, delivery>>
    BY <1>11 DEF RunDies
  <2> QED BY <1>0, <2>1, <2>2 DEF HookInv
<1>12. \/ UNCHANGED <<hookMessage, delivery, hookRun>>
       \/ \E e \in HookEvents : \/ PublishAnalytics(e)
                                \/ hookMessage' = Again(e) /\ UNCHANGED <<delivery, hookRun>>
       \/ \E c \in HookConsumers, e \in HookEvents :
             TakeMessage(c, e) \/ Acknowledge(c, e) \/ \E h \in Endpoints : Enqueue(c, e, h)
       \/ \E r \in HookRuns : \/ ReadRows(r) \/ RunDies(r)
                              \/ \E t \in hookRun[r].rows : BeginPost(r, t)
                              \/ \E t \in hookRun[r].posting : PostArrives(r, t) \/ PostIsRefused(r, t)
  BY DEF HookNext, hookVars, CreateEndpoint, RevokeEndpoint, RecordAnalytics, PublisherStep,
         PublishAnalyticsFails, MessageReturns, ConsumerStep, ConsumeFails, RunStep
<1> QED BY <1>1, <1>2, <1>3, <1>4, <1>5, <1>6, <1>7, <1>8, <1>10, <1>11, <1>12

-----------------------------------------------------------------------------
(* LeadIntake: whatever is in the stream or in the hands of a process is   *)
(* the request of a line of the outbox, and of a row that began with it.   *)
LineRows == [status : {"none", "pending", "published", "failed"}, failures : Nat]
Booked(k) == outbox[k].status # "none"
RowBooked(k) == event[k].status = "none" <=> ~Booked(k)
MessageBooked(k) == stream[k].deliveries <= MaxDeliver /\ (stream[k].at # "none" => Booked(k))
HandsBooked(i) ==
    /\ intaker[i].publishing # NoKey => Booked(intaker[i].publishing)
    /\ WorkOf(i).key # NoKey => Booked(WorkOf(i).key)
    /\ WorkOf(i).phase = "saved" => WorkOf(i).result \in Ended

IntakeInv ==
    /\ AnswerInv /\ outbox \in [Keys -> LineRows]
    /\ \A k \in Keys : RowBooked(k) /\ MessageBooked(k)
    /\ \A i \in Intakers : HandsBooked(i)

LEMMA IntakeInvTyped == IntakeInv => IntakeTypeOK
<1> SUFFICES ASSUME IntakeInv PROVE IntakeTypeOK
  OBVIOUS
<1>1. AnswerTypes BY DEF IntakeInv, AnswerInv
<1>2. ASSUME NEW k \in Keys
      PROVE  /\ event[k].status \in IntakeStatuses /\ stream[k].deliveries \in 0..MaxDeliver
             /\ event[k].status = "none" <=> outbox[k].status = "none"
  BY <1>1, IntakeConstants DEF AnswerTypes, IntakeInv, RowBooked, MessageBooked, Booked
<1>3. ASSUME NEW i \in Intakers PROVE WorkOf(i).key \in Keys \cup {NoKey}
  BY <1>1, WorkOfRow DEF WorkRows
<1> QED BY <1>2, <1>3 DEF IntakeTypeOK, IntakeStatuses

LEMMA InitIntake == IntakeInit => IntakeInv
<1> SUFFICES ASSUME IntakeInit PROVE IntakeInv
  OBVIOUS
<1>1. outbox \in [Keys -> LineRows] /\ \A k \in Keys : RowBooked(k) /\ MessageBooked(k)
  BY IntakeConstants DEF IntakeInit, LineRows, RowBooked, MessageBooked, Booked
<1>2. \A i \in Intakers : HandsBooked(i)
  BY WorkIdle DEF IntakeInit, HandsBooked, WorkOf
<1> QED BY <1>1, <1>2, InitAnswer DEF IntakeInv

\* The rows and the outbox: a line is written with its row, and neither is ever unwritten.
LEMMA RowsStayBooked ==
  ASSUME IntakeInv, [IntakeNext]_intakeVars
  PROVE  /\ outbox' \in [Keys -> LineRows]
         /\ \A k \in Keys : RowBooked(k)' /\ (Booked(k) => Booked(k)')
<1>0. /\ event \in [Keys -> [status : IntakeStatuses, tries : Nat]] /\ outbox \in [Keys -> LineRows]
      /\ \A k \in Keys : RowBooked(k)
      /\ \A i \in Intakers : intaker[i] \in IntakerRows /\ WorkOf(i) \in WorkRows
  BY WorkOfRow DEF IntakeInv, AnswerInv, AnswerTypes
<1>1. CASE UNCHANGED <<event, outbox>> BY <1>0, <1>1 DEF RowBooked, Booked
<1>2. ASSUME NEW k \in Keys, Accept(k)
      PROVE  outbox' \in [Keys -> LineRows] /\ \A q \in Keys : RowBooked(q)' /\ (Booked(q) => Booked(q)')
  <2>1. /\ event' = [event EXCEPT ![k].status = "received"]
        /\ outbox' = [outbox EXCEPT ![k].status = "pending"]
    BY <1>2 DEF Accept
  <2>2. /\ outbox' \in [Keys -> LineRows] /\ outbox'[k].status = "pending"
        /\ \A q \in Keys \ {k} : outbox'[q] = outbox[q]
    BY <1>0, <2>1 DEF LineRows
  <2>3. event'[k].status = "received" /\ \A q \in Keys \ {k} : event'[q] = event[q]
    BY <1>0, <2>1
  <2> QED BY <1>0, <2>2, <2>3 DEF RowBooked, Booked
\* A row that is in the books is written again.
<1>3. ASSUME NEW i \in Intakers, WorkOf(i).key # NoKey, UNCHANGED outbox,
             \A q \in Keys \ {WorkOf(i).key} : event'[q] = event[q],
             event'[WorkOf(i).key].status # "none"
      PROVE  outbox' \in [Keys -> LineRows] /\ \A q \in Keys : RowBooked(q)' /\ (Booked(q) => Booked(q)')
  <2>1. Booked(WorkOf(i).key) BY <1>3 DEF IntakeInv, HandsBooked
  <2>2. ASSUME NEW q \in Keys PROVE RowBooked(q)'
    <3>1. CASE q = WorkOf(i).key BY <1>3, <2>1, <3>1 DEF RowBooked, Booked
    <3>2. CASE q # WorkOf(i).key BY <1>0, <1>3, <3>2 DEF RowBooked, Booked
    <3> QED BY <3>1, <3>2
  <2> QED BY <1>0, <1>3, <2>2 DEF Booked
<1>4. ASSUME NEW i \in Intakers, ReadEvent(i)
      PROVE  outbox' \in [Keys -> LineRows] /\ \A q \in Keys : RowBooked(q)' /\ (Booked(q) => Booked(q)')
  <2>1. WorkOf(i).key \in Keys \ {NoKey} /\ UNCHANGED outbox
    BY <1>0, <1>4, WorkOfRow DEF IntakeInv, AnswerInv, ReadEvent, WorkRows
  <2> DEFINE k == WorkOf(i).key
  <2>2. CASE ~WorthWork(k) BY <1>1, <1>4, <2>1, <2>2 DEF ReadEvent
  <2>3. CASE WorthWork(k)
    <3>1. event' = [event EXCEPT ![k].status = "processing", ![k].tries = IF @ < MaxTries THEN @ + 1 ELSE @]
      BY <1>4, <2>3 DEF ReadEvent
    <3> HIDE DEF k
    <3>2. k \in Keys BY <2>1 DEF k
    <3>3. event'[k].status = "processing" /\ \A q \in Keys \ {k} : event'[q] = event[q]
      BY <1>0, <3>1, <3>2
    <3> QED BY <1>3, <2>1, <3>3 DEF k
  <2> QED BY <2>2, <2>3
<1>5. ASSUME NEW i \in Intakers, EventEnds(i) \/ \E final \in BOOLEAN : EventFails(i, final)
      PROVE  outbox' \in [Keys -> LineRows] /\ \A q \in Keys : RowBooked(q)' /\ (Booked(q) => Booked(q)')
  <2>1. WorkOf(i).key \in Keys \ {NoKey} /\ UNCHANGED outbox
    BY <1>0, <1>5, WorkOfRow DEF IntakeInv, AnswerInv, EventEnds, EventFails, WorkRows
  <2>2. PICK s \in Ended \cup {"failed", "dead_letter"} : event' = [event EXCEPT ![WorkOf(i).key].status = s]
    BY <1>5 DEF EventEnds, EventFails, IntakeInv, HandsBooked
  <2>3. /\ event'[WorkOf(i).key].status = s
        /\ \A q \in Keys \ {WorkOf(i).key} : event'[q] = event[q]
    BY <1>0, <2>1, <2>2
  <2>4. s # "none" BY DEF Ended
  <2> QED BY <1>3, <2>1, <2>3, <2>4
<1>6. ASSUME NEW i \in Intakers, Publish(i) \/ PublishFails(i)
      PROVE  outbox' \in [Keys -> LineRows] /\ \A q \in Keys : RowBooked(q)' /\ (Booked(q) => Booked(q)')
  <2> DEFINE k == intaker[i].publishing
  <2>1. k \in Keys /\ Booked(k) /\ UNCHANGED event
    BY <1>0, <1>6 DEF Publish, PublishFails, IntakerRows, IntakeInv, HandsBooked
  <2>2. \/ outbox' = outbox \/ outbox' = [outbox EXCEPT ![k].status = "published"]
        \/ outbox' = [outbox EXCEPT ![k] = [status |-> IF @.failures >= MaxPublish THEN "failed" ELSE "pending",
                         failures |-> IF @.failures >= MaxPublish THEN @.failures ELSE @.failures + 1]]
    BY <1>6 DEF Publish, PublishFails
  <2> HIDE DEF k
  <2>3. PICK r \in LineRows : r.status # "none" /\ outbox' \in {outbox, [outbox EXCEPT ![k] = r]}
    <3>1. outbox[k] \in LineRows /\ outbox[k].status # "none" BY <1>0, <2>1 DEF Booked
    <3>2. CASE outbox' = outbox BY <3>1, <3>2
    <3>3. CASE outbox' = [outbox EXCEPT ![k].status = "published"]
      <4> DEFINE r == [outbox[k] EXCEPT !.status = "published"]
      <4>1. r \in LineRows /\ r.status = "published" BY <3>1 DEF LineRows
      <4>2. outbox' = [outbox EXCEPT ![k] = r] BY <3>3
      <4> HIDE DEF r
      <4> QED BY <4>1, <4>2
    <3>4. ASSUME NEW s \in {"failed", "pending"}, NEW n \in Nat,
                 outbox' = [outbox EXCEPT ![k] = [status |-> s, failures |-> n]]
          PROVE  \E r \in LineRows : r.status # "none" /\ outbox' \in {outbox, [outbox EXCEPT ![k] = r]}
      <4> DEFINE r == [status |-> s, failures |-> n]
      <4>1. r \in LineRows /\ r.status # "none" BY DEF LineRows
      <4>2. outbox' = [outbox EXCEPT ![k] = r] BY <3>4
      <4> HIDE DEF r
      <4> QED BY <4>1, <4>2
    <3>5. outbox[k].failures \in Nat /\ outbox[k].failures + 1 \in Nat BY <3>1 DEF LineRows
    <3>6. CASE outbox[k].failures >= MaxPublish BY <2>2, <3>2, <3>3, <3>4, <3>5, <3>6
    <3>7. CASE ~(outbox[k].failures >= MaxPublish) BY <2>2, <3>2, <3>3, <3>4, <3>5, <3>7
    <3> QED BY <3>6, <3>7
  <2>4. outbox' \in [Keys -> LineRows] BY <1>0, <2>3
  <2>5. \A q \in Keys : Booked(q)' <=> Booked(q) BY <1>0, <2>1, <2>3 DEF Booked
  <2> QED BY <1>0, <2>1, <2>4, <2>5 DEF RowBooked
<1>7. \/ UNCHANGED <<event, outbox>>
      \/ \E k \in Keys : Accept(k)
      \/ \E i \in Intakers : \/ ReadEvent(i) \/ EventEnds(i) \/ Publish(i) \/ PublishFails(i)
                             \/ \E final \in BOOLEAN : EventFails(i, final)
  BY DEF IntakeNext, IntakerStep, intakeVars, AckLate, AckNever, RevokeIntegration, IntakerDies,
         UpsertLead, TakeLine, Deliver
<1> QED BY <1>1, <1>2, <1>4, <1>5, <1>6, <1>7

\* The stream: a message comes of a line that is being published, and is given out at most
\* MaxDeliver times.
LEMMA MessagesStayBooked ==
  ASSUME IntakeInv, [IntakeNext]_intakeVars
  PROVE  \A k \in Keys : MessageBooked(k)'
<1>0. /\ stream \in [Keys -> [at : {"none", "ready", "out", "gone"}, deliveries : Nat]]
      /\ \A k \in Keys : MessageBooked(k) /\ (Booked(k) => Booked(k)') /\ stream[k].deliveries \in Nat
      /\ \A i \in Intakers : intaker[i] \in IntakerRows /\ WorkOf(i) \in WorkRows /\ HandsBooked(i)
      /\ \A i \in Intakers : WorkOf(i).phase # "idle" => WorkOf(i).key # NoKey
      /\ MaxDeliver \in Nat
  BY RowsStayBooked, WorkOfRow, IntakeConstants DEF IntakeInv, AnswerInv, AnswerTypes
<1>1. CASE UNCHANGED stream BY <1>0, <1>1 DEF MessageBooked
<1>2. ASSUME NEW k \in Keys, Booked(k), NEW at \in {"none", "ready", "out", "gone"},
             stream' = [stream EXCEPT ![k].at = at]
      PROVE  \A q \in Keys : MessageBooked(q)'
  <2>1. /\ stream'[k].deliveries = stream[k].deliveries
        /\ \A q \in Keys \ {k} : stream'[q] = stream[q]
    BY <1>0, <1>2
  <2> QED BY <1>0, <1>2, <2>1 DEF MessageBooked
<1>3. ASSUME NEW k \in Keys, Booked(k), NEW at \in {"none", "ready", "out", "gone"},
             NEW n \in Nat, n <= MaxDeliver,
             stream' = [stream EXCEPT ![k] = [at |-> at, deliveries |-> n]]
      PROVE  \A q \in Keys : MessageBooked(q)'
  <2>1. stream'[k].deliveries = n /\ \A q \in Keys \ {k} : stream'[q] = stream[q]
    BY <1>0, <1>3
  <2> QED BY <1>0, <1>3, <2>1 DEF MessageBooked
<1>4. ASSUME NEW i \in Intakers, Publish(i) PROVE \A q \in Keys : MessageBooked(q)'
  <2> DEFINE k == intaker[i].publishing
  <2>1. k \in Keys /\ Booked(k) BY <1>0, <1>4 DEF Publish, IntakerRows, HandsBooked
  <2>2. \/ stream' = stream
        \/ stream' = [stream EXCEPT ![k].at = "ready"]
        \/ stream' = [stream EXCEPT ![k] = [at |-> "ready", deliveries |-> 0]]
    BY <1>4 DEF Publish
  <2> HIDE DEF k
  <2>3. 0 \in Nat /\ 0 <= MaxDeliver BY <1>0
  <2> QED BY <1>1, <1>2, <1>3, <2>1, <2>2, <2>3
<1>5. ASSUME NEW i \in Intakers, NEW k \in Keys, Deliver(i, k) PROVE \A q \in Keys : MessageBooked(q)'
  <2> DEFINE n == stream[k].deliveries + 1
  <2>1. /\ stream[k].at = "ready" /\ stream[k].deliveries < MaxDeliver
        /\ stream' = [stream EXCEPT ![k] = [at |-> "out", deliveries |-> n]]
    BY <1>5 DEF Deliver
  <2>2. n \in Nat /\ n <= MaxDeliver BY <1>0, <2>1
  <2>3. Booked(k) BY <1>0, <2>1 DEF MessageBooked
  <2> HIDE DEF n
  <2> QED BY <1>3, <2>1, <2>2, <2>3
<1>6. ASSUME NEW i \in Intakers,
             ReadEvent(i) \/ EventEnds(i) \/ \E final \in BOOLEAN : EventFails(i, final)
      PROVE  \A q \in Keys : MessageBooked(q)'
  <2>1. WorkOf(i).phase # "idle" BY <1>6 DEF ReadEvent, EventEnds, EventFails
  <2>2. WorkOf(i).key \in Keys /\ Booked(WorkOf(i).key) BY <1>0, <2>1 DEF HandsBooked, WorkRows
  <2>3. stream' = stream \/ \E at \in {"ready", "gone"} : stream' = [stream EXCEPT ![WorkOf(i).key].at = at]
    BY <1>6 DEF ReadEvent, EventEnds, EventFails, Acknowledged, SentBack
  <2> QED BY <1>1, <1>2, <2>2, <2>3
<1>7. ASSUME NEW k \in Keys, AckLate(k) \/ AckNever(k) PROVE \A q \in Keys : MessageBooked(q)'
  <2>1. stream[k].at = "out" /\ \E at \in {"ready", "gone"} : stream' = [stream EXCEPT ![k].at = at]
    BY <1>7 DEF AckLate, AckNever, SentBack
  <2> QED BY <1>0, <1>2, <2>1 DEF MessageBooked
<1>8. ASSUME NEW i \in Intakers, IntakerDies(i) PROVE \A q \in Keys : MessageBooked(q)'
  <2> DEFINE k == intaker[i].publishing
  <2>1. \/ stream' = stream
        \/ k # NoKey /\ stream' = [stream EXCEPT ![k].at = "ready"]
    BY <1>8 DEF IntakerDies
  <2>2. k # NoKey => k \in Keys /\ Booked(k) BY <1>0 DEF IntakerRows, HandsBooked
  <2> HIDE DEF k
  <2> QED BY <1>1, <1>2, <2>1, <2>2
<1>9. \/ UNCHANGED stream
      \/ \E k \in Keys : AckLate(k) \/ AckNever(k)
      \/ \E i \in Intakers : \/ ReadEvent(i) \/ EventEnds(i) \/ Publish(i) \/ IntakerDies(i)
                             \/ \E final \in BOOLEAN : EventFails(i, final)
                             \/ \E k \in Keys : Deliver(i, k)
  BY DEF IntakeNext, IntakerStep, intakeVars, Accept, RevokeIntegration, PublishFails,
         UpsertLead, TakeLine
<1> QED BY <1>1, <1>4, <1>5, <1>6, <1>7, <1>8, <1>9

\* The processes: each takes up a line that is pending or a message that is there.
LEMMA HandsStayBooked ==
  ASSUME IntakeInv, [IntakeNext]_intakeVars
  PROVE  \A i \in Intakers : HandsBooked(i)'
<1>0. /\ intaker \in [Intakers -> IntakerRows]
      /\ \A k \in Keys : MessageBooked(k) /\ (Booked(k) => Booked(k)')
      /\ \A i \in Intakers : intaker[i] \in IntakerRows /\ WorkOf(i) \in WorkRows /\ HandsBooked(i)
      /\ \A i \in Intakers : WorkOf(i).phase # "idle" => WorkOf(i).key # NoKey
  BY RowsStayBooked, WorkOfRow DEF IntakeInv, AnswerInv, AnswerTypes
<1>1. ASSUME NEW i \in Intakers, intaker'[i] = intaker[i] PROVE HandsBooked(i)'
  <2>1. intaker[i].publishing \in Keys \cup {NoKey} /\ WorkOf(i).key \in Keys \cup {NoKey}
    BY <1>0 DEF IntakerRows, WorkRows
  <2>2. WorkOf(i)' = WorkOf(i) BY <1>1 DEF WorkOf
  <2> QED BY <1>0, <1>1, <2>1, <2>2 DEF HandsBooked
<1>2. CASE UNCHANGED intaker BY <1>1, <1>2
<1>3. ASSUME NEW i \in Intakers, NEW p \in Keys \cup {NoKey}, p # NoKey => Booked(p),
             intaker' = [intaker EXCEPT ![i].publishing = p]
      PROVE  \A j \in Intakers : HandsBooked(j)'
  <2>1. /\ \A j \in Intakers \ {i} : intaker'[j] = intaker[j]
        /\ intaker'[i].publishing = p /\ WorkOf(i)' = WorkOf(i)
    BY <1>0, <1>3 DEF IntakerRows, WorkOf
  <2>2. WorkOf(i).key \in Keys \cup {NoKey} BY <1>0 DEF WorkRows
  <2>3. HandsBooked(i)' BY <1>0, <1>3, <2>1, <2>2 DEF HandsBooked
  <2> QED BY <1>1, <2>1, <2>3
<1>4. ASSUME NEW i \in Intakers, NEW w \in WorkRows, w.key # NoKey => Booked(w.key),
             w.phase = "saved" => w.result \in Ended,
             intaker' = [intaker EXCEPT ![i].work = w]
      PROVE  \A j \in Intakers : HandsBooked(j)'
  <2>1. /\ \A j \in Intakers \ {i} : intaker'[j] = intaker[j]
        /\ intaker'[i].publishing = intaker[i].publishing /\ WorkOf(i)' = w
    BY <1>0, <1>4 DEF IntakerRows, WorkOf
  <2>2. w.key \in Keys \cup {NoKey} /\ intaker[i].publishing \in Keys \cup {NoKey}
    BY <1>0 DEF WorkRows, IntakerRows
  <2>3. HandsBooked(i)' BY <1>0, <1>4, <2>1, <2>2 DEF HandsBooked
  <2> QED BY <1>1, <2>1, <2>3
<1>5. NoWork \in WorkRows /\ NoWork.key = NoKey /\ NoWork.phase = "idle" BY WorkIdle
<1>6. ASSUME NEW i \in Intakers, NEW k \in Keys, TakeLine(i, k) PROVE \A j \in Intakers : HandsBooked(j)'
  BY <1>3, <1>6 DEF TakeLine, Booked
<1>7. ASSUME NEW i \in Intakers, Publish(i) \/ PublishFails(i) PROVE \A j \in Intakers : HandsBooked(j)'
  BY <1>3, <1>7 DEF Publish, PublishFails
<1>8. ASSUME NEW i \in Intakers, NEW k \in Keys, Deliver(i, k) PROVE \A j \in Intakers : HandsBooked(j)'
  <2> DEFINE w == [NoWork EXCEPT !.key = k, !.phase = "got"]
  <2>1. w \in WorkRows /\ w.key = k /\ w.phase = "got" BY DEF NoWork, WorkRows
  <2>2. Booked(k) /\ intaker' = [intaker EXCEPT ![i].work = w]
    BY <1>0, <1>8 DEF Deliver, MessageBooked
  <2> HIDE DEF w
  <2> QED BY <1>4, <2>1, <2>2
<1>9. ASSUME NEW i \in Intakers, ReadEvent(i) PROVE \A j \in Intakers : HandsBooked(j)'
  <2> DEFINE k == WorkOf(i).key
             w == [key |-> k, phase |-> "read", tries |-> event[k].tries + 1, on |-> integrationOn,
                   known |-> intakeLeads[PhoneOf[k]] > 0, result |-> "none"]
  <2>1. k \in Keys /\ Booked(k) BY <1>0, <1>9 DEF ReadEvent, HandsBooked, WorkRows
  <2>2. CASE ~WorthWork(k) BY <1>4, <1>5, <1>9, <2>2 DEF ReadEvent
  <2>3. CASE WorthWork(k)
    <3>1. intaker' = [intaker EXCEPT ![i].work = w] BY <1>9, <2>3 DEF ReadEvent
    <3> HIDE DEF k
    <3>2. event[k].tries + 1 \in Nat /\ integrationOn \in BOOLEAN
      BY <2>1 DEF IntakeInv, AnswerInv, AnswerTypes
    <3>3. w \in WorkRows /\ w.key = k /\ w.phase = "read" BY <2>1, <3>2 DEF WorkRows
    <3> HIDE DEF w
    <3> QED BY <1>4, <2>1, <3>1, <3>3
  <2> QED BY <2>2, <2>3
<1>10. ASSUME NEW i \in Intakers, UpsertLead(i) PROVE \A j \in Intakers : HandsBooked(j)'
  <2>1. PICK result \in Ended : intaker' = [intaker EXCEPT ![i].work.phase = "saved", ![i].work.result = result]
    BY <1>10 DEF UpsertLead, Ended
  <2> DEFINE w == [WorkOf(i) EXCEPT !.phase = "saved", !.result = result]
  <2>2. WorkOf(i) \in WorkRows BY <1>0
  <2>3. w \in WorkRows /\ w.key = WorkOf(i).key /\ w.result = result BY <2>2 DEF WorkRows
  <2>4. intaker' = [intaker EXCEPT ![i].work = w]
    <3>1. intaker[i] \in IntakerRows BY <1>0
    <3>2. [intaker[i] EXCEPT !.work.phase = "saved", !.work.result = result]
            = [intaker[i] EXCEPT !.work = w]
      BY <3>1 DEF IntakerRows, WorkOf
    <3>3. intaker' = [intaker EXCEPT ![i] = [intaker[i] EXCEPT !.work.phase = "saved",
                                                               !.work.result = result]]
      BY <1>0, <2>1
    <3> QED BY <3>2, <3>3
  <2>5. w.key # NoKey => Booked(w.key) BY <1>0, <2>3 DEF HandsBooked
  <2> HIDE DEF w
  <2> QED BY <1>4, <2>3, <2>4, <2>5
<1>11. ASSUME NEW i \in Intakers, EventEnds(i) \/ \E final \in BOOLEAN : EventFails(i, final)
       PROVE  \A j \in Intakers : HandsBooked(j)'
  <2>1. intaker' = [intaker EXCEPT ![i].work = NoWork] BY <1>11 DEF EventEnds, EventFails
  <2> QED BY <1>4, <1>5, <2>1
<1>12. ASSUME NEW i \in Intakers, IntakerDies(i) PROVE \A j \in Intakers : HandsBooked(j)'
  <2>1. intaker' = [intaker EXCEPT ![i] = [publishing |-> NoKey, work |-> NoWork]]
    BY <1>12 DEF IntakerDies
  <2>2. /\ \A j \in Intakers \ {i} : intaker'[j] = intaker[j]
        /\ intaker'[i].publishing = NoKey /\ WorkOf(i)' = NoWork
    BY <1>0, <2>1 DEF WorkOf
  <2>3. HandsBooked(i)' BY <1>5, <2>2 DEF HandsBooked
  <2> QED BY <1>1, <2>2, <2>3
<1> QED BY <1>2, <1>6, <1>7, <1>8, <1>9, <1>10, <1>11, <1>12
        DEF IntakeNext, IntakerStep, intakeVars, Accept, AckLate, AckNever, RevokeIntegration

LEMMA StepIntake == IntakeInv /\ [IntakeNext]_intakeVars => IntakeInv'
<1> SUFFICES ASSUME IntakeInv, [IntakeNext]_intakeVars PROVE IntakeInv'
  OBVIOUS
<1>1. AnswerInv' BY StepAnswer DEF IntakeInv
<1> QED BY <1>1, RowsStayBooked, MessagesStayBooked, HandsStayBooked DEF IntakeInv

-----------------------------------------------------------------------------
(* Every scene at once: the invariant of each component.                   *)
DeliveriesIInv ==
    /\ InboxIInv /\ PaidInv /\ IntakeInv /\ CrmInv /\ HookInv /\ MailInv
    /\ QueueIInv /\ ViewInv /\ OpsInv

LEMMA InitDeliveries == Init => DeliveriesIInv
BY InitInbox, InitPaid, InitIntake, InitCrmInv, InitHook, InitMail, InitQueue, InitView, InitOps
   DEF Init, DeliveriesIInv

LEMMA SceneSteps ==
  [Next]_deliveryVars =>
    /\ [InboxNext]_inboxVars /\ [SubNext]_subVars /\ [IntakeNext]_intakeVars /\ [CrmNext]_crmVars
    /\ [HookNext]_hookVars /\ [MailNext]_mailVars /\ [QueueNext]_queueVars
    /\ [MetricsViewNext]_viewVars /\ [OpsNext]_opsVars
BY DEF Next, deliveryVars, others

LEMMA StepDeliveries == DeliveriesIInv /\ [Next]_deliveryVars => DeliveriesIInv'
BY SceneSteps, StepInbox, StepPaid, StepIntake, StepCrm, StepHook, StepMail, StepQueue, StepView,
   StepOps DEF DeliveriesIInv

LEMMA DeliveriesAreKept == DeliveriesIInv => DeliveriesInv
<1> SUFFICES ASSUME DeliveriesIInv PROVE DeliveriesInv
  OBVIOUS
<1>1. SubTypeOK
  <2>1. SubTypes BY DEF DeliveriesIInv, PaidInv
  <2>2. ASSUME NEW e \in SubEvents
        PROVE  subInbox[e].type \in {"none", "updated", "paid", "deleted", "done"}
    <3>1. subInbox[e] \in InboxEvents BY <2>1 DEF SubTypes
    <3> QED BY <3>1 DEF InboxEvents, Kinds
  <2> QED BY <2>1, <2>2 DEF SubTypes, SubTypeOK, GoodRows, Dates
<1>2. MetricsViewTypeOK /\ RankingsOfFilters /\ OpsTypeOK /\ ViewOwnsAll
  BY DEF DeliveriesIInv, ViewInv, OpsInv, OpsLinked, ViewOwnsAll
<1> QED BY <1>1, <1>2, InboxIsKept, IntakeInvTyped, CrmIsKept, HookInvTyped, MailInvTyped, QueueIsKept
        DEF DeliveriesIInv, DeliveriesInv

\* In every scene, with any number of processes, events, requests, rows, links, leads and pages:
\* the rows keep their types, one process at a time works on what is leased, and a page shows
\* nothing of other filters or another company.
THEOREM DeliveriesKept == Spec => []DeliveriesInv
BY InitDeliveries, StepDeliveries, DeliveriesAreKept, PTL DEF Spec
=============================================================================
