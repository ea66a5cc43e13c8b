---------------------------- MODULE BillingInbox ----------------------------
(***************************************************************************)
(* The inbox of Stripe events (table billing_webhook_events) and its       *)
(* workers.  The webhook only records an event; every process runs a       *)
(* worker that takes the lock of the workers in Redis, reads the due rows  *)
(* and claims them one by one.  A claim that is too old is taken over, so  *)
(* a stalled worker may settle an event another one holds by then.         *)
(* Time is counted in minutes; every age stops counting where no guard     *)
(* tells it from a greater one.                                            *)
(***************************************************************************)
EXTENDS Integers, Sequences

CONSTANTS
    Events,         \* ids of Stripe events
    BillingWorkers, \* the worker of each process
    NoEvent,        \* a worker that holds nothing
    DeadAfter,      \* attempts before an event is a dead letter (8)
    Reclaim,        \* minutes after which a claim is taken over (10)
    WorkerTTL,      \* minutes the lock of the workers lives (5)
    MaxMishaps      \* bound: crashes of workers and dead letters sent back

ASSUME InboxConstants == {DeadAfter, Reclaim, WorkerTTL} \subseteq Nat \ {0}
                         /\ NoEvent \notin Events

VARIABLES
    inboxOrder,     \* the events in the order they were received
    inboxRow,       \* status, attempts, minutes since the claim and to the next try
    inboxWorker,    \* what each worker has listed and holds
    inboxLock,      \* the lock of the workers: its owner and the minutes it has left
    inboxLate,      \* ghost: events a worker settled after its claim was taken over
    inboxMishaps    \* what the bound has left

inboxVars == <<inboxOrder, inboxRow, inboxWorker, inboxLock, inboxLate, inboxMishaps>>

InboxStatus == {"none", "received", "processing", "processed", "failed", "dead_letter"}
Lesser(a, b) == IF a < b THEN a ELSE b

InboxTypeOK ==
    /\ inboxRow \in [Events -> [status : InboxStatus, attempts : 0..DeadAfter,
                                age : 0..Reclaim + 1, wait : 0..DeadAfter]]
    /\ inboxWorker \in [BillingWorkers -> [running : BOOLEAN, todo : Seq(Events),
                                           holds : Events \cup {NoEvent},
                                           held : 0..Reclaim + 1]]
    /\ inboxLock.left \in 0..WorkerTTL
    /\ \A e \in Events : inboxRow[e].status = "none" <=> \A i \in DOMAIN inboxOrder : inboxOrder[i] # e
    /\ \A e \in Events : inboxRow[e].status = "processing" => inboxRow[e].attempts > 0

Resting == [running |-> FALSE, todo |-> <<>>, holds |-> NoEvent, held |-> 0]

InboxInit ==
    /\ inboxOrder = <<>>
    /\ inboxRow = [e \in Events |-> [status |-> "none", attempts |-> 0, age |-> 0, wait |-> 0]]
    /\ inboxWorker = [w \in BillingWorkers |-> Resting]
    /\ inboxLock = [owner |-> NoEvent, left |-> 0]
    /\ inboxLate = {}
    /\ inboxMishaps = MaxMishaps

-----------------------------------------------------------------------------
(* INSERT ... ON CONFLICT DO NOTHING: a second delivery changes nothing.   *)
RecordWebhook(e) ==
    /\ inboxRow[e].status = "none"
    /\ inboxRow' = [inboxRow EXCEPT ![e].status = "received"]
    /\ inboxOrder' = Append(inboxOrder, e)
    /\ UNCHANGED <<inboxWorker, inboxLock, inboxLate, inboxMishaps>>

(* Wrong on purpose: forgets that a claim protects the row for a while.    *)
ClaimableAlways(row) ==
    row.wait = 0 /\ row.status \in {"received", "failed", "processing"}

(* Wrong on purpose: a claim is never taken over.                          *)
ClaimableUnlessHeld(row) == row.wait = 0 /\ row.status \in {"received", "failed"}

Claimable(row) ==
    /\ row.wait = 0
    /\ \/ row.status \in {"received", "failed"}
       \/ row.status = "processing" /\ row.age > Reclaim

DueEvents == {e \in Events : Claimable(inboxRow[e])}

ReceivedBefore(e, f) == \E i, j \in DOMAIN inboxOrder : i < j /\ inboxOrder[i] = e /\ inboxOrder[j] = f

(* The due rows, each once, in the order they were received in.            *)
ListsDue(todo) ==
    /\ \A e \in DueEvents : \E i \in DOMAIN todo : todo[i] = e
    /\ \A i, j \in DOMAIN todo : i < j => ReceivedBefore(todo[i], todo[j])

(* A run of the worker: the lock, then the list of the due rows.           *)
BeginRun(w) ==
    /\ ~inboxWorker[w].running /\ inboxLock.left = 0
    /\ inboxLock' = [owner |-> w, left |-> WorkerTTL]
    /\ \E n \in 0..Len(inboxOrder) : \E todo \in [1..n -> DueEvents] :
           /\ ListsDue(todo)
           /\ inboxWorker' = [inboxWorker EXCEPT ![w].running = TRUE, ![w].todo = todo]
    /\ UNCHANGED <<inboxOrder, inboxRow, inboxLate, inboxMishaps>>

(* The claim is one UPDATE with the condition repeated; a row that another *)
(* worker took meanwhile is passed over.                                   *)
ClaimEvent(w) ==
    /\ inboxWorker[w].holds = NoEvent /\ inboxWorker[w].todo # <<>>
    /\ LET e == Head(inboxWorker[w].todo) IN
       IF Claimable(inboxRow[e])
       THEN /\ inboxRow' = [inboxRow EXCEPT ![e].status = "processing", ![e].age = 0,
                   ![e].attempts = Lesser(@ + 1, DeadAfter)]
            /\ inboxWorker' = [inboxWorker EXCEPT ![w].holds = e, ![w].held = 0]
       ELSE /\ inboxWorker' = [inboxWorker EXCEPT ![w].todo = Tail(@)]
            /\ UNCHANGED inboxRow
    /\ UNCHANGED <<inboxOrder, inboxLock, inboxLate, inboxMishaps>>

(* The end of an event.  Both UPDATEs name the event only: the worker does *)
(* not look whether the claim is still its own.                            *)
Settle(w, row) ==
    LET e == inboxWorker[w].holds IN
    /\ e # NoEvent
    /\ inboxRow' = [inboxRow EXCEPT ![e] = row]
    /\ inboxLate' = IF inboxRow[e].status = "processing" /\ inboxRow[e].age = inboxWorker[w].held
                    THEN inboxLate ELSE inboxLate \cup {e}
    /\ inboxWorker' = [inboxWorker EXCEPT ![w].holds = NoEvent, ![w].held = 0, ![w].todo = Tail(@)]
    /\ UNCHANGED <<inboxOrder, inboxLock, inboxMishaps>>

Processed(w) ==
    Settle(w, [inboxRow[inboxWorker[w].holds] EXCEPT !.status = "processed", !.age = 0])

(* Wrong on purpose: an event is tried for ever.                           *)
FailedForEver(row) == [row EXCEPT !.status = "failed", !.age = 0, !.wait = row.attempts]

FailedRow(row) ==
    [row EXCEPT !.status = IF row.attempts >= DeadAfter THEN "dead_letter" ELSE "failed",
                !.age = 0, !.wait = row.attempts]

Failed(w) == Settle(w, FailedRow(inboxRow[inboxWorker[w].holds]))

EndRun(w) ==
    /\ inboxWorker[w].running /\ inboxWorker[w].todo = <<>>
    /\ inboxWorker' = [inboxWorker EXCEPT ![w] = Resting]
    /\ inboxLock' = IF inboxLock.owner = w THEN [owner |-> NoEvent, left |-> 0] ELSE inboxLock
    /\ UNCHANGED <<inboxOrder, inboxRow, inboxLate, inboxMishaps>>

(* The process dies: its claim and its lock stay until they lapse.         *)
WorkerDies(w) ==
    /\ inboxWorker[w].running /\ inboxMishaps > 0
    /\ inboxWorker' = [inboxWorker EXCEPT ![w] = Resting]
    /\ inboxMishaps' = inboxMishaps - 1
    /\ UNCHANGED <<inboxOrder, inboxRow, inboxLock, inboxLate>>

RetryWebhookEvent(e) ==
    /\ inboxRow[e].status = "dead_letter" /\ inboxMishaps > 0
    /\ inboxRow' = [inboxRow EXCEPT ![e] = [status |-> "received", attempts |-> 0, age |-> 0, wait |-> 0]]
    /\ inboxMishaps' = inboxMishaps - 1
    /\ UNCHANGED <<inboxOrder, inboxWorker, inboxLock, inboxLate>>

MinutePasses ==
    /\ \/ inboxLock.left > 0
       \/ \E e \in Events : inboxRow[e].wait > 0
       \/ \E e \in Events : inboxRow[e].status = "processing" /\ inboxRow[e].age <= Reclaim
    /\ inboxRow' = [e \in Events |-> [inboxRow[e] EXCEPT
           !.wait = IF @ > 0 THEN @ - 1 ELSE 0,
           !.age = IF inboxRow[e].status = "processing" THEN Lesser(@ + 1, Reclaim + 1) ELSE 0]]
    /\ inboxWorker' = [w \in BillingWorkers |-> [inboxWorker[w] EXCEPT
           !.held = IF inboxWorker[w].holds = NoEvent THEN 0 ELSE Lesser(@ + 1, Reclaim + 1)]]
    /\ inboxLock' = IF inboxLock.left > 1 THEN [inboxLock EXCEPT !.left = @ - 1]
                    ELSE [owner |-> NoEvent, left |-> 0]
    /\ UNCHANGED <<inboxOrder, inboxLate, inboxMishaps>>

WorkerStep(w) == BeginRun(w) \/ ClaimEvent(w) \/ Processed(w) \/ Failed(w) \/ EndRun(w)

InboxNext ==
    \/ \E e \in Events : RecordWebhook(e) \/ RetryWebhookEvent(e)
    \/ \E w \in BillingWorkers : WorkerStep(w) \/ WorkerDies(w)
    \/ MinutePasses

(* The timer of every process keeps calling run() and no call to the       *)
(* database or to Stripe hangs for ever: a worker that can step steps.     *)
InboxFairness == WF_inboxVars(MinutePasses) /\ \A w \in BillingWorkers : WF_inboxVars(WorkerStep(w))

InboxSpec == InboxInit /\ [][InboxNext]_inboxVars /\ InboxFairness

-----------------------------------------------------------------------------
(* While no stalled worker has settled it, an event is worked on by two    *)
(* workers only when the claim of one has lapsed: the conditional UPDATE   *)
(* of processWebhookEvent(), with the lock of the workers lapsing before.  *)
InboxClaimsApart ==
    \A w, v \in BillingWorkers :
        w # v /\ inboxWorker[w].holds = inboxWorker[v].holds /\ inboxWorker[w].holds # NoEvent
        /\ inboxWorker[w].holds \notin inboxLate
        => inboxWorker[w].held > Reclaim \/ inboxWorker[v].held > Reclaim

(* Every recorded event is processed or becomes a dead letter, whatever    *)
(* fails and whichever worker dies with it (processPendingWebhooks).       *)
InboxSettles ==
    \A e \in Events : []<>(inboxRow[e].status \in {"none", "processed", "dead_letter"})
=============================================================================
