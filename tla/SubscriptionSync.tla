-------------------------- MODULE SubscriptionSync --------------------------
(***************************************************************************)
(* How the subscription of a tenant at Stripe becomes its entitlement.     *)
(* A worker applies the events of the inbox (BillingInbox) in any order,   *)
(* an admin or the worker of another process reconciles, and an admin      *)
(* grants access by hand, all at the same time.  A sync reads what it      *)
(* keeps of the old row before its transaction; the transactions of two    *)
(* syncs exclude each other by the row of the subscription, while a grant  *)
(* only holds the lock of the tenant, which no sync takes.                 *)
(* One subscription, one seat item: row and item are guarded by the same   *)
(* date and move together.  Stripe itself is external.                     *)
(***************************************************************************)
EXTENDS Integers

CONSTANTS
    SubEvents,      \* bound: ids of the events Stripe may emit
    SeatCounts,     \* quantities the seat item may have
    Period,         \* length of a billing period
    SubEnd          \* bound: the clock stops here

ASSUME SubConstants == Period \in Nat \ {0} /\ SubEnd \in Nat /\ SeatCounts \subseteq Nat /\ 0 \in SeatCounts

Syncers == {"worker", "reconciler"}

VARIABLES
    subNow,         \* the clock
    stripeSub,      \* the subscription at Stripe
    subInbox,       \* events emitted and not yet handled, by id
    subRow,         \* tenant_subscriptions with its seat item
    grantUntil,     \* the one manual grant: until when, -1 before it, 0 once revoked
    entRow,         \* tenant_entitlements
    subTask,        \* what each syncer, and the admin who grants, is about
    paidFor         \* ghost: period end and seats that were paid for, and whether
                    \* a payment was handled when Stripe had changed since

subVars == <<subNow, stripeSub, subInbox, subRow, grantUntil, entRow, subTask, paidFor>>

Times == 0..SubEnd + Period
SubRows == [known : BOOLEAN, status : {"active", "past_due", "canceled"}, ended : BOOLEAN,
            until : Times, seats : SeatCounts, pending : SeatCounts \cup {-1}, at : 0..SubEnd]
Entitlements == [mode : {"full", "read_only"}, source : {"none", "stripe", "manual_grant"},
                 until : Times, seats : SeatCounts]
Snaps == [status : {"active", "past_due", "canceled"}, seats : SeatCounts, end : Times]

SubTypeOK ==
    /\ subNow \in 0..SubEnd /\ stripeSub \in Snaps /\ subRow \in SubRows
    /\ entRow \in Entitlements /\ grantUntil \in Times \cup {-1}
    /\ \A e \in SubEvents : subInbox[e].type \in {"none", "updated", "paid", "deleted", "done"}
    /\ subRow.ended => subRow.until = 0

Idle == [pc |-> "idle"]
NoAccess == [mode |-> "read_only", source |-> "none", until |-> 0, seats |-> 0]

SubInit ==
    /\ subNow = 0
    /\ stripeSub = [status |-> "active", seats |-> 0, end |-> Period]
    /\ subInbox = [e \in SubEvents |-> [type |-> "none"]]
    /\ subRow = [known |-> FALSE, status |-> "canceled", ended |-> FALSE, until |-> 0,
                 seats |-> 0, pending |-> -1, at |-> 0]
    /\ grantUntil = -1
    /\ entRow = NoAccess
    /\ subTask = [p \in Syncers \cup {"granter"} |-> Idle]
    /\ paidFor = [end |-> 0, seats |-> 0, late |-> FALSE]

-----------------------------------------------------------------------------
(* Stripe: every change emits an event with its date; the events of the    *)
(* subscription carry it as it was, those of an invoice only name it.      *)
Emit(type, snap) ==
    \E e \in SubEvents :
        /\ subInbox[e].type = "none"
        /\ \A f \in SubEvents : subInbox[f].type = "none" => f >= e
        /\ subInbox' = [subInbox EXCEPT ![e] = [type |-> type, at |-> subNow, snap |-> snap]]

StripeChange(snap, type) ==
    /\ stripeSub.status # "canceled"
    /\ stripeSub' = snap
    /\ Emit(type, snap)
    /\ UNCHANGED <<subNow, subRow, grantUntil, entRow, subTask>>

BuysSeats(n) == n # stripeSub.seats /\ StripeChange([stripeSub EXCEPT !.seats = n], "updated")
                /\ UNCHANGED paidFor
Renews == subNow >= stripeSub.end
          /\ StripeChange([stripeSub EXCEPT !.end = @ + Period, !.status = "past_due"], "updated")
          /\ UNCHANGED paidFor
Pays == StripeChange([stripeSub EXCEPT !.status = "active"], "paid")
        /\ paidFor' = [paidFor EXCEPT !.end = stripeSub.end,
                           !.seats = IF stripeSub.seats > @ THEN stripeSub.seats ELSE @]
Cancels == StripeChange([stripeSub EXCEPT !.status = "canceled"], "deleted") /\ UNCHANGED paidFor

-----------------------------------------------------------------------------
(* recompute(): the grant first, then the subscription.                    *)
Recompute(row, grant) ==
    IF grant > subNow
    THEN [mode |-> "full", source |-> "manual_grant", until |-> grant, seats |-> 0]
    ELSE IF row.known /\ row.status = "active" /\ row.until > subNow
    THEN [mode |-> "full", source |-> "stripe", until |-> row.until, seats |-> row.seats]
    ELSE NoAccess

(* getAccess(): a full access whose date has passed counts for nothing.    *)
Effective(ent) == IF ent.mode = "full" /\ ent.until > subNow THEN ent ELSE NoAccess

(* Wrong on purpose: any event of an active subscription opens its period. *)
AccessUntilAny(task) == IF task.type = "deleted" THEN 0 ELSE task.snap.end

(* What a sync will write as access_until: only a payment moves it on.     *)
AccessUntil(task) ==
    CASE task.type = "deleted" -> 0
      [] task.type = "paid"    -> task.snap.end
      [] OTHER                 -> task.existing

(* Wrong on purpose: the end of a subscription is not taken over.          *)
SyncedKeepsAlive(row, task) ==
    IF row.known /\ task.at < row.at THEN row
    ELSE [row EXCEPT !.known = TRUE, !.at = task.at,
          !.status = IF task.type = "deleted" THEN "canceled" ELSE row.status]

(* Wrong on purpose: a subscription that ends leaves its date behind.      *)
SyncedKeepsAccess(row, task) ==
    IF row.known /\ task.at < row.at THEN row
    ELSE [row EXCEPT !.known = TRUE, !.at = task.at, !.status = task.snap.status,
          !.ended = task.type = "deleted" \/ task.snap.status = "canceled",
          !.until = IF AccessUntil(task) = 0 THEN row.until ELSE AccessUntil(task)]

(* The upsert of the row and of its item, refused when the date is older.  *)
Synced(row, task) ==
    LET ended == task.type = "deleted" \/ task.snap.status = "canceled"
        paid == task.type = "paid"
        seats == task.snap.seats IN
    IF row.known /\ task.at < row.at THEN row
    ELSE [known |-> TRUE, status |-> task.snap.status, ended |-> ended, at |-> task.at,
          until |-> IF ended THEN 0 ELSE IF AccessUntil(task) = 0 THEN row.until ELSE AccessUntil(task),
          seats |-> IF paid THEN seats ELSE row.seats,
          pending |-> IF paid THEN -1
                      ELSE IF ~row.known \/ seats # row.seats THEN seats ELSE row.pending]

(* The event is taken from the inbox; an invoice makes the worker ask      *)
(* Stripe for the subscription as it is now.                               *)
TakeEvent(e) ==
    /\ subTask["worker"] = Idle
    /\ subInbox[e].type \in {"updated", "paid", "deleted"}
    /\ LET snap == IF subInbox[e].type = "paid" THEN stripeSub ELSE subInbox[e].snap IN
       /\ subTask' = [subTask EXCEPT !["worker"] = [pc |-> "fetched", type |-> subInbox[e].type,
                                                   snap |-> snap, at |-> subInbox[e].at]]
       /\ paidFor' = [paidFor EXCEPT !.late = @ \/ snap.end # subInbox[e].snap.end
                                               \/ snap.seats # subInbox[e].snap.seats]
    /\ subInbox' = [subInbox EXCEPT ![e] = [type |-> "done"]]
    /\ UNCHANGED <<subNow, stripeSub, subRow, grantUntil, entRow>>

(* Wrong on purpose: a tenant without a running subscription is skipped.   *)
ReconcileRunningOnly ==
    /\ subTask["reconciler"] = Idle /\ subRow.known /\ ~subRow.ended
    /\ subTask' = [subTask EXCEPT !["reconciler"] =
           [pc |-> "fetched", type |-> "reconcile", snap |-> stripeSub, at |-> -1]]
    /\ UNCHANGED <<subNow, stripeSub, subInbox, subRow, grantUntil, entRow, paidFor>>

(* reconcileTenant(): the running subscription is asked for at Stripe;     *)
(* without one the entitlement is computed again, outside a transaction.   *)
Reconcile ==
    /\ subTask["reconciler"] = Idle
    /\ subTask' = [subTask EXCEPT !["reconciler"] =
           IF subRow.known /\ ~subRow.ended
           THEN [pc |-> "fetched", type |-> "reconcile", snap |-> stripeSub, at |-> -1]
           ELSE [pc |-> "recompute", ent |-> Recompute(subRow, grantUntil)]]
    /\ UNCHANGED <<subNow, stripeSub, subInbox, subRow, grantUntil, entRow, paidFor>>

(* The old row is read, before the transaction; a reconcile has no event   *)
(* date and takes the clock.                                               *)
ReadExisting(p) ==
    /\ subTask[p].pc = "fetched"
    /\ subTask' = [subTask EXCEPT ![p] = [pc |-> "read", type |-> @.type, snap |-> @.snap,
           at |-> IF @.at = -1 THEN subNow ELSE @.at, existing |-> subRow.until]]
    /\ UNCHANGED <<subNow, stripeSub, subInbox, subRow, grantUntil, entRow, paidFor>>

(* The transaction: the upsert locks the row, the entitlement is computed  *)
(* from it and from what others have committed.                            *)
OpenSync(p) ==
    /\ subTask[p].pc = "read"
    /\ \A q \in Syncers : subTask[q].pc # "sync"
    /\ LET row == Synced(subRow, subTask[p]) IN
       subTask' = [subTask EXCEPT ![p] = [pc |-> "sync", row |-> row,
                                          ent |-> Recompute(row, grantUntil)]]
    /\ UNCHANGED <<subNow, stripeSub, subInbox, subRow, grantUntil, entRow, paidFor>>

CommitSync(p) ==
    /\ subTask[p].pc \in {"sync", "recompute"}
    /\ entRow' = subTask[p].ent
    /\ subRow' = IF subTask[p].pc = "sync" THEN subTask[p].row ELSE subRow
    /\ subTask' = [subTask EXCEPT ![p] = Idle]
    /\ UNCHANGED <<subNow, stripeSub, subInbox, grantUntil, paidFor>>

(* createManualGrant(), revokeManualGrant(): the grant and the entitlement *)
(* in one transaction under the lock of the tenant.                        *)
OpenGrant(until) ==
    /\ subTask["granter"] = Idle
    /\ IF until = 0 THEN grantUntil > 0 ELSE grantUntil = -1 /\ until > subNow
    /\ subTask' = [subTask EXCEPT !["granter"] =
           [pc |-> "grant", until |-> until, ent |-> Recompute(subRow, until)]]
    /\ UNCHANGED <<subNow, stripeSub, subInbox, subRow, grantUntil, entRow, paidFor>>

CommitGrant ==
    /\ subTask["granter"].pc = "grant"
    /\ grantUntil' = subTask["granter"].until
    /\ entRow' = subTask["granter"].ent
    /\ subTask' = [subTask EXCEPT !["granter"] = Idle]
    /\ UNCHANGED <<subNow, stripeSub, subInbox, subRow, paidFor>>

SubTick ==
    /\ subNow < SubEnd /\ subNow' = subNow + 1
    /\ UNCHANGED <<stripeSub, subInbox, subRow, grantUntil, entRow, subTask, paidFor>>

SyncStep(p) == ReadExisting(p) \/ OpenSync(p) \/ CommitSync(p)

SubNext ==
    \/ \E n \in SeatCounts : BuysSeats(n)
    \/ Renews \/ Pays \/ Cancels
    \/ \E e \in SubEvents : TakeEvent(e)
    \/ Reconcile
    \/ \E p \in Syncers : SyncStep(p)
    \/ \E until \in {0, SubEnd} : OpenGrant(until)
    \/ CommitGrant
    \/ SubTick

(* The worker empties the inbox (BillingInbox!InboxSettles) and reconciles *)
(* every tenant again after BILLING_STALE_AFTER_MS.                        *)
SubFairness ==
    /\ WF_subVars(\E e \in SubEvents : TakeEvent(e))
    /\ WF_subVars(Reconcile)
    /\ \A p \in Syncers : WF_subVars(SyncStep(p))
    /\ WF_subVars(CommitGrant)

SubSpec == SubInit /\ [][SubNext]_subVars /\ SubFairness

-----------------------------------------------------------------------------
(* Only what was paid for counts: neither the access nor the seats of a    *)
(* subscription go beyond a payment, as long as no payment is handled      *)
(* after Stripe has changed again (syncSubscription: access_until and the  *)
(* seat quantity move on with invoice.paid alone).                         *)
OnlyPaidCounts ==
    ~paidFor.late => subRow.until <= paidFor.end /\ subRow.seats <= paidFor.seats

(* The entitlement comes to agree with the rows it is computed from, even  *)
(* when a grant and a sync overlap and the later commit had read older     *)
(* rows: the next reconcile repairs it (EntitlementService.recompute).     *)
EntitlementSettles ==
    <>[](Effective(entRow) = Effective(Recompute(subRow, grantUntil)))

(* A subscription canceled at Stripe ends here and stays ended: not even a *)
(* deletion refused for its date, or a reconcile that had fetched the      *)
(* subscription before, keeps it alive (reconcileTenant).                  *)
CancellationSettles ==
    <>[](stripeSub.status = "canceled" /\ subRow.known => subRow.ended)
=============================================================================
