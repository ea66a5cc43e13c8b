--------------------------- MODULE BillingChanges ---------------------------
(***************************************************************************)
(* Changes of the seats and of the plan of a running subscription: asked   *)
(* for through the API, told to Stripe at once (an increase) or by the     *)
(* worker when the period ends (a reduction), canceled meanwhile, and      *)
(* confirmed by the next paid invoice.  The preview, the row, each call to *)
(* Stripe and the last UPDATE are separate steps, and the process may die  *)
(* between any two of them.  Stripe is external: a base plan and a number  *)
(* of extra seats, changed by calls that carry an idempotency key.         *)
(***************************************************************************)
EXTENDS Integers, FiniteSets

CONSTANTS
    Changes,        \* ids of requested changes
    Totals,         \* totals of SDRs a request may ask for
    IncludedIn,     \* plan -> seats its price includes
    RankOf,         \* plan -> sort_order
    UsedSeats,      \* SDRs in use or invited
    MaxFaults       \* bound: crashes and failed calls

ASSUME ChangesConstants ==
    /\ Totals \subseteq Nat \ {0} /\ UsedSeats \in Nat /\ MaxFaults \in Nat
    /\ \A p \in DOMAIN IncludedIn : IncludedIn[p] \in Nat

Plans == DOMAIN IncludedIn

VARIABLES
    chgRow,         \* tenant_billing_changes
    chgTask,        \* the request, or the worker, at work on a change
    stripePlan,     \* at Stripe: plan and extra seats
    paidPlan,       \* in the database: plan and extra seats that were paid
    keysSeen,       \* idempotency keys Stripe has executed
    periodOver,     \* the scheduled changes are due
    subEnded,       \* the subscription was deleted at Stripe
    chgFaults,      \* what the bound has left
    chgGhost        \* ghost: how often Stripe executed each change, and with which
                    \* number of seats; the changes whose process died or failed

chgVars == <<chgRow, chgTask, stripePlan, paidPlan, keysSeen, periodOver, subEnded, chgFaults,
             chgGhost>>

Open == {"pending_payment", "scheduled"}
NoChange == [status |-> "none"]
NoTask == [pc |-> "idle"]
PlanStates == [plan : Plans, extra : Nat]

ChangesTypeOK ==
    /\ \A c \in Changes : chgRow[c].status \in Open \cup {"none", "applied", "canceled", "failed"}
    /\ \A c \in Changes : chgTask[c].pc \in {"idle", "checked", "base", "seat", "mark", "over"}
    /\ stripePlan \in PlanStates /\ paidPlan \in PlanStates
    /\ keysSeen \subseteq Changes \X {"base", "seat"} /\ chgFaults \in 0..MaxFaults

ChangesInit ==
    /\ chgRow = [c \in Changes |-> NoChange] /\ chgTask = [c \in Changes |-> NoTask]
    /\ \E p \in Plans : stripePlan = [plan |-> p, extra |-> 1]
    /\ paidPlan = stripePlan
    /\ keysSeen = {} /\ periodOver = FALSE /\ subEnded = FALSE /\ chgFaults = MaxFaults
    /\ chgGhost = [done |-> [c \in Changes |-> 0], told |-> [c \in Changes |-> -1], broken |-> {}]

Above(n, m) == IF n > m THEN n - m ELSE 0

-----------------------------------------------------------------------------
(* previewSeatChange() and the look for an open change.  A target that     *)
(* equals the current total counts as immediate.                           *)
AskSeats(c, total) ==
    /\ chgTask[c] = NoTask /\ ~subEnded /\ total >= UsedSeats
    /\ \A d \in Changes : chgRow[d].status \notin Open
    /\ chgTask' = [chgTask EXCEPT ![c] = [pc |-> "checked", kind |-> "seat_change",
           plan |-> paidPlan.plan, to |-> total,
           extra |-> Above(total, IncludedIn[paidPlan.plan]),
           later |-> total < IncludedIn[paidPlan.plan] + paidPlan.extra]]
    /\ UNCHANGED <<chgRow, stripePlan, paidPlan, keysSeen, periodOver, subEnded, chgFaults, chgGhost>>

(* previewPlanChange(): a plan of a lower rank waits for the period's end. *)
AskPlan(c, plan, total) ==
    /\ chgTask[c] = NoTask /\ ~subEnded /\ plan # paidPlan.plan
    /\ total >= UsedSeats /\ total >= IncludedIn[plan]
    /\ \A d \in Changes : chgRow[d].status \notin Open
    /\ chgTask' = [chgTask EXCEPT ![c] = [pc |-> "checked", kind |-> "plan_change",
           plan |-> plan, to |-> total, extra |-> Above(total, IncludedIn[plan]),
           later |-> RankOf[plan] < RankOf[paidPlan.plan]]]
    /\ UNCHANGED <<chgRow, stripePlan, paidPlan, keysSeen, periodOver, subEnded, chgFaults, chgGhost>>

(* Wrong on purpose: no index stands behind the look for an open change.   *)
MayInsertAnyway == TRUE

(* The unique index on the open changes of a tenant.                       *)
MayInsert == \A d \in Changes : chgRow[d].status \notin Open

FirstCall(kind) == IF kind = "plan_change" THEN "base" ELSE "seat"

InsertChange(c) ==
    /\ chgTask[c].pc = "checked"
    /\ LET t == chgTask[c] IN
       IF ~MayInsert
       THEN chgTask' = [chgTask EXCEPT ![c] = [pc |-> "over"]] /\ UNCHANGED chgRow
       ELSE /\ chgRow' = [chgRow EXCEPT ![c] = [kind |-> t.kind, plan |-> t.plan, to |-> t.to,
                             status |-> IF t.later THEN "scheduled" ELSE "pending_payment"]]
            /\ chgTask' = [chgTask EXCEPT ![c] = IF t.later THEN [pc |-> "over"]
                              ELSE [pc |-> FirstCall(t.kind), kind |-> t.kind, plan |-> t.plan,
                                    extra |-> t.extra, due |-> FALSE]]
    /\ UNCHANGED <<stripePlan, paidPlan, keysSeen, periodOver, subEnded, chgFaults, chgGhost>>

(* The worker takes a due change; what it writes as the extra seats of a   *)
(* seat change is the total that was asked for.                            *)
ApplyScheduled(c) ==
    /\ periodOver /\ chgRow[c].status = "scheduled" /\ chgTask[c].pc = "over"
    /\ LET r == chgRow[c] IN
       IF r.kind = "plan_change" /\ UsedSeats > r.to
       THEN /\ chgRow' = [chgRow EXCEPT ![c].status = "canceled"] /\ UNCHANGED chgTask
       ELSE /\ chgTask' = [chgTask EXCEPT ![c] = [pc |-> FirstCall(r.kind), kind |-> r.kind,
                   plan |-> r.plan, due |-> TRUE,
                   extra |-> IF r.kind = "plan_change" THEN Above(r.to, IncludedIn[r.plan]) ELSE r.to]]
            /\ UNCHANGED chgRow
    /\ UNCHANGED <<stripePlan, paidPlan, keysSeen, periodOver, subEnded, chgFaults, chgGhost>>

(* Wrong on purpose: every attempt is a new request to Stripe.             *)
ReplayedNever(key) == FALSE

(* A key that Stripe has seen changes nothing a second time.               *)
Replayed(key) == key \in keysSeen

(* Nothing can be changed of a deleted subscription.                       *)
StripeAnswers(key) == ~subEnded \/ Replayed(key)

CallBase(c) ==
    /\ chgTask[c].pc = "base" /\ StripeAnswers(<<c, "base">>)
    /\ chgTask' = [chgTask EXCEPT ![c].pc = "seat"]
    /\ stripePlan' = IF Replayed(<<c, "base">>) THEN stripePlan
                     ELSE [stripePlan EXCEPT !.plan = chgTask[c].plan]
    /\ keysSeen' = keysSeen \cup {<<c, "base">>}
    /\ UNCHANGED <<chgRow, paidPlan, periodOver, subEnded, chgFaults, chgGhost>>

CallSeat(c) ==
    /\ chgTask[c].pc = "seat" /\ StripeAnswers(<<c, "seat">>)
    /\ chgTask' = [chgTask EXCEPT ![c] = [pc |-> IF @.due THEN "mark" ELSE "over"]]
    /\ IF Replayed(<<c, "seat">>) THEN UNCHANGED <<stripePlan, chgGhost>>
       ELSE /\ stripePlan' = [stripePlan EXCEPT !.extra = chgTask[c].extra]
            /\ chgGhost' = [chgGhost EXCEPT !.done[c] = @ + 1, !.told[c] = chgTask[c].extra]
    /\ keysSeen' = keysSeen \cup {<<c, "seat">>}
    /\ UNCHANGED <<chgRow, paidPlan, periodOver, subEnded, chgFaults>>

(* A call fails: the row says so, whatever became of it meanwhile.         *)
CallFails(c) ==
    /\ chgTask[c].pc \in {"base", "seat"} /\ (chgFaults > 0 \/ subEnded)
    /\ chgRow' = [chgRow EXCEPT ![c].status = "failed"]
    /\ chgTask' = [chgTask EXCEPT ![c] = [pc |-> "over"]]
    /\ chgFaults' = IF subEnded THEN chgFaults ELSE chgFaults - 1
    /\ UNCHANGED <<stripePlan, paidPlan, keysSeen, periodOver, subEnded, chgGhost>>

(* Wrong on purpose: the mark of the worker revives a canceled change.     *)
MarkedAny(row) == [row EXCEPT !.status = "pending_payment"]

Marked(row) == IF row.status = "scheduled" THEN [row EXCEPT !.status = "pending_payment"] ELSE row

MarkPending(c) ==
    /\ chgTask[c].pc = "mark"
    /\ chgRow' = [chgRow EXCEPT ![c] = Marked(@)]
    /\ chgTask' = [chgTask EXCEPT ![c] = [pc |-> "over"]]
    /\ UNCHANGED <<stripePlan, paidPlan, keysSeen, periodOver, subEnded, chgFaults, chgGhost>>

(* The process dies between two steps; a scheduled change is due again.    *)
ProcessDies(c) ==
    /\ chgTask[c].pc \in {"base", "seat", "mark"} /\ chgFaults > 0
    /\ chgTask' = [chgTask EXCEPT ![c] = [pc |-> "over"]]
    /\ chgFaults' = chgFaults - 1
    /\ chgGhost' = [chgGhost EXCEPT !.broken = @ \cup {c}]
    /\ UNCHANGED <<chgRow, stripePlan, paidPlan, keysSeen, periodOver, subEnded>>

CancelPending(c) ==
    /\ chgRow[c].status = "scheduled"
    /\ chgRow' = [chgRow EXCEPT ![c].status = "canceled"]
    /\ UNCHANGED <<chgTask, stripePlan, paidPlan, keysSeen, periodOver, subEnded, chgFaults, chgGhost>>

(* Wrong on purpose: a payment also settles what is only scheduled.        *)
WaitsOrScheduled(row) == row.status \in Open

WaitsForPayment(row) == row.status = "pending_payment"

(* invoice.paid: what Stripe has is now paid, and every change that waited *)
(* for a payment is applied.                                               *)
InvoicePaid ==
    /\ paidPlan # stripePlan \/ \E c \in Changes : WaitsForPayment(chgRow[c])
    /\ paidPlan' = stripePlan
    /\ chgRow' = [c \in Changes |-> IF WaitsForPayment(chgRow[c])
                                    THEN [chgRow[c] EXCEPT !.status = "applied"] ELSE chgRow[c]]
    /\ chgGhost' = [chgGhost EXCEPT !.broken = @ \cup {c \in Changes : chgTask[c].pc \in {"base", "seat"}}]
    /\ UNCHANGED <<chgTask, stripePlan, keysSeen, periodOver, subEnded, chgFaults>>

(* customer.subscription.deleted: what is open is canceled, and a request  *)
(* that already looked at the subscription goes on.                        *)
SubscriptionDeleted ==
    /\ ~subEnded /\ subEnded' = TRUE
    /\ chgRow' = [c \in Changes |-> IF chgRow[c].status \in Open
                                    THEN [chgRow[c] EXCEPT !.status = "canceled"] ELSE chgRow[c]]
    /\ UNCHANGED <<chgTask, stripePlan, paidPlan, keysSeen, periodOver, chgFaults, chgGhost>>

PeriodEnds ==
    /\ periodOver' = ~periodOver
    /\ UNCHANGED <<chgRow, chgTask, stripePlan, paidPlan, keysSeen, subEnded, chgFaults, chgGhost>>

ChangeStep(c) ==
    \/ InsertChange(c) \/ ApplyScheduled(c) \/ CallBase(c) \/ CallSeat(c) \/ CallFails(c)
    \/ MarkPending(c) \/ ProcessDies(c) \/ CancelPending(c)

ChangesNext ==
    \/ \E c \in Changes, n \in Totals : AskSeats(c, n) \/ \E p \in Plans : AskPlan(c, p, n)
    \/ \E c \in Changes : ChangeStep(c)
    \/ InvoicePaid
    \/ SubscriptionDeleted
    \/ PeriodEnds

ChangesSpec == ChangesInit /\ [][ChangesNext]_chgVars

-----------------------------------------------------------------------------
(* Two requests that both saw no open change leave one open: the index     *)
(* behind changeSeats() and changePlan(), and a cancellation that races    *)
(* the worker must not be undone by it.                                    *)
OneChangeOpen ==
    Cardinality({c \in Changes : chgRow[c].status \in Open}) <= 1

(* A change reaches Stripe once, however often a worker that died starts   *)
(* over: the idempotency key of a scheduled change names the change.       *)
ToldOnce == \A c \in Changes : chgGhost.done[c] <= 1

(* A canceled or failed change does not come back.                         *)
ClosedStaysClosed ==
    [][\A c \in Changes : chgRow[c].status \in {"canceled", "applied"}
           => chgRow'[c].status \in {"canceled", "applied", "failed"}]_chgVars

(* What is applied was told to Stripe, unless the process died or an       *)
(* invoice was paid between the row and the call.                          *)
AppliedWasTold ==
    \A c \in Changes \ chgGhost.broken :
        chgRow[c].status = "applied" => chgGhost.done[c] > 0

(* docs/plano-planos-entitlements-seats.md:45 has the limit as the SDRs    *)
(* included plus the seats paid, so Stripe is told the extra seats.        *)
ScheduledSeatsExact ==
    \A c \in Changes :
        chgGhost.told[c] >= 0 /\ chgRow[c].kind = "seat_change"
        => chgGhost.told[c] = Above(chgRow[c].to, IncludedIn[chgRow[c].plan])

(* The ledger of changes: at most one open, each told to Stripe once, and  *)
(* none applied that was not (changeSeats, changePlan, applyScheduled...). *)
ChangesInv == ChangesTypeOK /\ OneChangeOpen /\ ToldOnce /\ AppliedWasTold
=============================================================================
