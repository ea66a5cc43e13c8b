---------------------------- MODULE WebhookPipeline ----------------------------
(***************************************************************************)
(* Outbound webhooks: an analytics event is recorded with a line of the    *)
(* outbox, published to the stream, and consumed: one delivery row for     *)
(* every active endpoint.  The rows are posted by a timer that claims      *)
(* nothing and may overlap itself; MaxHookPosts failures are the end of a  *)
(* row.  The stream delivers again what was not acknowledged.              *)
(***************************************************************************)
EXTENDS Integers, FiniteSets

CONSTANTS
    HookEvents,     \* analytics events
    Endpoints,      \* rows of outbound_webhook_endpoints
    HookConsumers,  \* processes that take messages
    HookRuns,       \* runs of the timer of deliveries, of any process
    MaxHookDeliver, \* deliveries of a message (5)
    MaxHookPublish, \* failures before a line of the outbox is given up (5)
    MaxHookPosts,   \* posts of a row (5)
    MaxHookMishaps  \* bound: deaths and failed queries

ASSUME HookConstants == {MaxHookDeliver, MaxHookPosts} \subseteq Nat \ {0}

VARIABLES
    hookOutbox,     \* analytics_event_outbox: status, failures; ghost: who should get it
    hookMessage,    \* the message of an event: where it is, deliveries
    endpoint,       \* none, active, revoked
    delivery,       \* outbound_webhook_deliveries: status, attempts
    consuming,      \* of each consumer: its event and the endpoints left
    hookRun,        \* of each run: the rows read and the one being posted
    hookMishaps

hookVars == <<hookOutbox, hookMessage, endpoint, delivery, consuming, hookRun, hookMishaps>>

NoMessage == [events |-> {}, left |-> {}]
NoRun == [rows |-> {}, posting |-> {}]

HookInit ==
    /\ hookOutbox = [e \in HookEvents |-> [status |-> "none", failures |-> 0, owed |-> {}]]
    /\ hookMessage = [e \in HookEvents |-> [at |-> "none", deliveries |-> 0]]
    /\ endpoint = [h \in Endpoints |-> "none"]
    /\ delivery = [d \in HookEvents \X Endpoints |-> [status |-> "none", attempts |-> 0]]
    /\ consuming = [c \in HookConsumers |-> NoMessage] /\ hookRun = [r \in HookRuns |-> NoRun]
    /\ hookMishaps = MaxHookMishaps

HookMishap == hookMishaps > 0 /\ hookMishaps' = hookMishaps - 1
ActiveEndpoints == {h \in Endpoints : endpoint[h] = "active"}

-----------------------------------------------------------------------------
CreateEndpoint(h) ==
    /\ endpoint[h] = "none" /\ endpoint' = [endpoint EXCEPT ![h] = "active"]
    /\ UNCHANGED <<hookOutbox, hookMessage, delivery, consuming, hookRun, hookMishaps>>

RevokeEndpoint(h) ==
    /\ endpoint[h] = "active" /\ endpoint' = [endpoint EXCEPT ![h] = "revoked"]
    /\ UNCHANGED <<hookOutbox, hookMessage, delivery, consuming, hookRun, hookMishaps>>

(* recordInExecutor(): the event and its line; a key that was seen before  *)
(* changes nothing.                                                        *)
RecordAnalytics(e) ==
    /\ hookOutbox[e].status = "none"
    /\ hookOutbox' = [hookOutbox EXCEPT ![e].status = "pending", ![e].owed = ActiveEndpoints]
    /\ UNCHANGED <<hookMessage, endpoint, delivery, consuming, hookRun, hookMishaps>>

(* flushOutbox(): the stream drops a second copy; a process that dies      *)
(* before the line is marked leaves it pending.                            *)
PublishAnalytics(e) ==
    /\ hookOutbox[e].status = "pending"
    /\ hookMessage' = IF hookMessage[e].at = "none" THEN [hookMessage EXCEPT ![e].at = "ready"] ELSE hookMessage
    /\ \/ hookOutbox' = [hookOutbox EXCEPT ![e].status = "published"] /\ UNCHANGED hookMishaps
       \/ HookMishap /\ UNCHANGED hookOutbox
    /\ UNCHANGED <<endpoint, delivery, consuming, hookRun>>

PublishAnalyticsFails(e) ==
    /\ hookOutbox[e].status = "pending"
    /\ hookOutbox' =
           IF hookOutbox[e].failures >= MaxHookPublish THEN [hookOutbox EXCEPT ![e].status = "failed"]
           ELSE [hookOutbox EXCEPT ![e].failures = @ + 1]
    /\ UNCHANGED <<hookMessage, endpoint, delivery, consuming, hookRun, hookMishaps>>

-----------------------------------------------------------------------------
Sent(e, at) == [hookMessage EXCEPT ![e].at = at]
Again(e) == Sent(e, IF hookMessage[e].deliveries < MaxHookDeliver THEN "ready" ELSE "gone")

(* enqueueForEvent() reads the active endpoints once ...                   *)
TakeMessage(c, e) ==
    /\ consuming[c] = NoMessage /\ hookMessage[e].at = "ready"
    /\ hookMessage' = [hookMessage EXCEPT ![e] = [at |-> "out", deliveries |-> @.deliveries + 1]]
    /\ consuming' = [consuming EXCEPT ![c] = [events |-> {e}, left |-> ActiveEndpoints]]
    /\ UNCHANGED <<hookOutbox, endpoint, delivery, hookRun, hookMishaps>>

(* ... and inserts their rows one by one; a row that is there stays.       *)
Enqueue(c, e, h) ==
    /\ e \in consuming[c].events /\ h \in consuming[c].left
    /\ delivery' = IF delivery[<<e, h>>].status = "none"
                   THEN [delivery EXCEPT ![<<e, h>>].status = "pending"] ELSE delivery
    /\ consuming' = [consuming EXCEPT ![c].left = @ \ {h}]
    /\ UNCHANGED <<hookOutbox, hookMessage, endpoint, hookRun, hookMishaps>>

(* Wrong on purpose: the message is acknowledged before the rows are in.   *)
MayAckEarly(c) == TRUE

MayAck(c) == consuming[c].left = {}

Acknowledge(c, e) ==
    /\ e \in consuming[c].events /\ MayAck(c)
    /\ hookMessage' = Sent(e, "gone")
    /\ consuming' = [consuming EXCEPT ![c] = NoMessage]
    /\ UNCHANGED <<hookOutbox, endpoint, delivery, hookRun, hookMishaps>>

(* A failed query: nak().  A death: the stream waits 60 s.                 *)
ConsumeFails(c, e) ==
    /\ e \in consuming[c].events /\ HookMishap
    /\ hookMessage' \in {Again(e), hookMessage}
    /\ consuming' = [consuming EXCEPT ![c] = NoMessage]
    /\ UNCHANGED <<hookOutbox, endpoint, delivery, hookRun>>

MessageReturns(e) ==
    /\ hookMessage[e].at = "out" /\ \A c \in HookConsumers : e \notin consuming[c].events
    /\ hookMessage' = Again(e)
    /\ UNCHANGED <<hookOutbox, endpoint, delivery, consuming, hookRun, hookMishaps>>

-----------------------------------------------------------------------------
ReadyRows == {d \in DOMAIN delivery : delivery[d].status = "pending"}

(* flush() reads what is due and claims nothing.  The wait after a failure *)
(* is left out: a pending row may be due at any time.                      *)
ReadRows(r) ==
    /\ hookRun[r] = NoRun /\ ReadyRows # {}
    /\ hookRun' = [hookRun EXCEPT ![r].rows = {[row |-> d, attempt |-> delivery[d].attempts + 1] : d \in ReadyRows}]
    /\ UNCHANGED <<hookOutbox, hookMessage, endpoint, delivery, consuming, hookMishaps>>

(* deliver(): the endpoint is read; a revoked one is not posted to, and    *)
(* its row counts as delivered.                                            *)
BeginPost(r, t) ==
    /\ t \in hookRun[r].rows /\ hookRun[r].posting = {}
    /\ hookRun' = [hookRun EXCEPT ![r] = [rows |-> @.rows \ {t}, posting |-> {t}]]
    /\ UNCHANGED <<hookOutbox, hookMessage, endpoint, delivery, consuming, hookMishaps>>

(* Wrong on purpose: the outcome is written whatever the row is by then.   *)
StillPendingAlways(d) == TRUE

StillPending(d) == delivery[d].status = "pending"

EndPost(r, t, to) ==
    /\ t \in hookRun[r].posting
    /\ delivery' = IF StillPending(t.row) THEN [delivery EXCEPT ![t.row] = to] ELSE delivery
    /\ hookRun' = [hookRun EXCEPT ![r].posting = {}]

PostArrives(r, t) ==
    /\ EndPost(r, t, [status |-> "delivered", attempts |-> t.attempt])
    /\ UNCHANGED <<hookOutbox, hookMessage, endpoint, consuming, hookMishaps>>

(* Only an endpoint that was active can fail.                              *)
PostIsRefused(r, t) ==
    /\ endpoint[t.row[2]] # "none"
    /\ EndPost(r, t, [status |-> IF t.attempt >= MaxHookPosts THEN "dead_letter" ELSE "pending",
                      attempts |-> t.attempt])
    /\ UNCHANGED <<hookOutbox, hookMessage, endpoint, consuming, hookMishaps>>

(* The process dies, or the write of the outcome fails: the rest of the    *)
(* batch is dropped.                                                       *)
RunDies(r) ==
    /\ hookRun[r] # NoRun /\ HookMishap
    /\ hookRun' = [hookRun EXCEPT ![r] = NoRun]
    /\ UNCHANGED <<hookOutbox, hookMessage, endpoint, delivery, consuming>>

ConsumerStep(c) ==
    \E e \in HookEvents : TakeMessage(c, e) \/ Acknowledge(c, e) \/ \E h \in Endpoints : Enqueue(c, e, h)

RunStep(r) ==
    \/ ReadRows(r)
    \/ \E t \in hookRun[r].rows : BeginPost(r, t)
    \/ \E t \in hookRun[r].posting : PostArrives(r, t) \/ PostIsRefused(r, t)

PublisherStep(e) == PublishAnalytics(e) \/ PublishAnalyticsFails(e)

HookNext ==
    \/ \E h \in Endpoints : CreateEndpoint(h) \/ RevokeEndpoint(h)
    \/ \E e \in HookEvents : RecordAnalytics(e) \/ PublisherStep(e) \/ MessageReturns(e)
    \/ \E c \in HookConsumers : ConsumerStep(c) \/ \E e \in HookEvents : ConsumeFails(c, e)
    \/ \E r \in HookRuns : RunStep(r) \/ RunDies(r)

(* Timers keep running, posts come back (10 s), and the stream delivers    *)
(* again what was not acknowledged.                                        *)
HookFairness ==
    /\ \A e \in HookEvents : WF_hookVars(PublisherStep(e)) /\ WF_hookVars(MessageReturns(e))
    /\ \A c \in HookConsumers : WF_hookVars(ConsumerStep(c))
    /\ \A r \in HookRuns : WF_hookVars(RunStep(r))

HookSpec == HookInit /\ [][HookNext]_hookVars /\ HookFairness

-----------------------------------------------------------------------------
HookTypeOK ==
    /\ \A e \in HookEvents : hookMessage[e].deliveries \in 0..MaxHookDeliver
    /\ \A d \in DOMAIN delivery : /\ delivery[d].status \in {"none", "pending", "delivered", "dead_letter"}
                                  /\ delivery[d].attempts \in 0..MaxHookPosts
                                  /\ delivery[d].status = "none" => delivery[d].attempts = 0

(* A delivery that ended stays as it ended, although two runs may post the *)
(* same row and one of them fails after the other succeeded.               *)
HookEndStays ==
    [][\A d \in DOMAIN delivery :
        delivery[d].status \in {"delivered", "dead_letter"} => delivery'[d].status = delivery[d].status]_hookVars

(* An event reaches every endpoint that was active when it was recorded    *)
(* and is not revoked: delivered, or a dead letter after its tries.  It is *)
(* lost only when the outbox or the stream gave it up.                     *)
HookReachesAll ==
    <>[](\A e \in HookEvents : \A h \in hookOutbox[e].owed :
            \/ delivery[<<e, h>>].status \in {"delivered", "dead_letter"}
            \/ endpoint[h] = "revoked" \/ hookOutbox[e].status = "failed"
            \/ hookMessage[e] = [at |-> "gone", deliveries |-> MaxHookDeliver])
=============================================================================
