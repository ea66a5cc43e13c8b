------------------------------ MODULE LeadIntake ------------------------------
(***************************************************************************)
(* Leads sent by other systems.  A request is stored once with a line of   *)
(* the outbox; a timer of every process publishes the outbox to the stream *)
(* and takes messages from it.  The stream (NATS JetStream) drops a second *)
(* copy that comes soon, delivers a message until it is acknowledged, at   *)
(* most MaxDeliver times, and delivers it again when the acknowledgement   *)
(* is late, although the first worker may still be at it.                  *)
(***************************************************************************)
EXTENDS Integers, FiniteSets

CONSTANTS
    Keys,           \* idempotency keys: requests that differ
    PhoneOf,        \* the phone in the request of a key
    Intakers,       \* processes of the API
    NoKey,          \* a process that holds nothing
    MaxDeliver,     \* deliveries of a message (5)
    MaxTries,       \* tries before an event is a dead letter (5)
    MaxPublish,     \* failures before a line of the outbox is given up (5)
    MaxTroubles     \* bound: crashes, late acknowledgements, late copies

ASSUME IntakeConstants == {MaxDeliver, MaxTries} \subseteq Nat \ {0} /\ NoKey \notin Keys

VARIABLES
    event,          \* lead_ingestion_events: status, tries
    outbox,         \* lead_ingestion_outbox: status, failures
    stream,         \* the message of an event: where it is, deliveries
    intaker,        \* what each process publishes, and the event it works on
    intakeLeads,    \* leads created, by phone: how many times
    integrationOn,  \* lead_integrations.status = 'active'
    intakeTrouble   \* what the bound has left; ghost: events that met trouble

intakeVars == <<event, outbox, stream, intaker, intakeLeads, integrationOn, intakeTrouble>>

Ended == {"accepted", "updated", "duplicate"}
NoWork == [key |-> NoKey, phase |-> "idle", tries |-> 0, on |-> TRUE, known |-> FALSE, result |-> "none"]
IntakePhones == {PhoneOf[k] : k \in Keys}

IntakeInit ==
    /\ event = [k \in Keys |-> [status |-> "none", tries |-> 0]]
    /\ outbox = [k \in Keys |-> [status |-> "none", failures |-> 0]]
    /\ stream = [k \in Keys |-> [at |-> "none", deliveries |-> 0]]
    /\ intaker = [i \in Intakers |-> [publishing |-> NoKey, work |-> NoWork]]
    /\ intakeLeads = [p \in IntakePhones |-> 0]
    /\ integrationOn = TRUE
    /\ intakeTrouble = [left |-> MaxTroubles, met |-> {}]

Trouble(ks) == /\ intakeTrouble.left > 0
               /\ intakeTrouble' = [left |-> intakeTrouble.left - 1, met |-> intakeTrouble.met \cup ks]
WorkOf(i) == intaker[i].work
Working(k) == \E i \in Intakers : WorkOf(i).key = k

-----------------------------------------------------------------------------
(* accept(): the event and its line of the outbox, in one transaction.  A  *)
(* request that was seen before changes nothing.                           *)
Accept(k) ==
    /\ integrationOn /\ event[k].status = "none"
    /\ event' = [event EXCEPT ![k].status = "received"]
    /\ outbox' = [outbox EXCEPT ![k].status = "pending"]
    /\ UNCHANGED <<stream, intaker, intakeLeads, integrationOn, intakeTrouble>>

RevokeIntegration ==
    /\ integrationOn /\ integrationOn' = FALSE
    /\ UNCHANGED <<event, outbox, stream, intaker, intakeLeads, intakeTrouble>>

(* flushOutbox(): the pending lines are listed without a claim; two        *)
(* processes may publish the same one.                                     *)
TakeLine(i, k) ==
    /\ intaker[i].publishing = NoKey /\ outbox[k].status = "pending"
    /\ intaker' = [intaker EXCEPT ![i].publishing = k]
    /\ UNCHANGED <<event, outbox, stream, intakeLeads, integrationOn, intakeTrouble>>

(* A copy that comes soon is dropped by the stream; one that comes late is *)
(* a message of its own.                                                   *)
Publish(i) ==
    LET k == intaker[i].publishing IN
    /\ k # NoKey
    /\ \/ stream[k].at = "none" /\ stream' = [stream EXCEPT ![k].at = "ready"]
          /\ UNCHANGED intakeTrouble
       \/ stream[k].at # "none" /\ UNCHANGED <<stream, intakeTrouble>>
       \/ stream[k].at = "gone" /\ stream' = [stream EXCEPT ![k] = [at |-> "ready", deliveries |-> 0]]
          /\ Trouble({})
    /\ outbox' = IF outbox[k].status = "pending" THEN [outbox EXCEPT ![k].status = "published"] ELSE outbox
    /\ intaker' = [intaker EXCEPT ![i].publishing = NoKey]
    /\ UNCHANGED <<event, intakeLeads, integrationOn>>

(* The failure is written whatever became of the line meanwhile.           *)
PublishFails(i) ==
    LET k == intaker[i].publishing IN
    /\ k # NoKey
    /\ outbox' = [outbox EXCEPT ![k] = [status |-> IF @.failures >= MaxPublish THEN "failed" ELSE "pending",
                                        failures |-> IF @.failures >= MaxPublish THEN @.failures ELSE @.failures + 1]]
    /\ intaker' = [intaker EXCEPT ![i].publishing = NoKey]
    /\ UNCHANGED <<event, stream, intakeLeads, integrationOn, intakeTrouble>>

-----------------------------------------------------------------------------
Deliver(i, k) ==
    /\ WorkOf(i).key = NoKey /\ stream[k].at = "ready" /\ stream[k].deliveries < MaxDeliver
    /\ stream' = [stream EXCEPT ![k] = [at |-> "out", deliveries |-> @.deliveries + 1]]
    /\ intaker' = [intaker EXCEPT ![i].work = [NoWork EXCEPT !.key = k, !.phase = "got"]]
    /\ UNCHANGED <<event, outbox, intakeLeads, integrationOn, intakeTrouble>>

(* Wrong on purpose: an event that ended is worked on again.               *)
WorthWorkAlways(k) == event[k].status # "none"

WorthWork(k) == event[k].status \notin Ended

Acknowledged(k) == [stream EXCEPT ![k].at = "gone"]
SentBack(k) == [stream EXCEPT ![k].at = IF stream[k].deliveries < MaxDeliver THEN "ready" ELSE "gone"]

(* processEvent() reads the event and its integration, and marks it.       *)
ReadEvent(i) ==
    LET k == WorkOf(i).key IN
    /\ WorkOf(i).phase = "got"
    /\ IF WorthWork(k)
       THEN /\ event' = [event EXCEPT ![k].status = "processing",
                                      ![k].tries = IF @ < MaxTries THEN @ + 1 ELSE @]
            /\ intaker' = [intaker EXCEPT ![i].work = [key |-> k, phase |-> "read",
                   tries |-> event[k].tries + 1, on |-> integrationOn,
                   known |-> intakeLeads[PhoneOf[k]] > 0, result |-> "none"]]
            /\ UNCHANGED stream
       ELSE /\ stream' = Acknowledged(k)
            /\ intaker' = [intaker EXCEPT ![i].work = NoWork]
            /\ UNCHANGED event
    /\ UNCHANGED <<outbox, intakeLeads, integrationOn, intakeTrouble>>

(* Wrong on purpose: the lead is looked for before the transaction.        *)
KnownBefore(i) == WorkOf(i).known

KnownLead(i) == intakeLeads[PhoneOf[WorkOf(i).key]] > 0

(* upsertLead(): under the locks of the company and of the leads, the lead *)
(* is looked for and updated, passed over or created.                      *)
UpsertLead(i) ==
    LET k == WorkOf(i).key IN
    /\ WorkOf(i).phase = "read" /\ WorkOf(i).on
    /\ \E result \in IF KnownLead(i) THEN {"updated", "duplicate"} ELSE {"accepted"} :
           intaker' = [intaker EXCEPT ![i].work.phase = "saved", ![i].work.result = result]
    /\ intakeLeads' = IF KnownLead(i) THEN intakeLeads ELSE [intakeLeads EXCEPT ![PhoneOf[k]] = @ + 1]
    /\ UNCHANGED <<event, outbox, stream, integrationOn, intakeTrouble>>

EventEnds(i) ==
    LET k == WorkOf(i).key IN
    /\ WorkOf(i).phase = "saved"
    /\ event' = [event EXCEPT ![k].status = WorkOf(i).result]
    /\ stream' = Acknowledged(k)
    /\ intaker' = [intaker EXCEPT ![i].work = NoWork]
    /\ UNCHANGED <<outbox, intakeLeads, integrationOn, intakeTrouble>>

(* Wrong on purpose: one try more than the stream delivers.                *)
OutOfTriesLate(tries) == tries > MaxTries

OutOfTries(tries) == tries >= MaxTries

(* The revoked integration, the limit of leads and an inactive folder are  *)
(* final at once; any other error is final after the last try.  The        *)
(* message is sent back in both cases.                                     *)
EventFails(i, final) ==
    LET k == WorkOf(i).key IN
    /\ WorkOf(i).phase = "read" /\ (~WorkOf(i).on => final)
    /\ event' = [event EXCEPT ![k].status =
           IF final \/ OutOfTries(WorkOf(i).tries) THEN "dead_letter" ELSE "failed"]
    /\ stream' = SentBack(k)
    /\ intaker' = [intaker EXCEPT ![i].work = NoWork]
    /\ UNCHANGED <<outbox, intakeLeads, integrationOn, intakeTrouble>>

-----------------------------------------------------------------------------
(* The acknowledgement is late: the work took longer than ack_wait.        *)
AckLate(k) ==
    /\ stream[k].at = "out" /\ Working(k) /\ Trouble({k})
    /\ stream' = SentBack(k)
    /\ UNCHANGED <<event, outbox, intaker, intakeLeads, integrationOn>>

(* The process died with the message: it comes again after ack_wait.       *)
AckNever(k) ==
    /\ stream[k].at = "out" /\ ~Working(k)
    /\ stream' = SentBack(k)
    /\ UNCHANGED <<event, outbox, intaker, intakeLeads, integrationOn, intakeTrouble>>

IntakerDies(i) ==
    /\ intaker[i] # [publishing |-> NoKey, work |-> NoWork]
    /\ Trouble({WorkOf(i).key} \ {NoKey})
    /\ intaker' = [intaker EXCEPT ![i] = [publishing |-> NoKey, work |-> NoWork]]
    /\ stream' = IF intaker[i].publishing # NoKey /\ stream[intaker[i].publishing].at = "none"
                 THEN [stream EXCEPT ![intaker[i].publishing].at = "ready"] ELSE stream
    /\ UNCHANGED <<event, outbox, intakeLeads, integrationOn>>

IntakerStep(i) ==
    \/ Publish(i) \/ PublishFails(i) \/ ReadEvent(i) \/ UpsertLead(i) \/ EventEnds(i)
    \/ \E final \in BOOLEAN : EventFails(i, final)
    \/ \E k \in Keys : TakeLine(i, k) \/ Deliver(i, k)

IntakeNext ==
    \/ \E k \in Keys : Accept(k) \/ AckLate(k) \/ AckNever(k)
    \/ RevokeIntegration
    \/ \E i \in Intakers : IntakerStep(i) \/ IntakerDies(i)

(* The timer of each process keeps publishing and consuming, and the       *)
(* stream delivers again what was not acknowledged.                        *)
IntakeFairness ==
    /\ \A i \in Intakers : WF_intakeVars(IntakerStep(i))
    /\ \A k \in Keys : WF_intakeVars(AckNever(k)) /\ WF_intakeVars(\E i \in Intakers : Deliver(i, k))
                       /\ WF_intakeVars(\E i \in Intakers : TakeLine(i, k))

IntakeSpec == IntakeInit /\ [][IntakeNext]_intakeVars /\ IntakeFairness

-----------------------------------------------------------------------------
IntakeTypeOK ==
    /\ \A k \in Keys : /\ event[k].status \in Ended \cup {"none", "received", "processing", "failed", "dead_letter"}
                       /\ stream[k].deliveries \in 0..MaxDeliver
                       /\ event[k].status = "none" <=> outbox[k].status = "none"
    /\ \A i \in Intakers : WorkOf(i).key \in Keys \cup {NoKey}

(* A lead is created once for a phone, however many requests carry it and  *)
(* however often the same event is delivered (upsertLead).                 *)
LeadCreatedOnce == \A p \in IntakePhones : intakeLeads[p] <= 1

(* What a request became is not changed by a second delivery, unless two   *)
(* workers had it at once or one died with it.                             *)
AnswerKept ==
    [][\A k \in Keys \ intakeTrouble.met : event[k].status \in Ended => event'[k] = event[k]]_intakeVars

(* A request that was accepted comes to an end: a lead or a dead letter,   *)
(* unless the outbox gave its line up or a worker was lost with it.        *)
IntakeSettles ==
    \A k \in Keys : []<>(\/ event[k].status \in Ended \cup {"none", "dead_letter"}
                        \/ outbox[k].status = "failed" \/ k \in intakeTrouble.met)
=============================================================================
