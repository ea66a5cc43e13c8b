------------------------------ MODULE MCDeliveries ------------------------------
(* The components that must get something done in the end, one scene each: *)
(* the scene is chosen at the start, its component runs and the variables  *)
(* of the others keep their first values.                                  *)
EXTENDS BillingInbox, SubscriptionSync, LeadIntake, CrmOutbox, WebhookPipeline,
        InviteMail, LoginGuard, DialQueue, MetricsView, OperationsView

CONSTANT Scenes

VARIABLE scene

others(s) ==
    /\ s # "inbox" => UNCHANGED inboxVars
    /\ s # "sync" => UNCHANGED subVars
    /\ s # "intake" => UNCHANGED intakeVars
    /\ s # "crm" => UNCHANGED crmVars
    /\ s # "hook" => UNCHANGED hookVars
    /\ s # "mail" => UNCHANGED mailVars
    /\ s # "login" => UNCHANGED loginVars
    /\ s # "queue" => UNCHANGED queueVars
    /\ s # "metrics" => UNCHANGED viewVars
    /\ s # "operations" => UNCHANGED opsVars

deliveryVars == <<scene, inboxVars, subVars, intakeVars, crmVars, hookVars, mailVars, loginVars,
                  queueVars, viewVars, opsVars>>

SamePhone == [k \in Keys |-> 1]
ThreeLeads == <<"a1", "a2", "b1">>
TwoFolders == <<"A", "B">>
InFolders == [a1 |-> "A", a2 |-> "A", b1 |-> "B"]

Init ==
    /\ scene \in Scenes
    /\ InboxInit /\ SubInit /\ IntakeInit /\ CrmInit /\ HookInit /\ MailInit /\ LoginInit
    /\ QueueInit /\ MetricsViewInit /\ OpsInit
    /\ scene # "metrics" => filters = "all"

Next ==
    /\ UNCHANGED scene
    /\ others(scene)
    /\ \/ scene = "inbox" /\ InboxNext
       \/ scene = "sync" /\ SubNext
       \/ scene = "intake" /\ IntakeNext
       \/ scene = "crm" /\ CrmNext
       \/ scene = "hook" /\ HookNext
       \/ scene = "mail" /\ MailNext
       \/ scene = "login" /\ LoginNext
       \/ scene = "queue" /\ QueueNext
       \/ scene = "metrics" /\ MetricsViewNext
       \/ scene = "operations" /\ OpsNext

(* The fairness of each component.  The scenes exclude each other, so one  *)
(* condition on a disjunction over scenes is a condition in each of them.  *)
sceneVars ==
    CASE scene = "inbox" -> inboxVars [] scene = "sync" -> subVars [] scene = "intake" -> intakeVars
      [] scene = "crm" -> crmVars [] scene = "hook" -> hookVars [] scene = "mail" -> mailVars
      [] scene = "login" -> loginVars [] scene = "queue" -> queueVars
      [] scene = "metrics" -> viewVars [] scene = "operations" -> opsVars

Syncer(p) == IF p = "p1" THEN "worker" ELSE "reconciler"

ProcessTurn(p) ==
    CASE scene = "inbox" -> WorkerStep(p) [] scene = "intake" -> IntakerStep(p)
      [] scene = "crm" -> FlusherStep(p) [] scene = "hook" -> RunStep(p)
      [] scene = "mail" -> MailerStep(p) [] scene = "login" -> LoginStep(p)
      [] scene = "sync" -> SyncStep(Syncer(p))
      [] scene = "queue" -> IF p = "p1" THEN TickStep(p) ELSE CallOvers("p1")
      [] scene = "metrics" -> IF p = "p1" THEN ViewAnswers ELSE Effects
      [] scene = "operations" -> IF p = "p1" THEN OpsRequest ELSE OpsTimers

Clock ==
    CASE scene = "inbox" -> MinutePasses [] scene = "sync" -> Reconcile
      [] scene = "intake" -> \E k \in Keys : AckNever(k) [] scene = "crm" -> WaitEnds("e1")
      [] scene = "hook" -> \E e \in HookEvents : MessageReturns(e)
      [] scene = "mail" -> DueAgain [] scene = "login" -> FailuresExpire
      [] scene = "queue" -> \E l \in QueueLeads : BecomesDue(l)
      [] scene = "metrics" -> Refreshes [] scene = "operations" -> Polls

Queue ==
    CASE scene = "sync" -> \E e \in SubEvents : TakeEvent(e) [] scene = "crm" -> WaitEnds("e2")
      [] scene = "hook" -> \E c \in HookConsumers : ConsumerStep(c)
      [] scene = "login" -> LoginStep("p3") [] scene = "operations" -> OpsLinks [] OTHER -> FALSE

Rest ==
    CASE scene = "sync" -> CommitGrant [] scene = "crm" -> ClaimRunsOut("e1")
      [] scene = "hook" -> \E e \in HookEvents : PublisherStep(e) [] OTHER -> FALSE

Fairness ==
    /\ \A p \in {"p1", "p2"} : WF_sceneVars(UNCHANGED scene /\ ProcessTurn(p))
    /\ WF_sceneVars(UNCHANGED scene /\ Clock)
    /\ WF_sceneVars(UNCHANGED scene /\ Queue)
    /\ WF_sceneVars(UNCHANGED scene /\ Rest)
    /\ WF_crmVars(scene = "crm" /\ ClaimRunsOut("e2"))
    /\ \A k \in Keys :
        /\ WF_intakeVars(scene = "intake" /\ \E i \in Intakers : Deliver(i, k))
        /\ WF_intakeVars(scene = "intake" /\ \E i \in Intakers : TakeLine(i, k))

Spec == Init /\ [][Next]_deliveryVars /\ Fairness

(* The rows keep their types, one process at a time works on a row that   *)
(* is leased - a Stripe event, a CRM event -, and a page of the panel      *)
(* shows nothing that belongs to other filters or another company.         *)
DeliveriesInv ==
    /\ InboxTypeOK /\ SubTypeOK /\ IntakeTypeOK /\ CrmTypeOK /\ HookTypeOK /\ MailTypeOK
    /\ DialQueueTypeOK /\ MetricsViewTypeOK /\ OpsTypeOK
    /\ InboxClaimsApart /\ CrmOnePoster /\ RankingsOfFilters /\ ViewOwnsAll

(* An answer, a delivery that ended or failed for good, is not taken back, *)
(* and a late answer replaces nothing that is newer.                       *)
EndsStay == AnswerKept /\ HookEndStays /\ SummaryOfFilters

Away(s) == []<>(scene # s)

(* Whatever is queued is settled in the end: a Stripe event is processed   *)
(* or set aside, a cancellation takes effect, a lead is created, refused   *)
(* or buried, a CRM event and a mail are sent or given up, an account that *)
(* was locked opens again, a lead in line is called, a round is reopened,  *)
(* and a page catches up with its filters and with the operation.          *)
QueuesDrain ==
    /\ InboxSettles /\ CancellationSettles /\ IntakeSettles /\ CrmSettles
    /\ InviteMailSettles /\ LockoutEnds
    /\ Away("queue") \/ (FirstCallComes /\ RetriesCome)
    /\ Away("metrics") \/ SummaryFollows
    /\ Away("operations") \/ ViewCatchesUp
=============================================================================
