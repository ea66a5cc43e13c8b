------------------------------- MODULE CrmOutbox -------------------------------
(***************************************************************************)
(* Events for the CRM of a company.  A row is written once per key; every  *)
(* process has a timer that claims a batch of due rows for 30 s, posts     *)
(* them one after the other and writes what became of each, whoever holds  *)
(* the claim by then.  A failed row waits longer each time and is a dead   *)
(* letter after MaxPosts posts.                                            *)
(***************************************************************************)
EXTENDS Integers, FiniteSets

CONSTANTS
    CrmEvents,      \* rows of crm_integration_events
    CrmFlushers,    \* processes of the API
    MaxPosts,       \* posts of a row before it is a dead letter (10)
    MaxCrmMishaps   \* bound: claims outlived, retries by hand, deaths

ASSUME CrmConstants == MaxPosts \in Nat \ {0} /\ MaxCrmMishaps \in Nat

VARIABLES
    crmRow,         \* status, attempts, the claim (none, held, over), whether it waits
    crmFlush,       \* of each process: rows left in its batch, the one being posted
    crmHook,        \* the integration is active and has a webhook
    crmMishaps,     \* what the bound has left
    crmLoose        \* ghost: events whose claim was outlived or taken by a retry

crmVars == <<crmRow, crmFlush, crmHook, crmMishaps, crmLoose>>

NotFlushing == [batch |-> {}, posting |-> {}]

CrmInit ==
    /\ crmRow = [e \in CrmEvents |-> [status |-> "none", attempts |-> 0, claim |-> "none", waits |-> FALSE]]
    /\ crmFlush = [p \in CrmFlushers |-> NotFlushing]
    /\ crmHook = TRUE /\ crmMishaps = MaxCrmMishaps /\ crmLoose = {}

HeldBy(e) == {p \in CrmFlushers : \E r \in crmFlush[p].batch \cup crmFlush[p].posting : r.event = e}
Mishap == crmMishaps > 0 /\ crmMishaps' = crmMishaps - 1

-----------------------------------------------------------------------------
(* recordCall(), recordLine(), recordPing(): only with a webhook, and a    *)
(* key that was seen before changes nothing.                               *)
RecordCrm(e) ==
    /\ crmHook /\ crmRow[e].status = "none"
    /\ crmRow' = [crmRow EXCEPT ![e].status = "pending"]
    /\ UNCHANGED <<crmFlush, crmHook, crmMishaps, crmLoose>>

(* retry() puts any row back in the queue, the claim of a running post too.*)
RetryCrm(e) ==
    /\ crmRow[e].status \in {"pending", "delivered", "dead_letter"} /\ Mishap
    /\ crmRow' = [crmRow EXCEPT ![e] = [status |-> "pending", attempts |-> 0, claim |-> "none", waits |-> FALSE]]
    /\ crmLoose' = IF HeldBy(e) # {} THEN crmLoose \cup {e} ELSE crmLoose
    /\ UNCHANGED <<crmFlush, crmHook>>

SetCrmHook == crmHook' = ~crmHook /\ Mishap /\ UNCHANGED <<crmRow, crmFlush, crmLoose>>

(* Wrong on purpose: rows of another process are claimed too.              *)
DueShared == {e \in CrmEvents : crmRow[e].status = "pending" /\ ~crmRow[e].waits}

(* Wrong on purpose: a claim that ended is never taken over.               *)
DueUnclaimed == {e \in CrmEvents : crmRow[e].status = "pending" /\ ~crmRow[e].waits /\ crmRow[e].claim = "none"}

Due == {e \in CrmEvents : crmRow[e].status = "pending" /\ ~crmRow[e].waits /\ crmRow[e].claim # "held"}

(* claim(): one UPDATE over what is due; "flushing" keeps a process to one *)
(* batch.  The number of attempts is the one read here.                    *)
Claim(p) ==
    /\ crmFlush[p] = NotFlushing /\ Due # {}
    /\ crmRow' = [e \in CrmEvents |-> IF e \in Due THEN [crmRow[e] EXCEPT !.claim = "held"] ELSE crmRow[e]]
    /\ crmFlush' = [crmFlush EXCEPT ![p].batch = {[event |-> e, attempt |-> crmRow[e].attempts + 1] : e \in Due}]
    /\ UNCHANGED <<crmHook, crmMishaps, crmLoose>>

(* deliver(): the integration is read for every row; without a webhook the *)
(* post fails before it is sent.                                           *)
PostCrm(p, r) ==
    /\ r \in crmFlush[p].batch /\ crmFlush[p].posting = {}
    /\ crmFlush' = [crmFlush EXCEPT ![p] = [batch |-> @.batch \ {r}, posting |-> {r}]]
    /\ UNCHANGED <<crmRow, crmHook, crmMishaps, crmLoose>>

Written(r, status, waits) ==
    [crmRow EXCEPT ![r.event] = [status |-> status, attempts |-> r.attempt, claim |-> "none", waits |-> waits]]

(* Both writes name the row by its id alone.                               *)
PostSucceeds(p, r) ==
    /\ r \in crmFlush[p].posting /\ crmHook
    /\ crmRow' = IF crmRow[r.event].status = "purged" THEN crmRow ELSE Written(r, "delivered", FALSE)
    /\ crmFlush' = [crmFlush EXCEPT ![p].posting = {}]
    /\ UNCHANGED <<crmHook, crmMishaps, crmLoose>>

AfterFailure(attempt) == IF attempt >= MaxPosts THEN "dead_letter" ELSE "pending"

(* A refusal, a timeout, or a webhook that is gone.  The catch of the      *)
(* second write is the last branch: the claim runs out by itself.          *)
PostFailsCrm(p, r) ==
    /\ r \in crmFlush[p].posting
    /\ \/ /\ crmRow' = IF crmRow[r.event].status = "purged" THEN crmRow
                       ELSE Written(r, AfterFailure(r.attempt), TRUE)
          /\ UNCHANGED crmMishaps
       \/ Mishap /\ UNCHANGED crmRow
    /\ crmFlush' = [crmFlush EXCEPT ![p].posting = {}]
    /\ UNCHANGED <<crmHook, crmLoose>>

-----------------------------------------------------------------------------
WaitEnds(e) ==
    /\ crmRow[e].waits /\ crmRow' = [crmRow EXCEPT ![e].waits = FALSE]
    /\ UNCHANGED <<crmFlush, crmHook, crmMishaps, crmLoose>>

(* 30 s are over: nobody holds the batch any more, or a long batch (up to  *)
(* 20 posts of 10 s) outlives its claim.                                   *)
ClaimRunsOut(e) ==
    /\ crmRow[e].claim = "held"
    /\ crmRow' = [crmRow EXCEPT ![e].claim = "over"]
    /\ \/ HeldBy(e) = {} /\ UNCHANGED <<crmMishaps, crmLoose>>
       \/ HeldBy(e) # {} /\ Mishap /\ crmLoose' = crmLoose \cup {e}
    /\ UNCHANGED <<crmFlush, crmHook>>

FlusherDies(p) ==
    /\ crmFlush[p] # NotFlushing /\ Mishap
    /\ crmFlush' = [crmFlush EXCEPT ![p] = NotFlushing]
    /\ UNCHANGED <<crmRow, crmHook, crmLoose>>

(* Delivered rows are deleted after 30 days.                               *)
PurgeCrm(e) ==
    /\ crmRow[e].status = "delivered"
    /\ crmRow' = [crmRow EXCEPT ![e] = [status |-> "purged", attempts |-> 0, claim |-> "none", waits |-> FALSE]]
    /\ UNCHANGED <<crmFlush, crmHook, crmMishaps, crmLoose>>

FlusherStep(p) ==
    \/ Claim(p)
    \/ \E r \in crmFlush[p].batch : PostCrm(p, r)
    \/ \E r \in crmFlush[p].posting : PostSucceeds(p, r) \/ PostFailsCrm(p, r)

CrmNext ==
    \/ \E e \in CrmEvents : RecordCrm(e) \/ RetryCrm(e) \/ WaitEnds(e) \/ ClaimRunsOut(e) \/ PurgeCrm(e)
    \/ SetCrmHook
    \/ \E p \in CrmFlushers : FlusherStep(p) \/ FlusherDies(p)

(* Timers keep running, posts come back (10 s), waits and claims run out.  *)
CrmFairness ==
    /\ \A p \in CrmFlushers : WF_crmVars(FlusherStep(p))
    /\ \A e \in CrmEvents : WF_crmVars(WaitEnds(e)) /\ WF_crmVars(ClaimRunsOut(e))

CrmSpec == CrmInit /\ [][CrmNext]_crmVars /\ CrmFairness

-----------------------------------------------------------------------------
CrmTypeOK ==
    \A e \in CrmEvents :
        /\ crmRow[e].status \in {"none", "pending", "delivered", "dead_letter", "purged"}
        /\ crmRow[e].attempts \in 0..MaxPosts
        /\ crmRow[e].status \in {"none", "purged"} => crmRow[e].claim = "none"

(* "an event is posted by one instance at a time" (crm-events.service):    *)
(* true while a batch ends within its claim and nobody retries it by hand. *)
CrmOnePoster == \A e \in CrmEvents \ crmLoose : Cardinality(HeldBy(e)) <= 1

(* Every event is delivered or becomes a dead letter, also when a process  *)
(* dies with the batch or the outcome of a post is not written.            *)
CrmSettles ==
    \A e \in CrmEvents : []<>(crmRow[e].status # "pending")
=============================================================================
