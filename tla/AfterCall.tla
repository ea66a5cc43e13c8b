------------------------------ MODULE AfterCall ------------------------------
(***************************************************************************)
(* What follows a conversation: the pause of the agent and its wrap-up,    *)
(* the return promised to the lead, and the calls that may then be made -  *)
(* by the automatic queue, by hand, from the return, or by a CRM that      *)
(* hands its agent an intent to dial.  A wrap-up is one transaction that   *)
(* holds the row of the lead from its first write; a call that starts      *)
(* meanwhile has read the returns before it waits for that row, and the    *)
(* lead after.                                                             *)
(***************************************************************************)
EXTENDS Integers, FiniteSets

CONSTANTS
    Talks, People, Agents, Returns, Intents,
    Nobody,         \* no agent, no talk, no return
    RetryDelay, IntentTTL,
    LastHour        \* bound: the clock

ASSUME AfterCallConstants ==
    /\ RetryDelay \in Nat /\ IntentTTL \in Nat \ {0} /\ LastHour \in Nat
    /\ Nobody \notin Talks \union People \union Agents \union Returns

OpenReturn == {"pending", "due", "reassigned"}
Results == {"retornar", "nao_ligar_novamente", "interessado"}

VARIABLES
    hour,           \* the clock
    person,         \* leads: status, next_eligible_at, suppressed
    talk,           \* calls: state, lead, sdr, source, call_result
    pauseOf,        \* sdr_pauses, by their call
    currentPause,   \* sdrs.current_pause_id
    promise,        \* lead_callbacks: status, lead, owner, due, origin
    wrapping,       \* the wrap-ups that hold the row of their lead
    waiting,        \* the calls that wait for it, having read the returns
    intent          \* zapcall:dial-intent: of each, its agent, its end, how often used

afterVars == <<hour, person, talk, pauseOf, currentPause, promise, wrapping, waiting,
               intent>>

NoTalk == [state |-> "none", lead |-> Nobody, sdr |-> Nobody, auto |-> FALSE,
           result |-> "none"]
NoReturn == [status |-> "none", lead |-> Nobody, owner |-> Nobody, due |-> 0,
             origin |-> Nobody]

AfterInit ==
    /\ hour = 0
    /\ person = [l \in People |-> [status |-> "queued", at |-> 0, suppressed |-> FALSE]]
    /\ talk = [c \in Talks |-> NoTalk]
    /\ pauseOf = [c \in Talks |-> "none"]
    /\ currentPause = [a \in Agents |-> Nobody]
    /\ promise = [k \in Returns |-> NoReturn]
    /\ wrapping = {} /\ waiting = {}
    /\ intent = [i \in Intents |-> [sdr |-> Nobody, until |-> 0, used |-> 0]]

OpenOf(l) == {k \in Returns : promise[k].lead = l /\ promise[k].status \in OpenReturn}
Busy(a) == \E c \in Talks : talk[c].state \in {"starting", "on"} /\ talk[c].sdr = a
RowHeld(l) == \E w \in wrapping : talk[w.talk].lead = l


-----------------------------------------------------------------------------
(* evaluateLeadEligibility(), of the return: nothing automatic while there *)
(* is one, and by hand its owner once it is due.                           *)
ReturnAllows(r, a, auto) ==
    \/ r.status = "none"
    \/ /\ ~auto /\ r.owner = a
       /\ r.status \in {"due", "reassigned"} /\ r.due <= hour

(* Of the lead: by hand its place in the queue does not matter.            *)
LeadAllows(l, auto) ==
    /\ ~person[l].suppressed
    /\ auto => person[l].status \in {"queued", "retry_wait"} /\ person[l].at <= hour

ReturnOf(l) == IF OpenOf(l) = {} THEN NoReturn ELSE promise[CHOOSE k \in OpenOf(l) : TRUE]

(* The agent and the lead are nobody else's (Reservation).                 *)
Free(c, l, a) ==
    /\ talk[c].state = "none" /\ ~Busy(a) /\ currentPause[a] = Nobody
    /\ ~\E d \in Talks : talk[d].state \in {"starting", "on"} /\ talk[d].lead = l

Begins(c, l, a, auto, state) ==
    talk' = [talk EXCEPT ![c] = [NoTalk EXCEPT !.state = state, !.lead = l, !.sdr = a,
                                               !.auto = auto]]

Takes(l, auto) ==
    person' = IF auto THEN [person EXCEPT ![l].status = "reserved"] ELSE person

(* startReservedCall(): the lead and its returns, read at once.            *)
Start(c, l, a, auto) ==
    /\ Free(c, l, a) /\ ~RowHeld(l)
    /\ LeadAllows(l, auto) /\ ReturnAllows(ReturnOf(l), a, auto)
    /\ Begins(c, l, a, auto, "on") /\ Takes(l, auto)
    /\ UNCHANGED <<hour, pauseOf, currentPause, promise, wrapping, waiting, intent>>

(* The row of the lead is held: the returns are read, and not the lead.    *)
StartWaits(c, l, a, auto) ==
    /\ Free(c, l, a) /\ RowHeld(l)
    /\ ReturnAllows(ReturnOf(l), a, auto)
    /\ Begins(c, l, a, auto, "starting")
    /\ waiting' = waiting \union {c}
    /\ UNCHANGED <<hour, person, pauseOf, currentPause, promise, wrapping, intent>>

(* The row is free again: the lead as it is, the returns as they were.     *)
StartGoesOn(c) ==
    LET l == talk[c].lead IN
    /\ c \in waiting /\ ~RowHeld(l) /\ waiting' = waiting \ {c}
    /\ IF LeadAllows(l, talk[c].auto)
       THEN talk' = [talk EXCEPT ![c].state = "on"] /\ Takes(l, talk[c].auto)
       ELSE talk' = [talk EXCEPT ![c] = NoTalk] /\ UNCHANGED person
    /\ UNCHANGED <<hour, pauseOf, currentPause, promise, wrapping, intent>>

(* finishCall(): answered or not, to be tried again or not.                *)
CallEnds(c, answered, again) ==
    LET l == talk[c].lead IN
    /\ talk[c].state = "on"
    /\ talk' = [talk EXCEPT ![c].state = "ended"]
    /\ person' = IF ~talk[c].auto THEN person
                 ELSE IF again THEN [person EXCEPT ![l].status = "retry_wait",
                                                   ![l].at = hour + RetryDelay]
                 ELSE [person EXCEPT ![l].status = "completed", ![l].at = hour]
    /\ IF answered
       THEN /\ pauseOf' = [pauseOf EXCEPT ![c] = "open"]
            /\ currentPause' = [currentPause EXCEPT ![talk[c].sdr] = c]
       ELSE UNCHANGED <<pauseOf, currentPause>>
    /\ UNCHANGED <<hour, promise, wrapping, waiting, intent>>

-----------------------------------------------------------------------------
(* finishPause(), up to its first write of the lead: the pause is looked at *)
(* under its lock, once, and a wrap-up of the same lead waits.             *)
WrapUpBegins(c, result, due) ==
    /\ pauseOf[c] = "open" /\ ~RowHeld(talk[c].lead)
    /\ result = "retornar" <=> due > hour
    /\ wrapping' = wrapping \union {[talk |-> c, result |-> result, due |-> due]}
    /\ UNCHANGED <<hour, person, talk, pauseOf, currentPause, promise, waiting, intent>>

(* Wrong on purpose: the lead may be called again at once.                 *)
PutOffNot(l, due) == [person[l] EXCEPT !.status = "retry_wait"]

PutOff(l, due) == [person[l] EXCEPT !.status = "retry_wait", !.at = due]

(* What becomes of the returns of the lead: those of other conversations   *)
(* are done, and this one's is a new one.                                  *)
Concluded(c, done) == [k \in Returns |-> IF k \in done THEN [promise[k] EXCEPT
                                                          !.status = "completed"]
                                       ELSE promise[k]]

Agreed(c, due) == [status |-> "pending", lead |-> talk[c].lead, owner |-> talk[c].sdr,
                   due |-> due, origin |-> c]

(* Its commit.                                                             *)
WrapUpCommits(w) ==
    LET c == w.talk
        l == talk[c].lead
        done == {k \in OpenOf(l) : promise[k].origin # c}
        room == {k \in Returns : promise[k].status = "none"} IN
    /\ w \in wrapping /\ wrapping' = wrapping \ {w}
    /\ pauseOf' = [pauseOf EXCEPT ![c] = "over"]
    /\ talk' = [talk EXCEPT ![c].result = w.result]
    /\ person' = [person EXCEPT ![l] =
          IF w.result = "retornar" THEN PutOff(l, w.due)
          ELSE IF w.result = "nao_ligar_novamente" THEN [@ EXCEPT !.suppressed = TRUE]
          ELSE @]
    /\ IF w.result = "retornar"
       THEN \E k \in room : promise' = [Concluded(c, done) EXCEPT ![k] = Agreed(c, w.due)]
       ELSE promise' = Concluded(c, done)
    /\ currentPause' = IF currentPause[talk[c].sdr] = c
                       THEN [currentPause EXCEPT ![talk[c].sdr] = Nobody] ELSE currentPause
    /\ UNCHANGED <<hour, waiting, intent>>

(* Postgres breaks a deadlock of finishPause() and releaseIntegrationPause() *)
(* - one holds the pause, the other the agent - by undoing one of them.    *)
WrapUpUndone(w) ==
    /\ w \in wrapping /\ wrapping' = wrapping \ {w}
    /\ UNCHANGED <<hour, person, talk, pauseOf, currentPause, promise, waiting, intent>>

-----------------------------------------------------------------------------
(* tick() and list(): the returns whose time has come.                     *)
DueTransition ==
    LET ripe == {k \in Returns : promise[k].status \in {"pending", "reassigned"}
                                 /\ promise[k].due <= hour} IN
    /\ ripe # {}
    /\ promise' = [k \in Returns |-> IF k \in ripe THEN [promise[k] EXCEPT !.status = "due"]
                                     ELSE promise[k]]
    /\ UNCHANGED <<hour, person, talk, pauseOf, currentPause, wrapping, waiting, intent>>

(* Wrong on purpose: what has ended may be taken up again.                 *)
StillOpenAny(k) == promise[k].status # "none"

StillOpen(k) == promise[k].status \in OpenReturn

(* reschedule(), reassign(), cancel(): UPDATEs of a return that is open.   *)
Changes(k, new) ==
    /\ StillOpen(k) /\ promise' = [promise EXCEPT ![k] = new]
    /\ UNCHANGED <<hour, person, talk, pauseOf, currentPause, wrapping, waiting, intent>>

reschedule(k, due) ==
    due > hour /\ Changes(k, [promise[k] EXCEPT !.status = "pending", !.due = due])

reassign(k, a) == Changes(k, [promise[k] EXCEPT !.status = "reassigned", !.owner = a])

cancel(k) ==
    \E status \in {"cancelled", "missed"} : Changes(k, [promise[k] EXCEPT !.status = status])

-----------------------------------------------------------------------------
(* createDialIntent(): a minute to redeem it.                              *)
createDialIntent(i, a) ==
    /\ intent[i].sdr = Nobody /\ ~Busy(a)
    /\ intent' = [intent EXCEPT ![i] = [sdr |-> a, until |-> hour + IntentTTL, used |-> 0]]
    /\ UNCHANGED <<hour, person, talk, pauseOf, currentPause, promise, wrapping, waiting>>

(* Wrong on purpose: the key is read and stays.                            *)
LiveStill(i) == intent[i].sdr # Nobody /\ hour < intent[i].until

Live(i) == intent[i].sdr # Nobody /\ hour < intent[i].until /\ intent[i].used = 0

(* dialFromIntent(), up to the call: the intent is gone, whoever shows it; *)
(* its agent leaves an unfinished wrap-up behind, unless the transaction   *)
(* that would end it meets the wrap-up's own.  The call is a Start.        *)
dialFromIntent(i, a) ==
    LET c == currentPause[a] IN
    /\ Live(i) /\ intent' = [intent EXCEPT ![i].used = @ + 1]
    /\ \/ intent[i].sdr # a /\ UNCHANGED <<pauseOf, currentPause>>
       \/ c = Nobody /\ UNCHANGED <<pauseOf, currentPause>>
       \/ /\ intent[i].sdr = a /\ c # Nobody
          /\ IF \E w \in wrapping : w.talk = c
             THEN UNCHANGED <<pauseOf, currentPause>>
             ELSE /\ pauseOf' = [pauseOf EXCEPT ![c] = "over"]
                  /\ currentPause' = [currentPause EXCEPT ![a] = Nobody]
    /\ UNCHANGED <<hour, person, talk, promise, wrapping, waiting>>

(* A transaction, and a wait for its row, are over within the hour.        *)
HourPasses ==
    /\ hour < LastHour /\ wrapping = {} /\ waiting = {} /\ hour' = hour + 1
    /\ UNCHANGED <<person, talk, pauseOf, currentPause, promise, wrapping, waiting, intent>>

AfterNext ==
    \/ \E c \in Talks, l \in People, a \in Agents, auto \in BOOLEAN :
         Start(c, l, a, auto) \/ StartWaits(c, l, a, auto)
    \/ \E c \in Talks :
         \/ StartGoesOn(c)
         \/ \E answered, again \in BOOLEAN : CallEnds(c, answered, again)
         \/ \E result \in Results, due \in 0..LastHour : WrapUpBegins(c, result, due)
    \/ \E w \in wrapping : WrapUpCommits(w) \/ WrapUpUndone(w)
    \/ DueTransition
    \/ \E k \in Returns :
         \/ \E due \in 0..LastHour : reschedule(k, due)
         \/ \E a \in Agents \union {Nobody} : reassign(k, a)
         \/ cancel(k)
    \/ \E i \in Intents, a \in Agents : createDialIntent(i, a) \/ dialFromIntent(i, a)
    \/ HourPasses

AfterSpec == AfterInit /\ [][AfterNext]_afterVars

-----------------------------------------------------------------------------
(* A lead is promised one return at a time.                                *)
OnePromise == \A l \in People : Cardinality(OpenOf(l)) <= 1

(* The pause an agent is held by is open, and no open one is forgotten: an *)
(* intent, a wrap-up and the end of a call agree on it.                    *)
PauseKnown ==
    \A c \in Talks : pauseOf[c] = "open" <=> \E a \in Agents : currentPause[a] = c

(* An intent places one call at most.                                      *)
IntentOnce == \A i \in Intents : intent[i].used <= 1

AfterInv == OnePromise /\ PauseKnown /\ IntentOnce

(* The queue does not call a lead a return has been promised to, whatever  *)
(* it had read when the promise was made.                                  *)
NoneOverAPromise ==
    \A c \in Talks :
        talk[c].state # "on" /\ talk'[c].state = "on" /\ talk'[c].auto =>
            OpenOf(talk'[c].lead) = {}

(* A result is recorded once, and a return that has ended stays so.        *)
WrittenOnce ==
    /\ \A c \in Talks : talk[c].result # "none" => talk'[c].result = talk[c].result
    /\ \A k \in Returns : promise[k].status \notin OpenReturn \union {"none"} =>
           promise'[k] = promise[k]

AfterStep == NoneOverAPromise /\ WrittenOnce
AfterKept == [][AfterStep]_afterVars
=============================================================================
