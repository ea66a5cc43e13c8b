------------------------------- MODULE DialQueue -------------------------------
(***************************************************************************)
(* The queue of the automatic dialer.  In every process a tick reads the   *)
(* settings, then the first leads of the queue - folder by folder, from    *)
(* the one the rotation has reached, in a folder by the date of the next   *)
(* attempt - and dials the first it can for an SDR connected here.  Then   *)
(* it opens a new round when nobody is left who has not been dialed in     *)
(* this one, and turns the rotation.  Each of these steps works on what    *)
(* earlier ones read.                                                      *)
(***************************************************************************)
EXTENDS Integers, Sequences, SequencesExt, FiniteSets

CONSTANTS
    QueueLine,      \* the leads in the order of their queue_sequence
    FolderOrder,    \* the folders in the order of their sort_order
    FolderOf,       \* the folder of each lead
    Dialers,        \* the processes, each with one SDR
    NoLead,         \* its SDR is free
    Batch,          \* LIMIT 25
    MaxTurns,       \* max_attempts_per_lead
    MaxSwitches,    \* bound: pauses, campaigns and folders switched on and off
    MaxTickFailures     \* bound: ticks that fail or whose process dies

QueueLeads == Range(QueueLine)
DialFolders == Range(FolderOrder)

ASSUME DialQueueConstants ==
    /\ QueueLine \in Seq(QueueLeads) /\ FolderOrder \in Seq(DialFolders)
    /\ FolderOf \in [QueueLeads -> DialFolders] /\ NoLead \notin QueueLeads
    /\ Batch \in Nat \ {0} /\ MaxTurns \in Nat \ {0}
    /\ MaxSwitches \in Nat /\ MaxTickFailures \in Nat

VARIABLES
    leadOf,         \* of each: status, attempts, due, last_auto_round
    waitLine,       \* the leads in the order of next_eligible_at
    folderOn,       \* the folders that are active
    heldBack,       \* the leads whose campaign does not run
    dialerOn, dialRound, rotation,   \* dialer_settings
    ticking,        \* of each process, its step and what it has read
    onCall,         \* of each process, the lead its SDR talks to
    switches, tickFailures

dialTargets == <<folderOn, heldBack>>
dialSettings == <<dialerOn, dialRound, rotation>>
dialBounds == <<switches, tickFailures>>
queueVars == <<leadOf, waitLine, dialTargets, dialSettings, ticking, onCall, dialBounds>>

NoTick == [at |-> "idle", round |-> 0, rotation |-> 0, folders |-> 0, leads |-> <<>>]

DialQueueTypeOK ==
    /\ leadOf \in [QueueLeads -> [status : {"queued", "retry_wait", "busy", "closed"},
                                attempts : 0..MaxTurns, due : BOOLEAN, round : Nat]]
    /\ Range(waitLine) = QueueLeads /\ Len(waitLine) = Len(QueueLine)
    /\ folderOn \subseteq DialFolders /\ heldBack \subseteq QueueLeads
    /\ dialerOn \in BOOLEAN /\ dialRound \in Nat /\ rotation \in 0..Len(FolderOrder)
    /\ \A p \in Dialers : ticking[p].at \in {"idle", "tries", "rounds"}
    /\ onCall \in [Dialers -> QueueLeads \union {NoLead}]

QueueInit ==
    /\ leadOf = [l \in QueueLeads |->
                  [status |-> "queued", attempts |-> 0, due |-> TRUE, round |-> 0]]
    /\ waitLine = QueueLine
    /\ folderOn = DialFolders /\ heldBack = {}
    /\ dialerOn = TRUE /\ dialRound = 1 /\ rotation = 0
    /\ ticking = [p \in Dialers |-> NoTick]
    /\ onCall = [p \in Dialers |-> NoLead]
    /\ switches = 0 /\ tickFailures = 0

-----------------------------------------------------------------------------
(* The conditions of the three queries.                                    *)
Dialable(l) == leadOf[l].status \in {"queued", "retry_wait"} /\ leadOf[l].attempts < MaxTurns
ReadyIn(l, r) == Dialable(l) /\ FolderOf[l] \in folderOn /\ leadOf[l].round < r /\ leadOf[l].due

(* The place of a folder in a tick: the active folders follow each other   *)
(* by their sort_order, from the one the rotation has reached.             *)
FolderTurn(f, cursor) ==
    LET count == Cardinality(folderOn)
        first == {g \in folderOn : \E i, j \in DOMAIN FolderOrder :
                                     i < j /\ FolderOrder[i] = g /\ FolderOrder[j] = f} IN
    (Cardinality(first) - cursor) % count

(* Folder by folder, in a folder by the date of the next attempt.          *)
GoesBefore(k, l, cursor) ==
    \/ FolderTurn(FolderOf[k], cursor) < FolderTurn(FolderOf[l], cursor)
    \/ FolderOf[k] = FolderOf[l] /\ \E i, j \in DOMAIN waitLine : i < j /\ waitLine[i] = k /\ waitLine[j] = l

ReadyLeads(r) == {l \in QueueLeads : ReadyIn(l, r)}

(* The first leads of the queue, at most a batch of them.                  *)
Candidates(r, cursor) ==
    LET ready == ReadyLeads(r)
        n == Cardinality(ready) IN
    {leads \in [1..(IF n < Batch THEN n ELSE Batch) -> ready] :
        /\ \A i, j \in DOMAIN leads : i < j => GoesBefore(leads[i], leads[j], cursor)
        /\ \A i \in DOMAIN leads : \A l \in ready \ Range(leads) : GoesBefore(leads[i], l, cursor)}

TickAt(p, step) == ticking[p].at = step

(* tick(): one at a time in a process, and none while the dialer is paused. *)
(* The settings and the queues are read one after the other, here at once. *)
(* Without a free SDR each of the leads would be passed over.              *)
TickBegins(p) ==
    /\ TickAt(p, "idle") /\ dialerOn
    /\ \E leads \in IF onCall[p] = NoLead THEN Candidates(dialRound, rotation) ELSE {<<>>} :
          ticking' = [ticking EXCEPT ![p] =
             [at |-> "tries", round |-> dialRound, rotation |-> rotation,
              folders |-> Cardinality(folderOn), leads |-> leads]]
    /\ UNCHANGED <<leadOf, waitLine, dialTargets, dialSettings, onCall, dialBounds>>

(* startReservedCall() looks at the lead again, but not at its round.      *)
MayDial(l) ==
    Dialable(l) /\ leadOf[l].due /\ FolderOf[l] \in folderOn /\ l \notin heldBack

DialsFirst(p, i) ==
    /\ i \in DOMAIN ticking[p].leads /\ MayDial(ticking[p].leads[i])
    /\ \A j \in DOMAIN ticking[p].leads : j < i => ~MayDial(ticking[p].leads[j])

PassesAll(p) ==
    /\ TickAt(p, "tries") /\ \A i \in DOMAIN ticking[p].leads : ~MayDial(ticking[p].leads[i])
    /\ ticking' = [ticking EXCEPT ![p].at = "rounds", ![p].leads = <<>>]
    /\ UNCHANGED <<leadOf, waitLine, dialTargets, dialSettings, onCall, dialBounds>>

(* The call, with the first lead that is not passed over.  It keeps the    *)
(* round the tick began in; the lock of the SDR refuses the other leads.   *)
TickStarts(p) == \E i \in DOMAIN ticking[p].leads :
    LET l == ticking[p].leads[i] IN
    /\ TickAt(p, "tries") /\ DialsFirst(p, i)
    /\ ticking' = [ticking EXCEPT ![p].at = "rounds", ![p].leads = <<>>]
    /\ leadOf' = [leadOf EXCEPT ![l] = [status |-> "busy", attempts |-> @.attempts + 1,
                                    due |-> TRUE, round |-> ticking[p].round]]
    /\ onCall' = [onCall EXCEPT ![p] = l]
    /\ UNCHANGED <<waitLine, dialTargets, dialSettings, dialBounds>>

(* has_retryable_leads and not has_ready_unattempted.                      *)
RoundIsOver(r) ==
    /\ \E l \in QueueLeads : Dialable(l) /\ FolderOf[l] \in folderOn
    /\ ~\E l \in QueueLeads : ReadyIn(l, r)

(* Wrong on purpose: the row takes the round after the one of the tick.    *)
OpensAfter(p) == ticking[p].round + 1

(* The next round, only if the round is still the one the tick began in.   *)
(* One in which nobody has been dialed would be like the next: to bound    *)
(* the rounds it is kept.                                                  *)
RoundOpened(p) ==
    IF dialRound = ticking[p].round /\ \E l \in QueueLeads : leadOf[l].round = dialRound
    THEN dialRound + 1 ELSE dialRound

(* Wrong on purpose: the next tick begins with the same folder.            *)
TickEndsThere(p) ==
    /\ TickAt(p, "rounds") /\ ticking' = [ticking EXCEPT ![p] = NoTick]
    /\ dialRound' = IF RoundIsOver(ticking[p].round) THEN RoundOpened(p) ELSE dialRound
    /\ UNCHANGED <<leadOf, waitLine, dialTargets, dialerOn, rotation, onCall, dialBounds>>

(* The round is looked at and opened, and the rotation turns.              *)
TickEnds(p) ==
    /\ TickAt(p, "rounds") /\ ticking' = [ticking EXCEPT ![p] = NoTick]
    /\ dialRound' = IF RoundIsOver(ticking[p].round) THEN RoundOpened(p) ELSE dialRound
    /\ rotation' = IF ticking[p].folders > 0
                   THEN (ticking[p].rotation + 1) % ticking[p].folders ELSE rotation
    /\ UNCHANGED <<leadOf, waitLine, dialTargets, dialerOn, onCall, dialBounds>>

(* A query fails, or the process dies and comes back.                      *)
TickFails(p) ==
    /\ ~TickAt(p, "idle") /\ tickFailures < MaxTickFailures /\ tickFailures' = tickFailures + 1
    /\ ticking' = [ticking EXCEPT ![p] = NoTick]
    /\ UNCHANGED <<leadOf, waitLine, dialTargets, dialSettings, onCall, switches>>

(* finishCall(): a lead that may be tried again goes behind all the others *)
(* that wait.                                                              *)
CallIsOver(p, again) ==
    LET l == onCall[p] IN
    /\ l # NoLead /\ onCall' = [onCall EXCEPT ![p] = NoLead]
    /\ again => leadOf[l].attempts < MaxTurns
    /\ leadOf' = [leadOf EXCEPT ![l].status = IF again THEN "retry_wait" ELSE "closed",
                            ![l].due = ~again]
    /\ \E i \in DOMAIN waitLine : waitLine[i] = l /\ waitLine' = Append(RemoveAt(waitLine, i), l)
    /\ UNCHANGED <<dialTargets, dialSettings, ticking, dialBounds>>

BecomesDue(l) ==
    /\ leadOf[l].status = "retry_wait" /\ ~leadOf[l].due
    /\ \A k \in QueueLeads : leadOf[k].status = "retry_wait" /\ ~leadOf[k].due =>
          \E i, j \in DOMAIN waitLine : waitLine[i] = l /\ waitLine[j] = k /\ i <= j
    /\ leadOf' = [leadOf EXCEPT ![l].due = TRUE]
    /\ UNCHANGED <<waitLine, dialTargets, dialSettings, ticking, onCall, dialBounds>>

(* What people change meanwhile: pause() and start() - setAvailability()   *)
(* starts the dialer too -, the folders, and the campaigns of leads.       *)
MaySwitch == switches < MaxSwitches /\ switches' = switches + 1

SwitchDialer ==
    /\ MaySwitch /\ dialerOn' = ~dialerOn
    /\ UNCHANGED <<leadOf, waitLine, dialTargets, dialRound, rotation, ticking, onCall, tickFailures>>

SwitchFolder(f) ==
    /\ MaySwitch
    /\ folderOn' = IF f \in folderOn THEN folderOn \ {f} ELSE folderOn \union {f}
    /\ UNCHANGED <<leadOf, waitLine, heldBack, dialSettings, ticking, onCall, tickFailures>>

SwitchCampaign(l) ==
    /\ MaySwitch /\ heldBack' = IF l \in heldBack THEN heldBack \ {l} ELSE heldBack \union {l}
    /\ UNCHANGED <<leadOf, waitLine, folderOn, dialSettings, ticking, onCall, tickFailures>>

TickStep(p) ==
    TickBegins(p) \/ PassesAll(p) \/ TickStarts(p) \/ TickEnds(p)

CallOvers(p) == CallIsOver(p, TRUE) \/ CallIsOver(p, FALSE)

QueueNext ==
    \/ \E p \in Dialers : TickStep(p) \/ TickFails(p) \/ CallOvers(p)
    \/ \E l \in QueueLeads : BecomesDue(l) \/ SwitchCampaign(l)
    \/ SwitchDialer \/ \E f \in DialFolders : SwitchFolder(f)

(* The timer of the process, the end of every call, the passing of time.   *)
QueueFairness ==
    /\ \A p \in Dialers : WF_queueVars(TickStep(p)) /\ WF_queueVars(CallOvers(p))
    /\ WF_queueVars(\E l \in QueueLeads : BecomesDue(l))

QueueSpec == QueueInit /\ [][QueueNext]_queueVars /\ QueueFairness

-----------------------------------------------------------------------------
(* A lead is in the hands of one SDR, and was dialed in a round that has   *)
(* been opened; no lead gets more turns than the settings allow.           *)
QueueKept ==
    /\ \A p, q \in Dialers : p # q /\ onCall[p] # NoLead => onCall[p] # onCall[q]
    /\ \A l \in QueueLeads : leadOf[l].status = "busy" <=> \E p \in Dialers : onCall[p] = l
    /\ \A l \in QueueLeads : leadOf[l].round <= dialRound

(* Rounds follow each other, one by one, whatever the ticks of two         *)
(* processes read before.                                                  *)
RoundsFollow == [][dialRound' # dialRound => dialRound' = dialRound + 1]_queueVars

LeadSettled(l) == leadOf[l].status = "closed"

(* A lead is dialed in the end, in a dialer that runs and a folder that is *)
(* active: the leads of campaigns that do not run do not keep it from its  *)
(* first call as long as those of its own folder do not fill the batch,    *)
HeldBefore(l) == {k \in heldBack : FolderOf[k] = FolderOf[l]}

FirstCallComes ==
    \A l \in QueueLeads :
        []<>(\/ leadOf[l].attempts > 0
             \/ ~dialerOn \/ FolderOf[l] \notin folderOn \/ l \in heldBack
             \/ Cardinality(HeldBefore(l)) >= Batch)

(* and it is dialed again until it is settled, when there are none: one    *)
(* that waits for its first call keeps the round open, and with it         *)
(* everybody who was dialed in the round.                                  *)
RetriesCome ==
    []<>(\/ \A l \in QueueLeads : LeadSettled(l)
         \/ ~dialerOn \/ folderOn # DialFolders \/ heldBack # {})
=============================================================================
