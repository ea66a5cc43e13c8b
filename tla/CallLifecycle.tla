--------------------------- MODULE CallLifecycle ---------------------------
(***************************************************************************)
(* The life of a call in DialerService: from the reservation, through the  *)
(* Waxum media socket and the answer, to finishCall(), with the rows it    *)
(* shares with other calls (leads, sdrs, sdr_pauses) and the API processes *)
(* that run it, which crash and restart.                                   *)
(*                                                                         *)
(* An action is what one process does between two awaits, or one database  *)
(* transaction.  The Redis reservation is the lease that module Reservation*)
(* describes in full.  Line readiness, queue order, campaigns, schedule    *)
(* and callbacks are left out: any queued lead may be next, any line ready,*)
(* and a start may always be refused.                                      *)
(*                                                                         *)
(* Operators marked "wrong on purpose" are used by no action: each is the  *)
(* slip that one of the properties below is there to catch.                *)
(***************************************************************************)
EXTENDS Integers, Sequences, FiniteSets

CONSTANTS
  Call, Lead, Sdr, Line,
  Instance,      \* the API processes
  Station,       \* Station[s]: the process that holds the socket of SDR s
  Scopes,        \* bound: what may happen in a behaviour, see Scope
  MaxAttempts,   \* bound on max_attempts_per_lead
  FixedIds,      \* TRUE when API_INSTANCE_ID keeps the name of a process over a restart
  MaxPauses, MaxCrashes, MaxFaults,  \* bounds: wrap-up pauses, crashes, failed awaits
  None

ASSUME StationKnown == Station \in [Sdr -> Instance]
AllTriggers == {"automatico", "manual", "failure", "hangup", "admin", "availability", "wrapup",
                "socket"}
\* The kinds of event of a behaviour, how many calls it has and for which leads, and
\* max_attempts_per_lead.
Scope == [triggers : SUBSET AllTriggers, calls : Nat, leads : SUBSET Lead,
          maxAttempts : 0..MaxAttempts]
ASSUME ScopesKnown == Scopes \subseteq Scope
ASSUME BoundsNat == {MaxAttempts, MaxPauses, MaxCrashes, MaxFaults} \subseteq Nat

VARIABLES
  status,      \* calls.status; also "none" (id unused), "reserving" (no row yet), "refused"
  plan,        \* what a call binds together: the reservation, the row and the CallResource
  connected,   \* the calls with connected_at set
  late,        \* the calls whose offer_expires_at has passed
  lease,       \* the Redis reservation of a call: "none", "held", "released", "lapsed"
  orphaned,    \* the calls whose process has crashed since
  lead,        \* leads.status
  attempts,    \* leads.attempts
  sdr,         \* sdrs.state; sdrs.available is TRUE exactly in "available"
  current,     \* sdrs.current_pause_id, 0 for NULL
  claim,       \* sdrs.connection_instance_id: "none", "live", or "dead" (a crashed process)
  pauses,      \* sdr_pauses in order of insertion
  up,          \* the processes that run
  oldKey,      \* crashed processes whose heartbeat key has not expired yet
  recovering,  \* the rows recoverInterruptedCalls() still has to look at
  online,      \* the SDRs whose control socket is open (gateway.isConnected)
  leaving,     \* how far controlClosed() of an SDR has come
  asked,       \* the request of an SDR, or about it, that has passed its checks
  tick,        \* the rows a dialer tick has read
  manual,      \* the rows a manual call has read
  res,         \* the CallResource in memory, and its media socket
  fin,         \* fin[i][c]: finishCall(c) in process i
  crashes, faults,
  scope,       \* which of Scopes this behaviour has
  refunded,    \* ghost: automatic calls that ended by a rate limit or a stalled line
  revived      \* ghost: calls set active again after they had ended

callVars == <<status, plan, connected, late, lease, orphaned>>
rowVars  == <<lead, attempts, sdr, current, pauses>>
procVars == <<up, oldKey, recovering, crashes>>
deskVars == <<online, claim, leaving, asked>>
pickVars == <<tick, manual>>
ghosts   == <<faults, scope, refunded, revived>>
vars == <<callVars, rowVars, procVars, deskVars, pickVars, res, fin, ghosts>>

Active   == {"reserved", "media_active"}   \* 'dialing' is never written
Terminal == {"completed", "no_answer", "failed", "cancelled"}
Why      == {"rate", "stall", "other"}     \* waxum_rate_limited, waxum_inbound_audio_stalled

NoPick == [sdrs |-> {}, leads |-> {}]
NoRes  == [mem |-> "no", media |-> "none", finishing |-> FALSE, answered |-> FALSE,
           live |-> FALSE, ring |-> FALSE, frame |-> FALSE]
Idle   == [pc |-> "idle"]
NoAsk  == [op |-> "none"]

Plan == [inst : Instance, lead : Lead, sdr : Sdr, line : Line, auto : BOOLEAN,
         prev : {"available", "offline"}]
ASSUME NoneApart == None \notin Plan
Busy(c) == status[c] \in Active
Owner(c) == plan[c].inst
CallsOf(s) == {c \in Call : plan[c] # None /\ plan[c].sdr = s}
BusySdr(s) == \E c \in CallsOf(s) : Busy(c)
BusyLead(l) == \E c \in Call : Busy(c) /\ plan[c].lead = l
InMemory(s) == {c \in CallsOf(s) : res[c].mem = "yes"}
IdAlive(i) == i \in oldKey \/ (FixedIds /\ i \in up)  \* the heartbeat key of a crashed process

TypeOK ==
  /\ status \in [Call -> {"none", "reserving", "refused", "retry_wait"} \cup Active \cup Terminal]
  /\ plan \in [Call -> Plan \cup {None}]
  /\ {connected, late, orphaned, refunded, revived} \subseteq SUBSET Call
  /\ lease \in [Call -> {"none", "held", "released", "lapsed"}]
  /\ lead \in [Lead -> {"queued", "retry_wait", "reserved"} \cup Terminal]
  /\ attempts \in [Lead -> 0..MaxAttempts]
  /\ sdr \in [Sdr -> {"available", "offline", "in_call", "post_call"}]
  /\ pauses \in Seq([sdr : Sdr, call : Call, open : BOOLEAN])
  /\ current \in [Sdr -> 0..Len(pauses)]
  /\ claim \in [Sdr -> {"none", "live", "dead"}]
  /\ {up, oldKey} \subseteq SUBSET Instance
  /\ recovering \in [Instance -> SUBSET Call]
  /\ online \subseteq Sdr
  /\ leaving \in [Sdr -> {"no", "update", "calls"} \cup Call]
  /\ asked \in [Sdr -> {NoAsk} \cup [op : {"available"}]
                  \cup [op : {"wrapup"}, pause : 1..MaxPauses, stay : BOOLEAN]
                  \cup [op : {"free"}, inst : Instance, waits : Call \cup {None}]]
  /\ tick \in [Instance -> [sdrs : SUBSET Sdr, leads : SUBSET Lead]]
  /\ manual \in [Instance -> {None} \cup [lead : Lead, sdr : Sdr, prev : {"available", "offline"}]]
  /\ res \in [Call -> [mem : {"no", "due", "yes"},
                       media : {"none", "resolving", "cleared", "connecting", "open",
                                "closing", "broken", "closed"},
                       finishing : BOOLEAN, answered : BOOLEAN, live : BOOLEAN,
                       ring : BOOLEAN, frame : BOOLEAN]]
  /\ fin \in [Instance -> [Call ->
        {Idle} \cup [pc : {"read"}, status : Terminal, why : Why, force : BOOLEAN, own : BOOLEAN]
               \cup [pc : {"commit"}, final : Terminal \cup {"retry_wait"},
                     lead : Terminal \cup {"queued", "retry_wait"}, refund : BOOLEAN,
                     why : Why, wrapup : BOOLEAN, restore : {"available", "offline"}, own : BOOLEAN]
               \cup [pc : {"release"}, own : {TRUE}]]]
  /\ crashes \in 0..MaxCrashes /\ faults \in 0..MaxFaults /\ scope \in Scopes

Init ==
  /\ status = [c \in Call |-> "none"] /\ plan = [c \in Call |-> None]
  /\ connected = {} /\ late = {} /\ orphaned = {}
  /\ lease = [c \in Call |-> "none"]
  /\ lead = [l \in Lead |-> "queued"] /\ attempts = [l \in Lead |-> 0]
  /\ sdr = [s \in Sdr |-> "available"] /\ current = [s \in Sdr |-> 0]
  /\ claim = [s \in Sdr |-> "live"] /\ pauses = <<>>
  /\ up = Instance /\ oldKey = {} /\ recovering = [i \in Instance |-> {}]
  /\ online = Sdr /\ leaving = [s \in Sdr |-> "no"] /\ asked = [s \in Sdr |-> NoAsk]
  /\ tick = [i \in Instance |-> NoPick] /\ manual = [i \in Instance |-> None]
  /\ res = [c \in Call |-> NoRes] /\ fin = [i \in Instance |-> [c \in Call |-> Idle]]
  /\ crashes = 0 /\ faults = 0 /\ refunded = {} /\ revived = {} /\ scope \in Scopes
-----------------------------------------------------------------------------
(* Placing a call: the tick and the manual call read rows, reserve in Redis *)
(* and then start the call in a transaction that checks the lead again.     *)

\* Bound: the behaviour has such calls, and one of them is left.
Left == Cardinality({c \in Call : status[c] # "none"}) < scope.calls
Spare(source) == source \in scope.triggers /\ Left

TickScan(i) ==
  /\ i \in up /\ tick[i] = NoPick
  /\ tick' = [tick EXCEPT ![i] =
       [sdrs  |-> {s \in Sdr : sdr[s] = "available" /\ ~BusySdr(s) /\ Spare("automatico")},
        leads |-> {l \in scope.leads : /\ lead[l] \in {"queued", "retry_wait"}
                                       /\ attempts[l] < scope.maxAttempts /\ ~BusyLead(l)
                                       /\ Spare("automatico")}]]
  /\ UNCHANGED <<callVars, rowVars, procVars, deskVars, manual, res, fin, ghosts>>

TickEnd(i) ==
  /\ tick[i] # NoPick
  /\ tick' = [tick EXCEPT ![i] = NoPick]
  /\ UNCHANGED <<callVars, rowVars, procVars, deskVars, manual, res, fin, ghosts>>

ClaimsLead(d, p) == plan[d].lead = p.lead   \* wrong on purpose: no lock on line and SDR

Claims(d, p) == plan[d].lead = p.lead \/ plan[d].sdr = p.sdr \/ plan[d].line = p.line

\* redis.reserve(): refused while the lease of another call claims the lead, SDR or line.
Reserve(c, p) ==
  /\ status[c] = "none" /\ Left
  /\ \A d \in Call : lease[d] = "held" => ~Claims(d, p)
  /\ status' = [status EXCEPT ![c] = "reserving"]
  /\ plan' = [plan EXCEPT ![c] = p]
  /\ lease' = [lease EXCEPT ![c] = "held"]
  /\ UNCHANGED <<connected, late, orphaned, rowVars, procVars, deskVars, res, fin, ghosts>>

TickDial(i, c, l, s, n) ==
  /\ l \in tick[i].leads /\ s \in tick[i].sdrs \cap online /\ Station[s] = i
  /\ Reserve(c, [inst |-> i, lead |-> l, sdr |-> s, line |-> n, auto |-> TRUE,
                 prev |-> "available"])
  /\ tick' = [tick EXCEPT ![i].leads = @ \ {l}]
  /\ UNCHANGED manual

\* manualCall(WithInput): the queue is not asked, only that nobody is in a call.
ManualRead(i, l, s) ==
  /\ Spare("manual") /\ l \in scope.leads
  /\ i \in up /\ manual[i] = None
  /\ ~BusyLead(l)
  /\ s \in online /\ Station[s] = i /\ sdr[s] \in {"available", "offline"} /\ ~BusySdr(s)
  /\ manual' = [manual EXCEPT ![i] = [lead |-> l, sdr |-> s, prev |-> sdr[s]]]
  /\ UNCHANGED <<callVars, rowVars, procVars, deskVars, tick, res, fin, ghosts>>

ManualReserve(i, c, n) ==
  /\ manual[i] # None
  /\ Reserve(c, [inst |-> i, lead |-> manual[i].lead, sdr |-> manual[i].sdr, line |-> n,
                 auto |-> FALSE, prev |-> manual[i].prev])
  /\ manual' = [manual EXCEPT ![i] = None]
  /\ UNCHANGED tick

ManualRefused(i) ==
  /\ manual[i] # None
  /\ manual' = [manual EXCEPT ![i] = None]
  /\ UNCHANGED <<callVars, rowVars, procVars, deskVars, tick, res, fin, ghosts>>

MayStartUnchecked(c) ==   \* wrong on purpose: no look at the active calls
  plan[c].auto => lead[plan[c].lead] \in {"queued", "retry_wait"}

MayStart(c) ==
  LET l == plan[c].lead
  IN /\ ~BusyLead(l)
     /\ plan[c].auto => lead[l] \in {"queued", "retry_wait"} /\ attempts[l] < scope.maxAttempts

StartCommit(c) ==
  LET p == plan[c]
  IN /\ status[c] = "reserving" /\ MayStart(c)
     /\ status' = [status EXCEPT ![c] = "reserved"]
     /\ lead' = [lead EXCEPT ![p.lead] = IF p.auto THEN "reserved" ELSE @]
     /\ attempts' = [attempts EXCEPT ![p.lead] = IF p.auto THEN @ + 1 ELSE @]
     /\ sdr' = [sdr EXCEPT ![p.sdr] = "in_call"]
     /\ res' = [res EXCEPT ![c].mem = "due"]
     /\ UNCHANGED <<plan, connected, late, lease, orphaned, current, pauses, procVars, deskVars,
                    pickVars, fin, ghosts>>

\* The checks or the transaction failed: the reservation is given back.
StartRefused(c) ==
  /\ status[c] = "reserving"
  /\ status' = [status EXCEPT ![c] = "refused"]
  /\ lease' = [lease EXCEPT ![c] = IF @ = "held" THEN "released" ELSE @]
  /\ UNCHANGED <<plan, connected, late, orphaned, rowVars, procVars, deskVars, pickVars, res, fin,
                 ghosts>>

\* active.set(), then attachMedia() when the socket of the SDR is still there.
Register(c) ==
  /\ res[c].mem = "due"
  /\ res' = [res EXCEPT ![c].mem = "yes",
                        ![c].media = IF plan[c].sdr \in online THEN "resolving" ELSE "none"]
  /\ UNCHANGED <<callVars, rowVars, procVars, deskVars, pickVars, fin, ghosts>>

\* Time: the offer window ends; later the lease runs out in Redis.  The TTL is
\* the window plus 60 s, so a lease never lapses while the offer is open, except
\* for a call whose process died before it had a row.
OfferLate(c) ==
  /\ c \notin late /\ res[c].mem # "due"
  /\ Busy(c) \/ (lease[c] = "held" /\ status[c] \notin {"reserving", "refused"})
  /\ late' = late \cup {c}
  /\ UNCHANGED <<status, plan, connected, lease, orphaned, rowVars, procVars, deskVars, pickVars,
                 res, fin, ghosts>>

Lapse(c) ==
  /\ lease[c] = "held" /\ (c \in late \/ status[c] = "refused")
  /\ lease' = [lease EXCEPT ![c] = "lapsed"]
  /\ UNCHANGED <<status, plan, connected, late, orphaned, rowVars, procVars, deskVars, pickVars,
                 res, fin, ghosts>>
-----------------------------------------------------------------------------
(* finishCall(): its first, synchronous part; the SELECT; the transaction;  *)
(* the release of the reservation.                                          *)

\* Ignored while the same process is finishing the call.  "r" is the resource as
\* the caller leaves it; a second finisher no longer finds it in memory.
Begun(i, c, st, why, force, r) ==
  [pc |-> "read", status |-> st, why |-> why, force |-> force,
   own |-> i = Owner(c) /\ r.mem = "yes"]

\* A resource that neither the map nor a socket, timer or query refers to is gone.
Kept(r) ==
  IF r.mem = "no" /\ r.media \in {"none", "closed"} /\ ~r.ring /\ ~r.frame THEN NoRes ELSE r

Taken(i, c, r) ==
  IF i # Owner(c) \/ r.mem # "yes" \/ fin[i][c] # Idle THEN Kept(r)
  ELSE [r EXCEPT !.finishing = TRUE, !.ring = FALSE,
                 !.media = IF @ = "open" THEN "closing" ELSE @]

Finish(i, c, st, why, force, r) ==
  /\ fin' = [fin EXCEPT ![i][c] = IF @ = Idle THEN Begun(i, c, st, why, force, r) ELSE @]
  /\ res' = [res EXCEPT ![c] = Taken(i, c, r)]

Forget(i, c) ==  \* active.delete(), finishingCalls.delete()
  /\ fin' = [fin EXCEPT ![i][c] = Idle]
  /\ res' = [res EXCEPT ![c] = IF i = Owner(c) /\ @.mem = "yes" THEN Kept([@ EXCEPT !.mem = "no"])
                               ELSE @]

OutcomeSwapped(f, c) ==   \* wrong on purpose: the lead's status for the call
  [final |-> IF f.why = "other" THEN f.status ELSE "queued", lead |-> "queued",
   refund |-> f.why # "other"]

OutcomeGenerous(f, c) ==   \* wrong on purpose: a cancelled call is refunded
  [final |-> f.status, lead |-> "queued", refund |-> f.status = "cancelled"]

\* computeCallOutcome()
Outcome(f, c) ==
  LET transient == f.why \in {"rate", "stall"}
      retryable == /\ plan[c].auto /\ ~transient /\ ~f.force
                   /\ f.status \in {"no_answer", "failed"}
                   /\ attempts[plan[c].lead] < scope.maxAttempts
  IN [final |-> IF transient THEN "cancelled" ELSE IF retryable THEN "retry_wait" ELSE f.status,
      lead  |-> IF transient \/ (f.status = "cancelled" /\ ~retryable) THEN "queued"
                ELSE IF retryable THEN "retry_wait" ELSE f.status,
      refund |-> transient]

FinRead(i, c) ==
  LET f == fin[i][c]
      o == Outcome(f, c)
  IN /\ f.pc = "read"
     /\ IF status[c] \in Terminal THEN Forget(i, c)
        ELSE /\ fin' = [fin EXCEPT ![i][c] =
                  [pc |-> "commit", final |-> o.final, lead |-> o.lead, refund |-> o.refund,
                   why |-> f.why, wrapup |-> c \in connected /\ f.why # "stall",
                   restore |-> IF f.own THEN plan[c].prev
                               ELSE IF plan[c].auto THEN "available" ELSE "offline",
                   own |-> f.own]]
             /\ UNCHANGED res
     /\ UNCHANGED <<callVars, rowVars, procVars, deskVars, pickVars, ghosts>>

\* Only the UPDATE of calls looks at the status again.
FinCommit(i, c) ==
  LET f == fin[i][c]
      l == plan[c].lead
      s == plan[c].sdr
  IN /\ f.pc = "commit"
     /\ f.wrapup => Len(pauses) < MaxPauses
     /\ status' = [status EXCEPT ![c] = IF @ \in Terminal THEN @ ELSE f.final]
     /\ lead' = [lead EXCEPT ![l] = IF plan[c].auto THEN f.lead ELSE @]
     /\ attempts' = [attempts EXCEPT ![l] =
                       IF plan[c].auto /\ f.refund THEN (IF @ > 0 THEN @ - 1 ELSE 0) ELSE @]
     /\ refunded' = IF plan[c].auto /\ f.why # "other" THEN refunded \cup {c} ELSE refunded
     /\ pauses' = IF f.wrapup THEN Append(pauses, [sdr |-> s, call |-> c, open |-> TRUE])
                  ELSE pauses
     /\ current' = [current EXCEPT ![s] = IF f.wrapup THEN Len(pauses) + 1 ELSE 0]
     /\ sdr' = [sdr EXCEPT ![s] = IF f.wrapup THEN "post_call" ELSE f.restore]
     /\ IF f.own
        THEN fin' = [fin EXCEPT ![i][c] = [pc |-> "release", own |-> TRUE]] /\ UNCHANGED res
        ELSE Forget(i, c)
     /\ UNCHANGED <<plan, connected, late, lease, orphaned, procVars, deskVars, pickVars, faults,
                    scope, revived>>

FinRelease(i, c) ==
  /\ fin[i][c].pc = "release"
  /\ lease' = [lease EXCEPT ![c] = IF @ = "held" THEN "released" ELSE @]
  /\ Forget(i, c)
  /\ UNCHANGED <<status, plan, connected, late, orphaned, rowVars, procVars, deskVars, pickVars,
                 ghosts>>

\* A query or the release throws: the finally block still forgets the call.
FinFails(i, c) ==
  /\ fin[i][c] # Idle /\ faults < MaxFaults
  /\ faults' = faults + 1
  /\ Forget(i, c)
  /\ UNCHANGED <<callVars, rowVars, procVars, deskVars, pickVars, scope, refunded, revived>>
-----------------------------------------------------------------------------
(* attachMedia() and the handlers of the Waxum socket.  They hold on to the *)
(* CallResource, so they run on after the call has left the active map.     *)

Media(c) == res[c].media
Stays == UNCHANGED <<callVars, rowVars, procVars, deskVars, pickVars, ghosts>>

\* The recipient is known; "finishing" is looked at here, and not again after
\* the entitlement check that still comes before openMedia().
Resolved(c) ==
  /\ Media(c) = "resolving"
  /\ res' = [res EXCEPT ![c] =
       Kept([@ EXCEPT !.media = IF res[c].finishing THEN "none" ELSE "cleared"])]
  /\ Stays /\ UNCHANGED fin

\* A 429, a number without WhatsApp (no retry), or any other failure on the way.
ResolveFails(c) ==
  /\ "failure" \in scope.triggers /\ Media(c) \in {"resolving", "cleared"}
  /\ \E f \in {[st |-> "cancelled", why |-> "rate", force |-> FALSE],
               [st |-> "failed", why |-> "other", force |-> TRUE],
               [st |-> "failed", why |-> "other", force |-> FALSE]} :
       /\ Media(c) = "cleared" => f.st = "failed" /\ ~f.force
       /\ Finish(Owner(c), c, f.st, f.why, f.force, [res[c] EXCEPT !.media = "none"])
  /\ Stays

OpenMedia(c) ==
  /\ Media(c) = "cleared"
  /\ res' = [res EXCEPT ![c].media = "connecting", ![c].ring = TRUE]
  /\ Stays /\ UNCHANGED fin

SocketOpens(c) ==
  /\ Media(c) = "connecting"
  /\ res' = [res EXCEPT ![c].media = "open"]
  /\ Stays /\ UNCHANGED fin

\* waitForOutgoingAnswer() reports the Accept; finishCall() aborts the wait.
Answered(c) ==
  /\ Media(c) = "open" /\ ~res[c].finishing /\ ~res[c].live /\ ~res[c].answered
  /\ res' = [res EXCEPT ![c].answered = TRUE]
  /\ Stays /\ UNCHANGED fin

\* The first frame of the answered call, or of a voice: its UPDATE is sent off.
Frame(c) ==
  /\ Media(c) \in {"open", "closing"} /\ ~res[c].live
  /\ res' = [res EXCEPT ![c].answered = TRUE, ![c].live = TRUE, ![c].ring = FALSE,
                        ![c].frame = TRUE]
  /\ Stays /\ UNCHANGED fin

\* UPDATE calls SET status = 'media_active': whatever the status is by now.
FrameLands(c) ==
  /\ res[c].frame
  /\ res' = [res EXCEPT ![c] = Kept([@ EXCEPT !.frame = FALSE])]
  /\ status' = [status EXCEPT ![c] = "media_active"]
  /\ connected' = connected \cup {c}
  /\ revived' = IF Busy(c) THEN revived ELSE revived \cup {c}
  /\ UNCHANGED <<plan, late, lease, orphaned, rowVars, procVars, deskVars, pickVars, fin, faults,
                 scope, refunded>>

FrameLost(c) ==
  /\ res[c].frame /\ faults < MaxFaults
  /\ faults' = faults + 1
  /\ res' = [res EXCEPT ![c] = Kept([@ EXCEPT !.frame = FALSE])]
  /\ UNCHANGED <<callVars, rowVars, procVars, deskVars, pickVars, fin, scope, refunded, revived>>

\* Answered, and then only zeroes while the SDR speaks.
Stall(c) ==
  /\ "failure" \in scope.triggers /\ Media(c) \in {"open", "closing"}
  /\ res[c].answered /\ ~res[c].finishing
  /\ Finish(Owner(c), c, "failed", "stall", FALSE, res[c])
  /\ Stays

RingTimeout(c) ==
  /\ res[c].ring /\ ~res[c].live /\ ~res[c].answered
  /\ Finish(Owner(c), c, "no_answer", "other", FALSE, [res[c] EXCEPT !.ring = FALSE])
  /\ Stays

\* 'unexpected-response' ends the handshake; 'error' is followed by 'close'.
SocketFails(c) ==
  /\ "failure" \in scope.triggers /\ Media(c) \in {"connecting", "open"}
  /\ \E next \in IF Media(c) = "connecting" THEN {"closed", "broken"} ELSE {"broken"},
        why \in IF Media(c) = "connecting" THEN {"rate", "other"} ELSE {"other"} :
       Finish(Owner(c), c, IF why = "rate" THEN "cancelled" ELSE "failed", why, FALSE,
              [res[c] EXCEPT !.media = next])
  /\ Stays

SocketCloses(c) ==
  /\ Media(c) \in {"connecting", "open", "closing", "broken"}
  /\ Finish(Owner(c), c, IF res[c].live THEN "completed" ELSE "no_answer", "other", FALSE,
            [res[c] EXCEPT !.media = "closed"])
  /\ Stays

\* recordOutcome(): a hangup, a cancel or a broken microphone, while in memory.
SdrHangsUp(c) ==
  /\ "hangup" \in scope.triggers
  /\ res[c].mem = "yes" /\ plan[c].sdr \in online
  /\ \E st \in {"completed", "cancelled", "failed"} :
       Finish(Owner(c), c, st, "other", FALSE, res[c])
  /\ Stays

ExpireOwn(i, c) ==   \* wrong on purpose: only the calls in memory
  /\ i \in up /\ status[c] = "reserved" /\ c \in late
  /\ i = Owner(c) /\ res[c].mem = "yes" /\ fin[i][c] = Idle
  /\ Finish(i, c, "cancelled", "other", TRUE, res[c])
  /\ Stays

\* expireReservations(), by the tick of any process.  It reads its list first and
\* finishes the calls one by one, so a call may be answered in between: FinRead.
Expire(i, c) ==
  /\ i \in up /\ status[c] = "reserved" /\ c \in late
  /\ fin[i][c] = Idle
  /\ Finish(i, c, "cancelled", "other", TRUE, res[c])
  /\ Stays

\* adminForceFinishCall(), after the confirmation when the owner is alive.
AdminFinish(i, c) ==
  /\ "admin" \in scope.triggers
  /\ i \in up /\ status[c] \in Active \cup {"retry_wait"}
  /\ fin[i][c] = Idle
  /\ Finish(i, c, "failed", "other", TRUE, res[c])
  /\ Stays
-----------------------------------------------------------------------------
(* The desk of an SDR: availability, wrap-up, a release by the admin, and   *)
(* the control socket.                                                      *)

AskAvailable(s) ==
  /\ "availability" \in scope.triggers
  /\ s \in online /\ asked[s] = NoAsk
  /\ current[s] = 0 /\ ~BusySdr(s)
  /\ asked' = [asked EXCEPT ![s] = [op |-> "available"]]
  /\ UNCHANGED <<callVars, rowVars, procVars, online, claim, leaving, pickVars, res, fin, ghosts>>

SetAvailable(s) ==
  /\ asked[s].op = "available"
  /\ asked' = [asked EXCEPT ![s] = NoAsk]
  /\ sdr' = [sdr EXCEPT ![s] = "available"]
  /\ UNCHANGED <<callVars, lead, attempts, current, pauses, procVars, online, claim, leaving,
                 pickVars, res, fin, ghosts>>

SetOffline(s) ==
  /\ "availability" \in scope.triggers
  /\ s \in online
  /\ sdr' = [sdr EXCEPT ![s] = "offline"]
  /\ UNCHANGED <<callVars, lead, attempts, current, pauses, procVars, deskVars, pickVars, res, fin,
                 ghosts>>

\* finishPause() with a result that schedules nothing: the connection is checked
\* before the transaction, the pause inside it.
AskWrapUp(s, p, stay) ==
  /\ "wrapup" \in scope.triggers
  /\ asked[s] = NoAsk /\ Station[s] \in up
  /\ pauses[p].sdr = s /\ pauses[p].open
  /\ stay => s \in online
  /\ asked' = [asked EXCEPT ![s] = [op |-> "wrapup", pause |-> p, stay |-> stay]]
  /\ UNCHANGED <<callVars, rowVars, procVars, online, claim, leaving, pickVars, res, fin, ghosts>>

WrapUp(s) ==
  LET a == asked[s]
      isCurrent == current[s] = a.pause
  IN /\ a.op = "wrapup"
     /\ asked' = [asked EXCEPT ![s] = NoAsk]
     /\ IF pauses[a.pause].open
        THEN /\ pauses' = [pauses EXCEPT ![a.pause].open = FALSE]
             /\ current' = [current EXCEPT ![s] = IF isCurrent THEN 0 ELSE @]
             /\ sdr' = [sdr EXCEPT ![s] = IF ~isCurrent THEN @
                                          ELSE IF a.stay THEN "available" ELSE "offline"]
        ELSE UNCHANGED <<pauses, current, sdr>>
     /\ UNCHANGED <<callVars, lead, attempts, procVars, online, claim, leaving, pickVars, res, fin,
                    ghosts>>

\* adminForceReleaseSdr(): finish the active call, if any, wait, and free the SDR.
AskFree(i, s) ==
  /\ "admin" \in scope.triggers
  /\ i \in up /\ asked[s] = NoAsk /\ sdr[s] \in {"in_call", "post_call"}
  /\ \/ /\ ~BusySdr(s)
        /\ asked' = [asked EXCEPT ![s] = [op |-> "free", inst |-> i, waits |-> None]]
        /\ UNCHANGED <<res, fin>>
     \/ \E c \in CallsOf(s) :
          /\ Busy(c)
          /\ asked' = [asked EXCEPT ![s] =
               [op |-> "free", inst |-> i, waits |-> IF fin[i][c] = Idle THEN c ELSE None]]
          /\ Finish(i, c, "failed", "other", TRUE, res[c])
  /\ UNCHANGED <<callVars, rowVars, procVars, online, claim, leaving, pickVars, ghosts>>

Free(s) ==
  /\ asked[s].op = "free"
  /\ asked[s].waits # None => fin[asked[s].inst][asked[s].waits] = Idle
  /\ asked' = [asked EXCEPT ![s] = NoAsk]
  /\ pauses' = [p \in DOMAIN pauses |-> IF pauses[p].sdr = s THEN [pauses[p] EXCEPT !.open = FALSE]
                                        ELSE pauses[p]]
  /\ current' = [current EXCEPT ![s] = 0]
  /\ sdr' = [sdr EXCEPT ![s] = "available"]
  /\ UNCHANGED <<callVars, lead, attempts, procVars, online, claim, leaving, pickVars, res, fin,
                 ghosts>>

\* The socket closes: the handlers of gateway and calls run before any query.
Disconnect(s) ==
  LET i == Station[s]
      watched == {c \in InMemory(s) : /\ Media(c) \notin {"none", "resolving", "cleared"}
                                      /\ ~res[c].finishing}  \* with a browserCloseHandler
      end(c) == IF res[c].live THEN "failed" ELSE "cancelled"
  IN /\ "socket" \in scope.triggers
     /\ s \in online /\ leaving[s] = "no"
     /\ online' = online \ {s}
     /\ leaving' = [leaving EXCEPT ![s] = "update"]
     /\ fin' = [fin EXCEPT ![i] = [c \in Call |->
          IF c \in watched /\ @[c] = Idle THEN Begun(i, c, end(c), "other", FALSE, res[c])
          ELSE @[c]]]
     /\ res' = [c \in Call |-> IF c \in watched THEN Taken(i, c, res[c]) ELSE res[c]]
     /\ UNCHANGED <<callVars, rowVars, procVars, claim, asked, pickVars, ghosts>>

\* wrong on purpose: asks the state, not the pause
WhenGoneByState(s) == IF sdr[s] = "in_call" THEN "post_call" ELSE "offline"

WhenGone(s) == IF current[s] = 0 THEN "offline" ELSE "post_call"

\* controlClosed()
LeaveUpdate(s) ==
  /\ leaving[s] = "update"
  /\ leaving' = [leaving EXCEPT ![s] = "calls"]
  /\ claim' = [claim EXCEPT ![s] = "none"]
  /\ sdr' = [sdr EXCEPT ![s] = IF current[s] = 0 THEN "offline" ELSE @]
  /\ UNCHANGED <<callVars, lead, attempts, current, pauses, procVars, online, asked, pickVars, res,
                 fin, ghosts>>

\* handleSdrDisconnected(): a call that is being finished already is not waited for.
LeaveCall(s, c) ==
  /\ leaving[s] = "calls" /\ c \in InMemory(s) /\ fin[Station[s]][c] = Idle
  /\ leaving' = [leaving EXCEPT ![s] = c]
  /\ Finish(Station[s], c, "failed", "other", FALSE, res[c])
  /\ UNCHANGED <<callVars, rowVars, procVars, online, claim, asked, pickVars, ghosts>>

LeaveNext(s) ==
  /\ leaving[s] \in Call /\ fin[Station[s]][leaving[s]] = Idle
  /\ leaving' = [leaving EXCEPT ![s] = "calls"]
  /\ UNCHANGED <<callVars, rowVars, procVars, online, claim, asked, pickVars, res, fin, ghosts>>

LeaveDone(s) ==
  /\ leaving[s] = "calls"
  /\ \A c \in InMemory(s) : fin[Station[s]][c] # Idle
  /\ leaving' = [leaving EXCEPT ![s] = "no"]
  /\ sdr' = [sdr EXCEPT ![s] = WhenGone(s)]
  /\ UNCHANGED <<callVars, lead, attempts, current, pauses, procVars, online, claim, asked,
                 pickVars, res, fin, ghosts>>

\* 'identify'
Connect(s) ==
  /\ s \notin online /\ Station[s] \in up
  /\ online' = online \cup {s}
  /\ claim' = [claim EXCEPT ![s] = "live"]
  /\ UNCHANGED <<callVars, rowVars, procVars, leaving, asked, pickVars, res, fin, ghosts>>
-----------------------------------------------------------------------------
(* Processes crash, their heartbeat keys run out, and they start again.     *)

Owned(i) == {c \in Call : plan[c] # None /\ Owner(c) = i}

Crash(i) ==
  /\ i \in up /\ crashes < MaxCrashes
  /\ crashes' = crashes + 1
  /\ up' = up \ {i} /\ oldKey' = oldKey \cup {i}
  /\ recovering' = [recovering EXCEPT ![i] = {}]
  /\ online' = {s \in online : Station[s] # i}
  /\ claim' = [s \in Sdr |-> IF Station[s] = i /\ claim[s] = "live" THEN "dead" ELSE claim[s]]
  /\ leaving' = [s \in Sdr |-> IF Station[s] = i THEN "no" ELSE leaving[s]]
  /\ asked' = [s \in Sdr |->
       IF i = (IF asked[s].op = "free" THEN asked[s].inst ELSE Station[s]) THEN NoAsk ELSE asked[s]]
  /\ tick' = [tick EXCEPT ![i] = NoPick] /\ manual' = [manual EXCEPT ![i] = None]
  /\ res' = [c \in Call |-> IF c \in Owned(i) THEN NoRes ELSE res[c]]
  /\ fin' = [fin EXCEPT ![i] = [c \in Call |-> Idle]]
  /\ status' = [c \in Call |-> IF c \in Owned(i) /\ status[c] = "reserving" THEN "refused"
                               ELSE status[c]]
  /\ orphaned' = orphaned \cup Owned(i)
  /\ UNCHANGED <<plan, connected, late, lease, rowVars, ghosts>>

KeyExpires(i) ==
  /\ i \in oldKey
  /\ oldKey' = oldKey \ {i}
  /\ UNCHANGED <<callVars, rowVars, up, recovering, crashes, deskVars, pickVars, res, fin, ghosts>>

\* onModuleInit(): the heartbeat first, then resetStaleSdrPresence(), then the list
\* of the active calls for recoverInterruptedCalls().
Restart(i) ==
  /\ i \notin up
  /\ up' = up \cup {i}
  /\ LET alive(j) == j \in oldKey \/ (FixedIds /\ j \in up \cup {i})
         dead(s) == claim[s] = "dead" /\ ~alive(Station[s])
         reset == {s \in Sdr : (claim[s] = "none" /\ sdr[s] = "available") \/ dead(s)}
     IN /\ claim' = [s \in Sdr |-> IF s \in reset THEN "none" ELSE claim[s]]
        /\ sdr' = [s \in Sdr |-> IF s \in reset THEN WhenGone(s) ELSE sdr[s]]
  /\ recovering' = [recovering EXCEPT ![i] = {c \in Call : Busy(c)}]
  /\ UNCHANGED <<callVars, lead, attempts, current, pauses, oldKey, crashes, online, leaving, asked,
                 pickVars, res, fin, ghosts>>

\* One row of the list: left alone while the heartbeat key of its owner exists.
Recover(i, c) ==
  /\ c \in recovering[i]
  /\ recovering' = [recovering EXCEPT ![i] = @ \ {c}]
  /\ IF c \notin orphaned \/ IdAlive(Owner(c))
     THEN UNCHANGED <<res, fin>>
     ELSE Finish(i, c, "failed", "other", FALSE, res[c])
  /\ UNCHANGED <<callVars, rowVars, up, oldKey, crashes, deskVars, pickVars, ghosts>>
-----------------------------------------------------------------------------
Place(i) ==
  \/ TickScan(i) \/ TickEnd(i) \/ ManualRefused(i)
  \/ \E l \in Lead, s \in Sdr : ManualRead(i, l, s)
  \/ \E c \in Call, n \in Line : ManualReserve(i, c, n)
  \/ \E c \in Call, l \in Lead, s \in Sdr, n \in Line : TickDial(i, c, l, s, n)

Begin(c) == StartCommit(c) \/ StartRefused(c) \/ Register(c) \/ OfferLate(c) \/ Lapse(c)

Talk(c) ==
  \/ Resolved(c) \/ ResolveFails(c) \/ OpenMedia(c) \/ SocketOpens(c) \/ Answered(c)
  \/ Frame(c) \/ FrameLands(c) \/ FrameLost(c) \/ Stall(c) \/ RingTimeout(c)
  \/ SocketFails(c) \/ SocketCloses(c) \/ SdrHangsUp(c)

End(i, c) ==
  \/ FinRead(i, c) \/ FinCommit(i, c) \/ FinRelease(i, c) \/ FinFails(i, c)
  \/ Expire(i, c) \/ AdminFinish(i, c) \/ Recover(i, c)

Desk(s) ==
  \/ AskAvailable(s) \/ SetAvailable(s) \/ SetOffline(s)
  \/ \E p \in DOMAIN pauses, stay \in BOOLEAN : AskWrapUp(s, p, stay)
  \/ WrapUp(s) \/ (\E i \in Instance : AskFree(i, s)) \/ Free(s)
  \/ Disconnect(s) \/ LeaveUpdate(s) \/ (\E c \in Call : LeaveCall(s, c)) \/ LeaveNext(s)
  \/ LeaveDone(s) \/ Connect(s)

Process(i) == Crash(i) \/ KeyExpires(i) \/ Restart(i)

Next ==
  \/ \E i \in Instance : Place(i) \/ Process(i)
  \/ \E c \in Call : Begin(c) \/ Talk(c)
  \/ \E i \in Instance, c \in Call : End(i, c)
  \/ \E s \in Sdr : Desk(s)

Spec == Init /\ [][Next]_vars

\* Queries return, the ring and offer timers fire, a tick runs every second and
\* the container restarts a crashed process.
Fairness ==
  /\ \A c \in Call : WF_vars(Register(c)) /\ WF_vars(OfferLate(c))
  /\ \A i \in Instance : WF_vars(Restart(i)) /\ WF_vars(KeyExpires(i))
  /\ \A i \in Instance, c \in Call :
       /\ WF_vars(FinRead(i, c)) /\ WF_vars(FinCommit(i, c)) /\ WF_vars(FinRelease(i, c))
       /\ WF_vars(Expire(i, c)) /\ WF_vars(Recover(i, c))

FairSpec == Spec /\ Fairness
-----------------------------------------------------------------------------
Standing(c) == Busy(c) /\ c \notin revived   \* active, and never ended so far

\* A lead is in one call at a time, however many processes dial it, however stale
\* the rows they have read and even after a lease has run out: the check of
\* startReservedCall() under the lock of the lead's row is the last barrier.
LeadExclusive ==
  \A c, d \in Call :
    c # d /\ Standing(c) /\ Standing(d) => plan[c].lead # plan[d].lead

\* Two calls are on one line, or with one SDR, only when the lease of one of them
\* ran out under it: finishCall() gives the lease back after the call has ended.
SharedOnlyAfterLapse ==
  \A c, d \in Call :
    /\ c # d /\ Standing(c) /\ Standing(d)
    /\ plan[c].line = plan[d].line \/ plan[c].sdr = plan[d].sdr
    => "lapsed" \in {lease[c], lease[d]}

\* A lead has spent one attempt for every automatic call that was placed and did
\* not end by a rate limit or a stalled line, whoever ended it and how often.
Placed(c) == plan[c] # None /\ status[c] \notin {"none", "reserving", "refused"}
AttemptsAccounted ==
  \A l \in Lead :
    attempts[l] = Cardinality({c \in Call : /\ Placed(c) /\ plan[c].auto /\ plan[c].lead = l
                                            /\ c \notin refunded})

\* An SDR shown in wrap-up has a wrap-up to finish, and it is theirs.
PostCallHasPause ==
  \A s \in Sdr :
    /\ sdr[s] = "post_call" => current[s] # 0
    /\ current[s] # 0 => pauses[current[s]].open /\ pauses[current[s]].sdr = s

\* A call that is only offered does not stay so: it is answered, ends or expires,
\* whichever process crashes.
OfferResolved == \A c \in Call : (status[c] = "reserved") ~> (status[c] # "reserved")
-----------------------------------------------------------------------------
(* What the documents, comments and tests say, and the code does not keep.  *)

\* "uma linha não pode ser usada por dois SDRs" (politica-discador-whatsapp.md)
LineNotShared ==
  \A c, d \in Call :
    /\ c # d /\ status[c] = "media_active" /\ Standing(c) /\ Standing(d)
    /\ plan[c].sdr # plan[d].sdr
    => plan[c].line # plan[d].line

\* "distinguish calls [...] belonging to a live process from work left by a crashed
\* one" (runtime-instance.ts): what a crash left behind is recovered.
OrphansRecovered == \A c \in Call : (c \in orphaned /\ Busy(c)) ~> ~Busy(c)

\* The rows keep their types, and whoever is in wrap-up can end it (finishCall).
DeskInv == TypeOK /\ PostCallHasPause
=============================================================================
