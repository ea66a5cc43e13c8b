------------------------ MODULE CallLifecycleProofs ------------------------
(***************************************************************************)
(* Proved for any number of processes, calls, leads, SDRs and lines, and   *)
(* any crashes and failed queries, in this order:                          *)
(*  - a lead is in one call at a time.  Only three actions matter:         *)
(*    StartCommit, which checks the lead again, FinCommit, which never     *)
(*    sets a call active, and FrameLands, which may set an ended call      *)
(*    active once more;                                                    *)
(*  - two calls share a line or an SDR only after a lease has lapsed;      *)
(*  - the rows keep their types, and whoever is in wrap-up can end it;     *)
(*  - leads.attempts counts the automatic calls that no rate limit and no  *)
(*    stalled line has ended.                                              *)
(***************************************************************************)
EXTENDS CallLifecycle, FiniteSetTheorems, TLAPS

\* What finishCall() carries from one step to the next.
StepOK(f) ==
  /\ f.pc = "read" => f.status \in Terminal
  /\ f.pc = "commit" => f.final \in Terminal \cup {"retry_wait"}

FinOK ==
  /\ DOMAIN fin = Instance
  /\ \A i \in Instance : DOMAIN fin[i] = Call
  /\ \A i \in Instance, c \in Call : StepOK(fin[i][c])

CallsOK == DOMAIN status = Call /\ DOMAIN plan = Call

LeadInv == CallsOK /\ FinOK /\ LeadExclusive

\* Leaves the calls as they are.
Quiet == UNCHANGED <<status, plan, revived>>

LEMMA QuietKeeps == LeadInv /\ Quiet => CallsOK' /\ LeadExclusive'
BY DEF LeadInv, Quiet, CallsOK, LeadExclusive, Standing, Busy

LEMMA FinKeeps == FinOK /\ UNCHANGED fin => FinOK'
BY DEF FinOK, StepOK

LEMMA FinSet ==
  ASSUME FinOK, NEW i, NEW c, NEW v, StepOK(v), fin' = [fin EXCEPT ![i][c] = v]
  PROVE  FinOK'
BY DEF FinOK, StepOK

LEMMA BegunOK ==
  ASSUME NEW i, NEW c, NEW st \in Terminal, NEW why, NEW force, NEW r
  PROVE  StepOK(Begun(i, c, st, why, force, r))
BY DEF StepOK, Begun

LEMMA FinishKeeps ==
  ASSUME FinOK, NEW i, NEW c, NEW st \in Terminal, NEW why, NEW force, NEW r,
         Finish(i, c, st, why, force, r)
  PROVE  FinOK'
<1> DEFINE b == Begun(i, c, st, why, force, r)
<1>1. StepOK(b) BY BegunOK
<1>2. fin' = [fin EXCEPT ![i][c] = IF @ = Idle THEN b ELSE @] BY DEF Finish
<1> HIDE DEF b
<1> QED BY <1>1, <1>2 DEF FinOK, StepOK

LEMMA ForgetKeeps == ASSUME FinOK, NEW i, NEW c, Forget(i, c) PROVE FinOK'
<1>1. StepOK(Idle) BY DEF StepOK, Idle
<1> QED BY <1>1, FinSet DEF Forget
-----------------------------------------------------------------------------
\* A call that is not active, and is given another status and plan, disturbs nothing.
LEMMA InactiveKeeps ==
  ASSUME LeadInv, NEW c \in Call, ~Busy(c)',
         DOMAIN status' = Call, DOMAIN plan' = Call,
         \A d \in Call : d # c => status'[d] = status[d] /\ plan'[d] = plan[d],
         revived \subseteq revived'
  PROVE  CallsOK' /\ LeadExclusive'
BY DEF LeadInv, CallsOK, LeadExclusive, Standing, Busy

LEMMA ReserveKeeps ==
  ASSUME LeadInv, NEW c \in Call, NEW p, Reserve(c, p)
  PROVE  LeadInv'
<1>1. /\ status' = [status EXCEPT ![c] = "reserving"] /\ plan' = [plan EXCEPT ![c] = p]
      /\ revived' = revived /\ fin' = fin
  BY DEF Reserve, ghosts
<1>2. CallsOK' /\ LeadExclusive' BY <1>1, InactiveKeeps DEF LeadInv, CallsOK, Busy, Active
<1> QED BY <1>1, <1>2, FinKeeps DEF LeadInv

LEMMA PlaceKeeps == ASSUME LeadInv, NEW i \in Instance, Place(i) PROVE LeadInv'
<1>1. ASSUME TickScan(i) \/ TickEnd(i) \/ ManualRefused(i) PROVE LeadInv'
  <2>1. Quiet /\ UNCHANGED fin
    BY <1>1 DEF TickScan, TickEnd, ManualRefused, Quiet, callVars, ghosts
  <2> QED BY <2>1, QuietKeeps, FinKeeps DEF LeadInv
<1>2. ASSUME NEW l \in Lead, NEW s \in Sdr, ManualRead(i, l, s) PROVE LeadInv'
  <2>1. Quiet /\ UNCHANGED fin BY <1>2 DEF ManualRead, Quiet, callVars, ghosts
  <2> QED BY <2>1, QuietKeeps, FinKeeps DEF LeadInv
<1>3. ASSUME NEW c \in Call, NEW n \in Line, ManualReserve(i, c, n) PROVE LeadInv'
  BY <1>3, ReserveKeeps DEF ManualReserve
<1>4. ASSUME NEW c \in Call, NEW l \in Lead, NEW s \in Sdr, NEW n \in Line, TickDial(i, c, l, s, n)
      PROVE  LeadInv'
  BY <1>4, ReserveKeeps DEF TickDial
<1> QED BY <1>1, <1>2, <1>3, <1>4 DEF Place

\* The check that matters: no active call has the lead of the call that starts.
LEMMA StartKeeps == ASSUME LeadInv, NEW c \in Call, StartCommit(c) PROVE LeadInv'
<1>1. /\ status' = [status EXCEPT ![c] = "reserved"]
      /\ plan' = plan /\ revived' = revived /\ fin' = fin
  BY DEF StartCommit, ghosts
<1>2. \A d \in Call : Busy(d) => plan[d].lead # plan[c].lead
  BY DEF StartCommit, MayStart, BusyLead
<1>3. CallsOK' BY <1>1 DEF LeadInv, CallsOK
<1>4. \A d \in Call : d # c => (Standing(d)' <=> Standing(d))
  BY <1>1 DEF LeadInv, CallsOK, Standing, Busy
<1>5. LeadExclusive' BY <1>1, <1>2, <1>4 DEF LeadInv, LeadExclusive, Standing
<1> QED BY <1>1, <1>3, <1>5, FinKeeps DEF LeadInv

LEMMA BeginKeeps == ASSUME LeadInv, NEW c \in Call, Begin(c) PROVE LeadInv'
<1>1. CASE StartCommit(c) BY <1>1, StartKeeps
<1>2. CASE StartRefused(c)
  <2>1. /\ status' = [status EXCEPT ![c] = "refused"] /\ plan' = plan
        /\ revived' = revived /\ fin' = fin
    BY <1>2 DEF StartRefused, ghosts
  <2>2. CallsOK' /\ LeadExclusive' BY <2>1, InactiveKeeps DEF LeadInv, CallsOK, Busy, Active
  <2> QED BY <2>1, <2>2, FinKeeps DEF LeadInv
<1>3. CASE Register(c) \/ OfferLate(c) \/ Lapse(c)
  <2>1. Quiet /\ UNCHANGED fin
    BY <1>3 DEF Register, OfferLate, Lapse, Quiet, callVars, ghosts
  <2> QED BY <2>1, QuietKeeps, FinKeeps DEF LeadInv
<1> QED BY <1>1, <1>2, <1>3 DEF Begin
-----------------------------------------------------------------------------
\* A late UPDATE of a call that has ended makes it active, but no longer Standing.
LEMMA FrameLandsKeeps == ASSUME LeadInv, NEW c \in Call, FrameLands(c) PROVE LeadInv'
<1>1. /\ status' = [status EXCEPT ![c] = "media_active"] /\ plan' = plan /\ fin' = fin
      /\ revived' = IF Busy(c) THEN revived ELSE revived \cup {c}
  BY DEF FrameLands
<1>2. CallsOK' BY <1>1 DEF LeadInv, CallsOK
<1>3. \A d \in Call : Standing(d)' => Standing(d)
  BY <1>1 DEF LeadInv, CallsOK, Standing, Busy
<1>4. LeadExclusive' BY <1>1, <1>3 DEF LeadInv, LeadExclusive
<1> QED BY <1>1, <1>2, <1>4, FinKeeps DEF LeadInv

LEMMA StaysIsQuiet == Stays => Quiet
BY DEF Stays, Quiet, callVars, ghosts

LEMMA FinishIsQuiet ==
  ASSUME LeadInv, Quiet, NEW i, NEW c, NEW st \in Terminal, NEW why, NEW force, NEW r,
         Finish(i, c, st, why, force, r)
  PROVE  LeadInv'
BY QuietKeeps, FinishKeeps DEF LeadInv

LEMMA TalkKeeps == ASSUME LeadInv, NEW c \in Call, Talk(c) PROVE LeadInv'
<1>1. ASSUME Resolved(c) \/ OpenMedia(c) \/ SocketOpens(c) \/ Answered(c) \/ Frame(c) \/ FrameLost(c)
      PROVE  LeadInv'
  <2>1. Quiet /\ UNCHANGED fin
    BY <1>1, StaysIsQuiet
    DEF Resolved, OpenMedia, SocketOpens, Answered, Frame, FrameLost, Quiet, callVars
  <2> QED BY <2>1, QuietKeeps, FinKeeps DEF LeadInv
<1>2. CASE FrameLands(c) BY <1>2, FrameLandsKeeps
<1>3. CASE ResolveFails(c)
  BY <1>3, StaysIsQuiet, FinishIsQuiet DEF ResolveFails, Terminal
<1>4. CASE Stall(c)
  BY <1>4, StaysIsQuiet, FinishIsQuiet DEF Stall, Terminal
<1>5. CASE RingTimeout(c)
  BY <1>5, StaysIsQuiet, FinishIsQuiet DEF RingTimeout, Terminal
<1>6. CASE SocketFails(c)
  BY <1>6, StaysIsQuiet, FinishIsQuiet DEF SocketFails, Terminal
<1>7. CASE SocketCloses(c)
  BY <1>7, StaysIsQuiet, FinishIsQuiet DEF SocketCloses, Terminal
<1>8. CASE SdrHangsUp(c)
  BY <1>8, StaysIsQuiet, FinishIsQuiet DEF SdrHangsUp, Terminal
<1> QED BY <1>1, <1>2, <1>3, <1>4, <1>5, <1>6, <1>7, <1>8 DEF Talk
-----------------------------------------------------------------------------
\* computeCallOutcome() never leaves a call active.
LEMMA OutcomeEnds ==
  ASSUME NEW f, NEW c, f.status \in Terminal
  PROVE  Outcome(f, c).final \in Terminal \cup {"retry_wait"}
BY DEF Outcome, Terminal

LEMMA FinReadKeeps ==
  ASSUME LeadInv, NEW i \in Instance, NEW c \in Call, FinRead(i, c)
  PROVE  LeadInv'
<1>1. Quiet BY DEF FinRead, Quiet, callVars, ghosts
<1>2. CASE Forget(i, c) BY <1>1, <1>2, QuietKeeps, ForgetKeeps DEF LeadInv
<1>3. CASE ~Forget(i, c)
  <2>1. fin[i][c].status \in Terminal BY DEF LeadInv, FinOK, StepOK, FinRead
  <2> DEFINE f == fin[i][c]
             o == Outcome(f, c)
             v == [pc |-> "commit", final |-> o.final, lead |-> o.lead, refund |-> o.refund,
                   why |-> f.why, wrapup |-> c \in connected /\ f.why # "stall",
                   restore |-> IF f.own THEN plan[c].prev
                               ELSE IF plan[c].auto THEN "available" ELSE "offline",
                   own |-> f.own]
  <2>2. fin' = [fin EXCEPT ![i][c] = v] BY <1>3, Zenon DEF FinRead
  <2>3. StepOK(v) BY <2>1, OutcomeEnds DEF StepOK
  <2> HIDE DEF v
  <2> QED BY <1>1, <2>2, <2>3, QuietKeeps, FinSet DEF LeadInv
<1> QED BY <1>2, <1>3

LEMMA FinCommitKeeps ==
  ASSUME LeadInv, NEW i \in Instance, NEW c \in Call, FinCommit(i, c)
  PROVE  LeadInv'
<1>1. fin[i][c].final \notin Active
  BY DEF LeadInv, FinOK, StepOK, FinCommit, Terminal, Active
<1>2. /\ status' = [status EXCEPT ![c] = IF @ \in Terminal THEN @ ELSE fin[i][c].final]
      /\ plan' = plan /\ revived' = revived
  BY DEF FinCommit
<1>3. ~Busy(c)' BY <1>1, <1>2 DEF LeadInv, CallsOK, Busy, Active, Terminal
<1>4. CallsOK' /\ LeadExclusive' BY <1>2, <1>3, InactiveKeeps DEF LeadInv, CallsOK
<1>5. CASE Forget(i, c) BY <1>4, <1>5, ForgetKeeps DEF LeadInv
<1>6. CASE ~Forget(i, c)
  <2>1. fin' = [fin EXCEPT ![i][c] = [pc |-> "release", own |-> TRUE]] BY <1>6 DEF FinCommit
  <2>2. StepOK([pc |-> "release", own |-> TRUE]) BY DEF StepOK
  <2> QED BY <1>4, <2>1, <2>2, FinSet DEF LeadInv
<1> QED BY <1>5, <1>6

LEMMA EndKeeps ==
  ASSUME LeadInv, NEW i \in Instance, NEW c \in Call, End(i, c)
  PROVE  LeadInv'
<1>1. CASE FinRead(i, c) BY <1>1, FinReadKeeps
<1>2. CASE FinCommit(i, c) BY <1>2, FinCommitKeeps
<1>3. CASE FinRelease(i, c) \/ FinFails(i, c)
  <2>1. Quiet /\ Forget(i, c) BY <1>3 DEF FinRelease, FinFails, Quiet, callVars, ghosts
  <2> QED BY <2>1, QuietKeeps, ForgetKeeps DEF LeadInv
<1>4. CASE Expire(i, c)
  BY <1>4, StaysIsQuiet, FinishIsQuiet DEF Expire, Terminal
<1>5. CASE AdminFinish(i, c)
  BY <1>5, StaysIsQuiet, FinishIsQuiet DEF AdminFinish, Terminal
<1>6. CASE Recover(i, c)
  <2>1. Quiet BY <1>6 DEF Recover, Quiet, callVars, ghosts
  <2>2. UNCHANGED fin \/ Finish(i, c, "failed", "other", FALSE, res[c]) BY <1>6 DEF Recover
  <2> QED BY <2>1, <2>2, QuietKeeps, FinKeeps, FinishIsQuiet DEF LeadInv, Terminal
<1> QED BY <1>1, <1>2, <1>3, <1>4, <1>5, <1>6 DEF End
-----------------------------------------------------------------------------
LEMMA DisconnectKeeps == ASSUME LeadInv, NEW s \in Sdr, Disconnect(s) PROVE LeadInv'
<1>1. Quiet BY DEF Disconnect, Quiet, callVars, ghosts
<1>2. Station[s] \in Instance BY StationKnown
<1>3. \A j \in Instance : j # Station[s] => fin'[j] = fin[j]
  BY <1>2 DEF Disconnect, LeadInv, FinOK
<1>4. DOMAIN fin' = Instance /\ DOMAIN fin'[Station[s]] = Call
  BY <1>2 DEF Disconnect, LeadInv, FinOK
<1>5. ASSUME NEW c \in Call PROVE StepOK(fin'[Station[s]][c])
  <2>1. PICK st \in {"failed", "cancelled"} :
          fin'[Station[s]][c] \in
            {Begun(Station[s], c, st, "other", FALSE, res[c]), fin[Station[s]][c]}
    BY <1>2 DEF Disconnect, LeadInv, FinOK
  <2>2. st \in Terminal BY DEF Terminal
  <2>3. StepOK(Begun(Station[s], c, st, "other", FALSE, res[c])) BY <2>2, BegunOK
  <2> QED BY <1>2, <2>1, <2>3 DEF LeadInv, FinOK
<1>6. FinOK' BY <1>2, <1>3, <1>4, <1>5 DEF LeadInv, FinOK, StepOK
<1> QED BY <1>1, <1>6, QuietKeeps DEF LeadInv

LEMMA DeskKeeps == ASSUME LeadInv, NEW s \in Sdr, Desk(s) PROVE LeadInv'
<1>1. ASSUME AskAvailable(s) \/ SetAvailable(s) \/ SetOffline(s) \/ WrapUp(s) \/ Free(s)
             \/ LeaveUpdate(s) \/ LeaveNext(s) \/ LeaveDone(s) \/ Connect(s)
      PROVE  LeadInv'
  <2>1. Quiet /\ UNCHANGED fin
    BY <1>1 DEF AskAvailable, SetAvailable, SetOffline, WrapUp, Free, LeaveUpdate, LeaveNext,
                LeaveDone, Connect, Quiet, callVars, ghosts
  <2> QED BY <2>1, QuietKeeps, FinKeeps DEF LeadInv
<1>2. ASSUME NEW p \in DOMAIN pauses, NEW stay \in BOOLEAN, AskWrapUp(s, p, stay) PROVE LeadInv'
  <2>1. Quiet /\ UNCHANGED fin BY <1>2 DEF AskWrapUp, Quiet, callVars, ghosts
  <2> QED BY <2>1, QuietKeeps, FinKeeps DEF LeadInv
<1>3. ASSUME NEW i \in Instance, AskFree(i, s) PROVE LeadInv'
  <2>1. Quiet BY <1>3 DEF AskFree, Quiet, callVars, ghosts
  <2>2. UNCHANGED fin \/ \E c \in CallsOf(s) : Finish(i, c, "failed", "other", TRUE, res[c])
    BY <1>3 DEF AskFree
  <2> QED BY <2>1, <2>2, QuietKeeps, FinKeeps, FinishIsQuiet DEF LeadInv, Terminal
<1>4. CASE Disconnect(s) BY <1>4, DisconnectKeeps
<1>5. ASSUME NEW c \in Call, LeaveCall(s, c) PROVE LeadInv'
  <2>1. Quiet BY <1>5 DEF LeaveCall, Quiet, callVars, ghosts
  <2> QED BY <1>5, <2>1, FinishIsQuiet DEF LeaveCall, Terminal
<1> QED BY <1>1, <1>2, <1>3, <1>4, <1>5 DEF Desk

LEMMA CrashKeeps == ASSUME LeadInv, NEW i \in Instance, Crash(i) PROVE LeadInv'
<1>1. /\ status' = [c \in Call |-> IF c \in Owned(i) /\ status[c] = "reserving" THEN "refused"
                                   ELSE status[c]]
      /\ plan' = plan /\ revived' = revived
      /\ fin' = [fin EXCEPT ![i] = [c \in Call |-> Idle]]
  BY DEF Crash, ghosts
<1>2. CallsOK' BY <1>1 DEF LeadInv, CallsOK
<1>3. \A c \in Call : Standing(c)' => Standing(c)
  BY <1>1 DEF Standing, Busy, Active
<1>4. LeadExclusive' BY <1>1, <1>3 DEF LeadInv, LeadExclusive
<1>5. FinOK' BY <1>1 DEF LeadInv, FinOK, StepOK, Idle
<1> QED BY <1>2, <1>4, <1>5 DEF LeadInv

LEMMA ProcessKeeps == ASSUME LeadInv, NEW i \in Instance, Process(i) PROVE LeadInv'
<1>1. CASE Crash(i) BY <1>1, CrashKeeps
<1>2. CASE KeyExpires(i) \/ Restart(i)
  <2>1. Quiet /\ UNCHANGED fin BY <1>2 DEF KeyExpires, Restart, Quiet, callVars, ghosts
  <2> QED BY <2>1, QuietKeeps, FinKeeps DEF LeadInv
<1> QED BY <1>1, <1>2 DEF Process
-----------------------------------------------------------------------------
LEMMA InitLead == Init => LeadInv
BY DEF Init, LeadInv, CallsOK, FinOK, StepOK, Idle, LeadExclusive, Standing, Busy, Active

LEMMA StepLead == LeadInv /\ [Next]_vars => LeadInv'
<1> SUFFICES ASSUME LeadInv, [Next]_vars PROVE LeadInv'
  OBVIOUS
<1>1. CASE UNCHANGED vars
  <2>1. Quiet /\ UNCHANGED fin BY <1>1 DEF vars, callVars, ghosts, Quiet
  <2> QED BY <2>1, QuietKeeps, FinKeeps DEF LeadInv
<1>2. CASE Next
  BY <1>2, PlaceKeeps, BeginKeeps, TalkKeeps, EndKeeps, DeskKeeps, ProcessKeeps DEF Next
<1> QED BY <1>1, <1>2

\* Two calls that stand never have the same lead, whatever leases have lapsed,
\* whatever rows are stale and whichever processes have crashed.
THEOREM OneCallPerLead == Spec => []LeadExclusive
<1>1. LeadInv => LeadExclusive BY DEF LeadInv
<1> QED BY <1>1, InitLead, StepLead, PTL DEF Spec
-----------------------------------------------------------------------------
(* Lines and SDRs: two calls share one only after a lease has run out.     *)

\* A call that has ended, or has been set active again after it had ended: it
\* never stands again.
Over(c) == c \in revived \/ status[c] \in {"refused", "retry_wait"} \cup Terminal

\* Two held leases claim nothing in common.
HeldApart ==
  \A c, d \in Call : c # d /\ lease[c] = "held" /\ lease[d] = "held" => ~Claims(d, plan[c])

\* Whoever has no lease, or gave it back, has not begun or is over.
GivenBackIsOver ==
  \A c \in Call : lease[c] \in {"none", "released"} => Over(c) \/ status[c] = "none"

\* finishCall() gives the lease back after the transaction that ends the call.
ReleaseIsLate == \A i \in Instance, c \in Call : fin[i][c].pc = "release" => Over(c)

LeaseOK == lease \in [Call -> {"none", "held", "released", "lapsed"}]

LeaseInv == CallsOK /\ FinOK /\ LeaseOK /\ HeldApart /\ GivenBackIsOver /\ ReleaseIsLate

\* Of the steps that only begin, or go on with, the end of a call.
NoNewRelease ==
  \A i \in Instance, c \in Call : fin'[i][c].pc = "release" => fin[i][c].pc = "release"
Tame == Quiet /\ UNCHANGED lease /\ NoNewRelease

LEMMA TameKeeps == ASSUME LeaseInv, FinOK', Tame PROVE LeaseInv'
<1>1. CallsOK' /\ LeaseOK' BY DEF Tame, Quiet, LeaseInv, CallsOK, LeaseOK
<1>2. HeldApart' BY DEF Tame, Quiet, LeaseInv, HeldApart, Claims
<1>3. GivenBackIsOver' BY DEF Tame, Quiet, LeaseInv, GivenBackIsOver, Over
<1>4. ReleaseIsLate' BY DEF Tame, Quiet, NoNewRelease, LeaseInv, ReleaseIsLate, Over
<1> QED BY <1>1, <1>2, <1>3, <1>4 DEF LeaseInv

LEMMA SameFinTame ==
  ASSUME LeaseInv, Quiet, UNCHANGED <<lease, fin>>
  PROVE  LeaseInv'
BY TameKeeps, FinKeeps DEF Tame, NoNewRelease, LeaseInv

LEMMA FinishTame ==
  ASSUME LeaseInv, Quiet, UNCHANGED lease, NEW i, NEW c, NEW st \in Terminal, NEW why, NEW force,
         NEW r, Finish(i, c, st, why, force, r)
  PROVE  LeaseInv'
<1> DEFINE b == Begun(i, c, st, why, force, r)
<1>1. b.pc = "read" BY DEF Begun
<1>2. fin' = [fin EXCEPT ![i][c] = IF @ = Idle THEN b ELSE @] BY DEF Finish
<1> HIDE DEF b
<1>3. NoNewRelease BY <1>1, <1>2 DEF NoNewRelease, LeaseInv, FinOK
<1>4. FinOK' BY FinishKeeps DEF LeaseInv
<1> QED BY <1>3, <1>4, TameKeeps DEF Tame

LEMMA ForgetTame ==
  ASSUME LeaseInv, NEW i, NEW c, Forget(i, c)
  PROVE  FinOK' /\ NoNewRelease
<1>1. fin' = [fin EXCEPT ![i][c] = Idle] /\ Idle.pc = "idle" BY DEF Forget, Idle
<1>2. NoNewRelease BY <1>1 DEF NoNewRelease, LeaseInv, FinOK
<1> QED BY <1>2, ForgetKeeps DEF LeaseInv

\* The lease of a new call is disjoint from every lease that is held.
LEMMA ReserveLease == ASSUME LeaseInv, NEW c \in Call, NEW p, Reserve(c, p) PROVE LeaseInv'
<1>1. /\ status[c] = "none" /\ status' = [status EXCEPT ![c] = "reserving"]
      /\ plan' = [plan EXCEPT ![c] = p] /\ lease' = [lease EXCEPT ![c] = "held"]
      /\ revived' = revived /\ fin' = fin
      /\ \A d \in Call : lease[d] = "held" => ~Claims(d, p)
  BY DEF Reserve, ghosts
<1>2. CallsOK' /\ LeaseOK' /\ FinOK' BY <1>1, FinKeeps DEF LeaseInv, CallsOK, LeaseOK
<1>3. HeldApart'
  <2> SUFFICES ASSUME NEW d \in Call, NEW e \in Call, d # e, lease'[d] = "held", lease'[e] = "held"
               PROVE  ~Claims(e, plan[d])'
    BY DEF HeldApart
  <2>1. CASE d = c
    BY <1>1, <2>1 DEF Claims, LeaseInv, CallsOK, LeaseOK
  <2>2. CASE e = c
    BY <1>1, <2>2 DEF Claims, LeaseInv, CallsOK, LeaseOK
  <2>3. CASE d # c /\ e # c
    BY <1>1, <2>3 DEF Claims, LeaseInv, CallsOK, LeaseOK, HeldApart
  <2> QED BY <2>1, <2>2, <2>3
<1>4. GivenBackIsOver' BY <1>1 DEF LeaseInv, GivenBackIsOver, Over, CallsOK, LeaseOK
<1>5. ReleaseIsLate' BY <1>1 DEF LeaseInv, ReleaseIsLate, Over, CallsOK, Terminal
<1> QED BY <1>2, <1>3, <1>4, <1>5 DEF LeaseInv

LEMMA PlaceLease == ASSUME LeaseInv, NEW i \in Instance, Place(i) PROVE LeaseInv'
<1>1. ASSUME TickScan(i) \/ TickEnd(i) \/ ManualRefused(i) PROVE LeaseInv'
  BY <1>1, SameFinTame DEF TickScan, TickEnd, ManualRefused, Quiet, callVars, ghosts
<1>2. ASSUME NEW l \in Lead, NEW s \in Sdr, ManualRead(i, l, s) PROVE LeaseInv'
  BY <1>2, SameFinTame DEF ManualRead, Quiet, callVars, ghosts
<1>3. ASSUME NEW c \in Call, NEW n \in Line, ManualReserve(i, c, n) PROVE LeaseInv'
  BY <1>3, ReserveLease DEF ManualReserve
<1>4. ASSUME NEW c \in Call, NEW l \in Lead, NEW s \in Sdr, NEW n \in Line, TickDial(i, c, l, s, n)
      PROVE  LeaseInv'
  BY <1>4, ReserveLease DEF TickDial
<1> QED BY <1>1, <1>2, <1>3, <1>4 DEF Place

LEMMA BeginLease == ASSUME LeaseInv, NEW c \in Call, Begin(c) PROVE LeaseInv'
<1>1. CASE StartCommit(c)
  <2>1. /\ status[c] = "reserving" /\ status' = [status EXCEPT ![c] = "reserved"]
        /\ UNCHANGED <<plan, lease, revived, fin>>
    BY <1>1 DEF StartCommit, ghosts
  <2>2. CallsOK' /\ LeaseOK' /\ FinOK' /\ HeldApart'
    BY <2>1, FinKeeps DEF LeaseInv, CallsOK, LeaseOK, HeldApart, Claims
  <2>3. GivenBackIsOver' /\ ReleaseIsLate'
    BY <2>1 DEF LeaseInv, GivenBackIsOver, ReleaseIsLate, Over, CallsOK, Terminal
  <2> QED BY <2>2, <2>3 DEF LeaseInv
<1>2. CASE StartRefused(c)
  <2>1. /\ status' = [status EXCEPT ![c] = "refused"] /\ UNCHANGED <<plan, revived, fin>>
        /\ lease' = [lease EXCEPT ![c] = IF @ = "held" THEN "released" ELSE @]
    BY <1>2 DEF StartRefused, ghosts
  <2>2. CallsOK' /\ LeaseOK' /\ FinOK' BY <2>1, FinKeeps DEF LeaseInv, CallsOK, LeaseOK
  <2>3. HeldApart' BY <2>1 DEF LeaseInv, LeaseOK, HeldApart, Claims
  <2>4. GivenBackIsOver' /\ ReleaseIsLate'
    BY <2>1 DEF LeaseInv, GivenBackIsOver, ReleaseIsLate, Over, CallsOK, LeaseOK
  <2> QED BY <2>2, <2>3, <2>4 DEF LeaseInv
<1>3. CASE Register(c) \/ OfferLate(c)
  BY <1>3, SameFinTame DEF Register, OfferLate, Quiet, callVars, ghosts
<1>4. CASE Lapse(c)
  <2>1. Quiet /\ lease' = [lease EXCEPT ![c] = "lapsed"] /\ UNCHANGED fin
    BY <1>4 DEF Lapse, Quiet, callVars, ghosts
  <2>2. CallsOK' /\ LeaseOK' /\ FinOK' BY <2>1, FinKeeps DEF LeaseInv, CallsOK, LeaseOK, Quiet
  <2>3. HeldApart' BY <2>1 DEF LeaseInv, LeaseOK, HeldApart, Claims, Quiet
  <2>4. GivenBackIsOver' /\ ReleaseIsLate'
    BY <2>1 DEF LeaseInv, GivenBackIsOver, ReleaseIsLate, Over, LeaseOK, Quiet
  <2> QED BY <2>2, <2>3, <2>4 DEF LeaseInv
<1> QED BY <1>1, <1>2, <1>3, <1>4 DEF Begin

LEMMA TalkLease == ASSUME LeaseInv, NEW c \in Call, Talk(c) PROVE LeaseInv'
<1>0. Stays => Quiet /\ UNCHANGED lease BY DEF Stays, Quiet, callVars, ghosts
<1>1. ASSUME Resolved(c) \/ OpenMedia(c) \/ SocketOpens(c) \/ Answered(c) \/ Frame(c) \/ FrameLost(c)
      PROVE  LeaseInv'
  BY <1>0, <1>1, SameFinTame
  DEF Resolved, OpenMedia, SocketOpens, Answered, Frame, FrameLost, Quiet, callVars
<1>2. CASE FrameLands(c)
  <2>1. /\ status' = [status EXCEPT ![c] = "media_active"] /\ UNCHANGED <<plan, lease, fin>>
        /\ revived' = IF Busy(c) THEN revived ELSE revived \cup {c}
    BY <1>2 DEF FrameLands
  <2>2. CallsOK' /\ LeaseOK' /\ FinOK' /\ HeldApart'
    BY <2>1, FinKeeps DEF LeaseInv, CallsOK, LeaseOK, HeldApart, Claims
  <2>3. \A d \in Call : /\ Over(d) => Over(d)'
                        /\ status'[d] # "none" /\ status[d] = "none" => Over(d)'
    BY <2>1 DEF Over, Busy, Active, Terminal, LeaseInv, CallsOK
  <2>4. GivenBackIsOver' /\ ReleaseIsLate'
    BY <2>1, <2>3 DEF LeaseInv, GivenBackIsOver, ReleaseIsLate
  <2> QED BY <2>2, <2>4 DEF LeaseInv
<1>3. CASE ResolveFails(c)
  BY <1>0, <1>3, FinishTame DEF ResolveFails, Terminal
<1>4. CASE Stall(c)
  BY <1>0, <1>4, FinishTame DEF Stall, Terminal
<1>5. CASE RingTimeout(c)
  BY <1>0, <1>5, FinishTame DEF RingTimeout, Terminal
<1>6. CASE SocketFails(c)
  BY <1>0, <1>6, FinishTame DEF SocketFails, Terminal
<1>7. CASE SocketCloses(c)
  BY <1>0, <1>7, FinishTame DEF SocketCloses, Terminal
<1>8. CASE SdrHangsUp(c)
  BY <1>0, <1>8, FinishTame DEF SdrHangsUp, Terminal
<1> QED BY <1>1, <1>2, <1>3, <1>4, <1>5, <1>6, <1>7, <1>8 DEF Talk

LEMMA FinCommitLease ==
  ASSUME LeaseInv, NEW i \in Instance, NEW c \in Call, FinCommit(i, c)
  PROVE  LeaseInv'
<1>1. fin[i][c].final \in Terminal \cup {"retry_wait"}
  BY DEF LeaseInv, FinOK, StepOK, FinCommit
<1>2. /\ status' = [status EXCEPT ![c] = IF @ \in Terminal THEN @ ELSE fin[i][c].final]
      /\ UNCHANGED <<plan, lease, revived>>
  BY DEF FinCommit
<1>3. Over(c)' BY <1>1, <1>2 DEF Over, LeaseInv, CallsOK
<1>4. \A d \in Call : d # c => (Over(d)' <=> Over(d)) /\ status'[d] = status[d]
  BY <1>2 DEF Over, LeaseInv, CallsOK
<1>5. CallsOK' /\ LeaseOK' /\ HeldApart'
  BY <1>2 DEF LeaseInv, CallsOK, LeaseOK, HeldApart, Claims
<1>6. GivenBackIsOver' BY <1>2, <1>3, <1>4 DEF LeaseInv, GivenBackIsOver
<1>7. CASE Forget(i, c)
  <2>1. FinOK' /\ NoNewRelease BY <1>7, ForgetTame
  <2>2. ReleaseIsLate' BY <2>1, <1>3, <1>4 DEF NoNewRelease, LeaseInv, ReleaseIsLate
  <2> QED BY <1>5, <1>6, <2>1, <2>2 DEF LeaseInv
<1>8. CASE ~Forget(i, c)
  <2>1. fin' = [fin EXCEPT ![i][c] = [pc |-> "release", own |-> TRUE]] BY <1>8 DEF FinCommit
  <2>2. StepOK([pc |-> "release", own |-> TRUE]) BY DEF StepOK
  <2>3. FinOK' BY <2>1, <2>2, FinSet DEF LeaseInv
  <2>4. ReleaseIsLate' BY <2>1, <1>3, <1>4 DEF LeaseInv, ReleaseIsLate, FinOK
  <2> QED BY <1>5, <1>6, <2>3, <2>4 DEF LeaseInv
<1> QED BY <1>7, <1>8

LEMMA FinReadLease ==
  ASSUME LeaseInv, NEW i \in Instance, NEW c \in Call, FinRead(i, c)
  PROVE  LeaseInv'
<1>1. Quiet /\ UNCHANGED lease BY DEF FinRead, Quiet, callVars, ghosts
<1>2. CASE Forget(i, c) BY <1>1, <1>2, ForgetTame, TameKeeps DEF Tame
<1>3. CASE ~Forget(i, c)
  <2>1. fin[i][c].status \in Terminal BY DEF LeaseInv, FinOK, StepOK, FinRead
  <2> DEFINE f == fin[i][c]
             o == Outcome(f, c)
             v == [pc |-> "commit", final |-> o.final, lead |-> o.lead, refund |-> o.refund,
                   why |-> f.why, wrapup |-> c \in connected /\ f.why # "stall",
                   restore |-> IF f.own THEN plan[c].prev
                               ELSE IF plan[c].auto THEN "available" ELSE "offline",
                   own |-> f.own]
  <2>2. fin' = [fin EXCEPT ![i][c] = v] BY <1>3, Zenon DEF FinRead
  <2>3. StepOK(v) /\ v.pc = "commit" BY <2>1, OutcomeEnds DEF StepOK
  <2> HIDE DEF v
  <2>4. FinOK' BY <2>2, <2>3, FinSet DEF LeaseInv
  <2>5. NoNewRelease BY <2>2, <2>3 DEF NoNewRelease, LeaseInv, FinOK
  <2> QED BY <1>1, <2>4, <2>5, TameKeeps DEF Tame
<1> QED BY <1>2, <1>3

LEMMA EndLease ==
  ASSUME LeaseInv, NEW i \in Instance, NEW c \in Call, End(i, c)
  PROVE  LeaseInv'
<1>0. Stays => Quiet /\ UNCHANGED lease BY DEF Stays, Quiet, callVars, ghosts
<1>1. CASE FinRead(i, c) BY <1>1, FinReadLease
<1>2. CASE FinCommit(i, c) BY <1>2, FinCommitLease
<1>3. CASE FinRelease(i, c)
  <2>1. /\ Quiet /\ Forget(i, c) /\ fin[i][c].pc = "release"
        /\ lease' = [lease EXCEPT ![c] = IF @ = "held" THEN "released" ELSE @]
    BY <1>3 DEF FinRelease, Quiet, callVars, ghosts
  <2>2. FinOK' /\ NoNewRelease /\ Over(c) BY <2>1, ForgetTame DEF LeaseInv, ReleaseIsLate
  <2>3. CallsOK' /\ LeaseOK' BY <2>1 DEF LeaseInv, CallsOK, LeaseOK, Quiet
  <2>4. HeldApart' BY <2>1 DEF LeaseInv, LeaseOK, HeldApart, Claims, Quiet
  <2>5. GivenBackIsOver' /\ ReleaseIsLate'
    BY <2>1, <2>2 DEF LeaseInv, GivenBackIsOver, ReleaseIsLate, Over, LeaseOK, Quiet, NoNewRelease
  <2> QED BY <2>2, <2>3, <2>4, <2>5 DEF LeaseInv
<1>4. CASE FinFails(i, c)
  <2>1. Quiet /\ UNCHANGED lease /\ Forget(i, c) BY <1>4 DEF FinFails, Quiet, callVars, ghosts
  <2> QED BY <2>1, ForgetTame, TameKeeps DEF Tame
<1>5. CASE Expire(i, c)
  BY <1>0, <1>5, FinishTame DEF Expire, Terminal
<1>6. CASE AdminFinish(i, c)
  BY <1>0, <1>6, FinishTame DEF AdminFinish, Terminal
<1>7. CASE Recover(i, c)
  <2>1. Quiet /\ UNCHANGED lease BY <1>7 DEF Recover, Quiet, callVars, ghosts
  <2>2. UNCHANGED fin \/ Finish(i, c, "failed", "other", FALSE, res[c]) BY <1>7 DEF Recover
  <2> QED BY <2>1, <2>2, SameFinTame, FinishTame DEF Terminal
<1> QED BY <1>1, <1>2, <1>3, <1>4, <1>5, <1>6, <1>7 DEF End

LEMMA DisconnectLease == ASSUME LeaseInv, NEW s \in Sdr, Disconnect(s) PROVE LeaseInv'
<1>1. Quiet /\ UNCHANGED lease BY DEF Disconnect, Quiet, callVars, ghosts
<1>2. Station[s] \in Instance BY StationKnown
<1>3. \A j \in Instance : j # Station[s] => fin'[j] = fin[j]
  BY <1>2 DEF Disconnect, LeaseInv, FinOK
<1>4. DOMAIN fin' = Instance /\ DOMAIN fin'[Station[s]] = Call
  BY <1>2 DEF Disconnect, LeaseInv, FinOK
<1>5. ASSUME NEW c \in Call
      PROVE  /\ StepOK(fin'[Station[s]][c])
             /\ fin'[Station[s]][c].pc = "release" => fin[Station[s]][c].pc = "release"
  <2>1. PICK st \in {"failed", "cancelled"} :
          fin'[Station[s]][c] \in
            {Begun(Station[s], c, st, "other", FALSE, res[c]), fin[Station[s]][c]}
    BY <1>2 DEF Disconnect, LeaseInv, FinOK
  <2>2. st \in Terminal BY DEF Terminal
  <2>3. /\ StepOK(Begun(Station[s], c, st, "other", FALSE, res[c]))
        /\ Begun(Station[s], c, st, "other", FALSE, res[c]).pc = "read"
    BY <2>2, BegunOK DEF Begun
  <2> QED BY <1>2, <2>1, <2>3 DEF LeaseInv, FinOK
<1>6. FinOK' BY <1>2, <1>3, <1>4, <1>5 DEF LeaseInv, FinOK, StepOK
<1>7. NoNewRelease BY <1>3, <1>5 DEF NoNewRelease
<1> QED BY <1>1, <1>6, <1>7, TameKeeps DEF Tame

LEMMA DeskLease == ASSUME LeaseInv, NEW s \in Sdr, Desk(s) PROVE LeaseInv'
<1>1. ASSUME AskAvailable(s) \/ SetAvailable(s) \/ SetOffline(s) \/ WrapUp(s) \/ Free(s)
             \/ LeaveUpdate(s) \/ LeaveNext(s) \/ LeaveDone(s) \/ Connect(s)
      PROVE  LeaseInv'
  <2>1. Quiet /\ UNCHANGED <<lease, fin>>
    BY <1>1 DEF AskAvailable, SetAvailable, SetOffline, WrapUp, Free, LeaveUpdate, LeaveNext,
                LeaveDone, Connect, Quiet, callVars, ghosts
  <2> QED BY <2>1, SameFinTame
<1>2. ASSUME NEW p \in DOMAIN pauses, NEW stay \in BOOLEAN, AskWrapUp(s, p, stay) PROVE LeaseInv'
  BY <1>2, SameFinTame DEF AskWrapUp, Quiet, callVars, ghosts
<1>3. ASSUME NEW i \in Instance, AskFree(i, s) PROVE LeaseInv'
  <2>1. Quiet /\ UNCHANGED lease BY <1>3 DEF AskFree, Quiet, callVars, ghosts
  <2>2. UNCHANGED fin \/ \E c \in CallsOf(s) : Finish(i, c, "failed", "other", TRUE, res[c])
    BY <1>3 DEF AskFree
  <2> QED BY <2>1, <2>2, SameFinTame, FinishTame DEF Terminal
<1>4. CASE Disconnect(s) BY <1>4, DisconnectLease
<1>5. ASSUME NEW c \in Call, LeaveCall(s, c) PROVE LeaseInv'
  <2>1. Quiet /\ UNCHANGED lease BY <1>5 DEF LeaveCall, Quiet, callVars, ghosts
  <2> QED BY <1>5, <2>1, FinishTame DEF LeaveCall, Terminal
<1> QED BY <1>1, <1>2, <1>3, <1>4, <1>5 DEF Desk

LEMMA CrashLease == ASSUME LeaseInv, NEW i \in Instance, Crash(i) PROVE LeaseInv'
<1>1. /\ status' = [c \in Call |-> IF c \in Owned(i) /\ status[c] = "reserving" THEN "refused"
                                   ELSE status[c]]
      /\ UNCHANGED <<plan, revived, lease>>
      /\ fin' = [fin EXCEPT ![i] = [c \in Call |-> Idle]]
  BY DEF Crash, ghosts
<1>2. \A c \in Call : (Over(c) => Over(c)') /\ (status[c] = "none" => status'[c] = "none")
  BY <1>1 DEF Over, Terminal
<1>3. CallsOK' /\ LeaseOK' /\ HeldApart'
  BY <1>1 DEF LeaseInv, CallsOK, LeaseOK, HeldApart, Claims
<1>4. FinOK' /\ NoNewRelease BY <1>1 DEF LeaseInv, FinOK, StepOK, Idle, NoNewRelease
<1>5. GivenBackIsOver' /\ ReleaseIsLate'
  BY <1>1, <1>2, <1>4 DEF LeaseInv, GivenBackIsOver, ReleaseIsLate, NoNewRelease
<1> QED BY <1>3, <1>4, <1>5 DEF LeaseInv

LEMMA StepLease == LeaseInv /\ [Next]_vars => LeaseInv'
<1> SUFFICES ASSUME LeaseInv, [Next]_vars PROVE LeaseInv'
  OBVIOUS
<1>1. CASE UNCHANGED vars
  BY <1>1, SameFinTame DEF vars, callVars, ghosts, Quiet
<1>2. ASSUME NEW i \in Instance, Process(i) PROVE LeaseInv'
  <2>1. CASE Crash(i) BY <2>1, CrashLease
  <2>2. CASE KeyExpires(i) \/ Restart(i)
    BY <2>2, SameFinTame DEF KeyExpires, Restart, Quiet, callVars, ghosts
  <2> QED BY <1>2, <2>1, <2>2 DEF Process
<1> QED BY <1>1, <1>2, PlaceLease, BeginLease, TalkLease, EndLease, DeskLease DEF Next

LEMMA InitLease == Init => LeaseInv
<1> SUFFICES ASSUME Init PROVE LeaseInv
  OBVIOUS
<1>1. CallsOK /\ FinOK BY DEF Init, CallsOK, FinOK, StepOK, Idle
<1>2. LeaseOK /\ HeldApart /\ GivenBackIsOver BY DEF Init, LeaseOK, HeldApart, GivenBackIsOver
<1>3. ReleaseIsLate BY DEF Init, ReleaseIsLate, Idle
<1> QED BY <1>1, <1>2, <1>3 DEF LeaseInv

LEMMA LeaseShares == LeaseInv => SharedOnlyAfterLapse
<1> SUFFICES ASSUME LeaseInv, NEW c \in Call, NEW d \in Call, c # d, Standing(c), Standing(d),
                    plan[c].line = plan[d].line \/ plan[c].sdr = plan[d].sdr
             PROVE  "lapsed" \in {lease[c], lease[d]}
  BY DEF SharedOnlyAfterLapse
<1>1. ASSUME NEW e \in Call, Standing(e) PROVE lease[e] \in {"held", "lapsed"}
  BY <1>1 DEF LeaseInv, LeaseOK, GivenBackIsOver, Over, Standing, Busy, Active, Terminal
<1>2. ~(lease[c] = "held" /\ lease[d] = "held") BY DEF LeaseInv, HeldApart, Claims
<1> QED BY <1>1, <1>2

\* Two calls that stand are on one line, or with one SDR, only when the lease of one
\* of them ran out under it, whichever of several processes ends a call, and crashes.
THEOREM SharedAfterLapse == Spec => []SharedOnlyAfterLapse
BY InitLease, StepLease, LeaseShares, PTL DEF Spec
-----------------------------------------------------------------------------
(* The desk of an SDR: types, and a wrap-up that can always be ended.      *)

Resources == [mem : {"no", "due", "yes"},
              media : {"none", "resolving", "cleared", "connecting", "open",
                       "closing", "broken", "closed"},
              finishing : BOOLEAN, answered : BOOLEAN, live : BOOLEAN,
              ring : BOOLEAN, frame : BOOLEAN]
ReadStep == [pc : {"read"}, status : Terminal, why : Why, force : BOOLEAN, own : BOOLEAN]
CommitStep == [pc : {"commit"}, final : Terminal \cup {"retry_wait"},
               lead : Terminal \cup {"queued", "retry_wait"}, refund : BOOLEAN,
               why : Why, wrapup : BOOLEAN, restore : {"available", "offline"}, own : BOOLEAN]
ReleaseStep == [pc : {"release"}, own : {TRUE}]
FinSteps == {Idle} \cup ReadStep \cup CommitStep \cup ReleaseStep
Asks == {NoAsk} \cup [op : {"available"}]
          \cup [op : {"wrapup"}, pause : 1..MaxPauses, stay : BOOLEAN]
          \cup [op : {"free"}, inst : Instance, waits : Call \cup {None}]

\* The type invariant by groups of variables.
CallTypes ==
  /\ status \in [Call -> {"none", "reserving", "refused", "retry_wait"} \cup Active \cup Terminal]
  /\ plan \in [Call -> Plan \cup {None}]
  /\ connected \subseteq Call /\ late \subseteq Call /\ orphaned \subseteq Call
  /\ lease \in [Call -> {"none", "held", "released", "lapsed"}]
LeadTypes ==
  /\ lead \in [Lead -> {"queued", "retry_wait", "reserved"} \cup Terminal]
  /\ attempts \in [Lead -> 0..MaxAttempts]
SdrTypes ==
  /\ sdr \in [Sdr -> {"available", "offline", "in_call", "post_call"}]
  /\ pauses \in Seq([sdr : Sdr, call : Call, open : BOOLEAN])
  /\ current \in [Sdr -> 0..Len(pauses)]
DeskTypes ==
  /\ claim \in [Sdr -> {"none", "live", "dead"}] /\ online \subseteq Sdr
  /\ leaving \in [Sdr -> {"no", "update", "calls"} \cup Call]
  /\ asked \in [Sdr -> Asks]
ProcTypes ==
  /\ up \subseteq Instance /\ oldKey \subseteq Instance
  /\ recovering \in [Instance -> SUBSET Call]
  /\ crashes \in 0..MaxCrashes
GhostTypes ==
  /\ refunded \subseteq Call /\ revived \subseteq Call
  /\ faults \in 0..MaxFaults /\ scope \in Scopes
PickTypes ==
  /\ tick \in [Instance -> [sdrs : SUBSET Sdr, leads : SUBSET Lead]]
  /\ manual \in [Instance -> {None} \cup [lead : Lead, sdr : Sdr, prev : {"available", "offline"}]]
ResTypes == res \in [Call -> Resources]
FinTypes == fin \in [Instance -> [Call -> FinSteps]]

LEMMA TypeParts ==
  TypeOK <=> /\ CallTypes /\ LeadTypes /\ SdrTypes /\ DeskTypes /\ ProcTypes /\ GhostTypes
             /\ PickTypes /\ ResTypes /\ FinTypes
BY DEF TypeOK, CallTypes, LeadTypes, SdrTypes, DeskTypes, ProcTypes, GhostTypes, PickTypes,
       ResTypes, FinTypes, Resources, ReadStep, CommitStep, ReleaseStep, FinSteps, Asks

\* Whatever is under way belongs to a call that has a plan.
Planned(c) == plan[c] \in Plan
StatusPlanned == \A c \in Call : status[c] # "none" \/ c \in orphaned => Planned(c)
ResPlanned == \A c \in Call : res[c] # NoRes => Planned(c)
FinPlanned == \A i \in Instance, c \in Call : fin[i][c] # Idle => Planned(c)

\* Whoever asks to end a wrap-up asks for one of their own.
AskedOwn ==
  \A s \in Sdr : asked[s].op = "wrapup" =>
    asked[s].pause \in DOMAIN pauses /\ pauses[asked[s].pause].sdr = s

PausesBounded == Len(pauses) <= MaxPauses

CallPart == CallTypes /\ StatusPlanned
SdrPart == SdrTypes /\ PostCallHasPause /\ PausesBounded /\ AskedOwn /\ DeskTypes
RestPart == LeadTypes /\ ProcTypes /\ GhostTypes /\ PickTypes
RunPart == ResTypes /\ FinTypes /\ ResPlanned /\ FinPlanned

DeskIInv == CallPart /\ SdrPart /\ RestPart /\ RunPart

LEMMA DeskIsInv == DeskIInv => DeskInv
BY TypeParts DEF DeskIInv, DeskInv, CallPart, SdrPart, RestPart, RunPart

LEMMA CallPartKeeps == CallPart /\ UNCHANGED callVars => CallPart'
BY DEF CallPart, CallTypes, StatusPlanned, Planned, callVars

LEMMA SdrPartKeeps ==
  SdrPart /\ UNCHANGED <<sdr, pauses, current, deskVars>> => SdrPart'
BY DEF SdrPart, SdrTypes, PostCallHasPause, PausesBounded, AskedOwn, DeskTypes, deskVars

LEMMA RestPartKeeps ==
  RestPart /\ UNCHANGED <<lead, attempts, procVars, pickVars, ghosts>> => RestPart'
BY DEF RestPart, LeadTypes, ProcTypes, GhostTypes, PickTypes, procVars, pickVars, ghosts

LEMMA RunPartKeeps == RunPart /\ UNCHANGED <<plan, res, fin>> => RunPart'
BY DEF RunPart, ResTypes, FinTypes, ResPlanned, FinPlanned, Planned

LEMMA NothingYet == NoRes \in Resources /\ Idle \in FinSteps
BY DEF NoRes, Resources, Idle, FinSteps

LEMMA ResourceKept ==
  ASSUME NEW r \in Resources
  PROVE  Kept(r) \in Resources
BY NothingYet DEF Kept

\* A step that gives one planned call another resource.
LEMMA ResSet ==
  ASSUME RunPart, UNCHANGED <<plan, fin>>, NEW c \in Call, Planned(c), NEW r \in Resources,
         res' = [res EXCEPT ![c] = r]
  PROVE  RunPart'
BY DEF RunPart, ResTypes, FinTypes, ResPlanned, FinPlanned, Planned

LEMMA TakenOK ==
  ASSUME NEW i, NEW c, NEW r \in Resources
  PROVE  Taken(i, c, r) \in Resources
<1>1. [r EXCEPT !.finishing = TRUE, !.ring = FALSE,
                !.media = IF @ = "open" THEN "closing" ELSE @] \in Resources
  BY DEF Resources
<1> QED BY <1>1, ResourceKept DEF Taken

LEMMA BegunType ==
  ASSUME NEW i, NEW c, NEW st \in Terminal, NEW why \in Why, NEW force \in BOOLEAN, NEW r
  PROVE  Begun(i, c, st, why, force, r) \in FinSteps
<1>1. (i = Owner(c) /\ r.mem = "yes") \in BOOLEAN OBVIOUS
<1> QED BY <1>1 DEF Begun, FinSteps, ReadStep

LEMMA FinishRun ==
  ASSUME RunPart, UNCHANGED plan, NEW i \in Instance, NEW c \in Call, Planned(c),
         NEW st \in Terminal, NEW why \in Why, NEW force \in BOOLEAN, NEW r \in Resources,
         Finish(i, c, st, why, force, r)
  PROVE  RunPart'
<1> DEFINE b == Begun(i, c, st, why, force, r)
           t == Taken(i, c, r)
<1>1. b \in FinSteps /\ t \in Resources BY BegunType, TakenOK
<1>2. /\ fin' = [fin EXCEPT ![i][c] = IF @ = Idle THEN b ELSE @]
      /\ res' = [res EXCEPT ![c] = t]
  BY DEF Finish
<1> HIDE DEF b, t
<1>3. FinTypes' BY <1>1, <1>2 DEF RunPart, FinTypes
<1>4. ResTypes' BY <1>1, <1>2 DEF RunPart, ResTypes
<1>5. ResPlanned' BY <1>2 DEF RunPart, ResTypes, ResPlanned, Planned
<1>6. FinPlanned' BY <1>2 DEF RunPart, FinTypes, FinPlanned, Planned
<1> QED BY <1>3, <1>4, <1>5, <1>6 DEF RunPart

LEMMA ForgetRun ==
  ASSUME RunPart, UNCHANGED plan, NEW i \in Instance, NEW c \in Call, Forget(i, c)
  PROVE  RunPart'
<1>0. Idle \in FinSteps BY NothingYet
<1>1. fin' = [fin EXCEPT ![i][c] = Idle] BY DEF Forget
<1>2. FinTypes' BY <1>0, <1>1 DEF RunPart, FinTypes
<1>3. FinPlanned' BY <1>1 DEF RunPart, FinTypes, FinPlanned, Planned
<1>4. res[c] \in Resources BY DEF RunPart, ResTypes
<1>5. [res[c] EXCEPT !.mem = "no"] \in Resources BY <1>4 DEF Resources
<1>6. PICK r \in Resources : res' = [res EXCEPT ![c] = r] /\ (r # res[c] => res[c].mem = "yes")
  <2>1. CASE i = Owner(c) /\ res[c].mem = "yes"
    BY <2>1, <1>5, ResourceKept DEF Forget
  <2>2. CASE ~(i = Owner(c) /\ res[c].mem = "yes")
    BY <2>2, <1>4 DEF Forget
  <2> QED BY <2>1, <2>2
<1>7. ResTypes' BY <1>6 DEF RunPart, ResTypes
<1>8. res[c].mem = "yes" => Planned(c)
  BY DEF RunPart, ResPlanned, NoRes
<1>9. ResPlanned' BY <1>6, <1>8 DEF RunPart, ResTypes, ResPlanned, Planned
<1> QED BY <1>2, <1>3, <1>7, <1>9 DEF RunPart
-----------------------------------------------------------------------------
\* Steps that change no more than one part.
LEMMA ReserveDesk ==
  ASSUME DeskIInv, NEW c \in Call, NEW p \in Plan, Reserve(c, p)
  PROVE  CallPart' /\ SdrPart' /\ LeadTypes' /\ ProcTypes' /\ GhostTypes' /\ RunPart'
<1>1. /\ status' = [status EXCEPT ![c] = "reserving"] /\ plan' = [plan EXCEPT ![c] = p]
      /\ lease' = [lease EXCEPT ![c] = "held"]
      /\ UNCHANGED <<connected, late, orphaned, rowVars, procVars, deskVars, res, fin, ghosts>>
  BY DEF Reserve
<1>2. CallPart' BY <1>1 DEF DeskIInv, CallPart, CallTypes, StatusPlanned, Planned
<1>3. SdrPart' BY <1>1, SdrPartKeeps DEF DeskIInv, rowVars
<1>4. LeadTypes' /\ ProcTypes' /\ GhostTypes'
  BY <1>1 DEF DeskIInv, RestPart, LeadTypes, ProcTypes, GhostTypes, rowVars, procVars, ghosts
<1>5. \A d \in Call : Planned(d) => Planned(d)'
  BY <1>1 DEF DeskIInv, CallPart, CallTypes, Planned
<1>6. RunPart' BY <1>1, <1>5 DEF DeskIInv, RunPart, ResTypes, FinTypes, ResPlanned, FinPlanned
<1> QED BY <1>2, <1>3, <1>4, <1>6

LEMMA PlaceDesk == ASSUME DeskIInv, NEW i \in Instance, Place(i) PROVE DeskIInv'
<1>0. PickTypes /\ scope.leads \subseteq Lead
  BY ScopesKnown DEF DeskIInv, RestPart, GhostTypes, Scope
<1>1. ASSUME UNCHANGED <<callVars, rowVars, procVars, deskVars, res, fin, ghosts>>, PickTypes'
      PROVE  DeskIInv'
  BY <1>1, CallPartKeeps, SdrPartKeeps, RunPartKeeps
  DEF DeskIInv, RestPart, LeadTypes, ProcTypes, GhostTypes, callVars, rowVars, procVars, ghosts
<1>2. CASE TickScan(i)
  <2>1. PickTypes' BY <1>0, <1>2 DEF TickScan, PickTypes
  <2> QED BY <1>1, <1>2, <2>1 DEF TickScan
<1>3. CASE TickEnd(i)
  <2>1. PickTypes' BY <1>0, <1>3 DEF TickEnd, PickTypes, NoPick
  <2> QED BY <1>1, <1>3, <2>1 DEF TickEnd
<1>4. CASE ManualRefused(i)
  <2>1. PickTypes' BY <1>0, <1>4 DEF ManualRefused, PickTypes
  <2> QED BY <1>1, <1>4, <2>1 DEF ManualRefused
<1>5. ASSUME NEW l \in Lead, NEW s \in Sdr, ManualRead(i, l, s) PROVE DeskIInv'
  <2>1. PickTypes' BY <1>0, <1>5 DEF ManualRead, PickTypes
  <2> QED BY <1>1, <1>5, <2>1 DEF ManualRead
<1>6. ASSUME NEW c \in Call, NEW n \in Line, ManualReserve(i, c, n) PROVE DeskIInv'
  <2>1. manual[i] \in [lead : Lead, sdr : Sdr, prev : {"available", "offline"}]
    BY <1>0, <1>6 DEF ManualReserve, PickTypes
  <2> DEFINE p == [inst |-> i, lead |-> manual[i].lead, sdr |-> manual[i].sdr, line |-> n,
                   auto |-> FALSE, prev |-> manual[i].prev]
  <2>2. p \in Plan BY <2>1 DEF Plan
  <2>3. Reserve(c, p) /\ PickTypes' BY <1>0, <1>6 DEF ManualReserve, PickTypes
  <2> HIDE DEF p
  <2> QED BY <2>2, <2>3, ReserveDesk DEF DeskIInv, RestPart
<1>7. ASSUME NEW c \in Call, NEW l \in Lead, NEW s \in Sdr, NEW n \in Line, TickDial(i, c, l, s, n)
      PROVE  DeskIInv'
  <2> DEFINE p == [inst |-> i, lead |-> l, sdr |-> s, line |-> n, auto |-> TRUE,
                   prev |-> "available"]
  <2>2. p \in Plan BY DEF Plan
  <2>3. Reserve(c, p) /\ PickTypes' BY <1>0, <1>7 DEF TickDial, PickTypes
  <2> HIDE DEF p
  <2> QED BY <2>2, <2>3, ReserveDesk DEF DeskIInv, RestPart
<1> QED BY <1>2, <1>3, <1>4, <1>5, <1>6, <1>7, Zenon DEF Place

LEMMA BeginDesk == ASSUME DeskIInv, NEW c \in Call, Begin(c) PROVE DeskIInv'
<1>1. CASE StartCommit(c)
  <2>1. Planned(c) /\ plan[c].sdr \in Sdr /\ plan[c].lead \in Lead /\ plan[c].auto \in BOOLEAN
    BY <1>1 DEF StartCommit, DeskIInv, CallPart, StatusPlanned, Planned, Plan
  <2>2. CallPart'
    BY <1>1 DEF StartCommit, DeskIInv, CallPart, CallTypes, StatusPlanned, Planned, Active
  <2>3. SdrPart'
    BY <1>1, <2>1 DEF StartCommit, DeskIInv, SdrPart, SdrTypes, PostCallHasPause, PausesBounded,
                      AskedOwn, DeskTypes, deskVars
  <2>4. LeadTypes'
    <3>1. attempts[plan[c].lead] \in 0..MaxAttempts /\ scope.maxAttempts \in 0..MaxAttempts
      BY <2>1, ScopesKnown DEF DeskIInv, RestPart, LeadTypes, GhostTypes, Scope
    <3>2. plan[c].auto => attempts[plan[c].lead] + 1 \in 0..MaxAttempts
      BY <1>1, <3>1, BoundsNat DEF StartCommit, MayStart
    <3> QED BY <1>1, <2>1, <3>2 DEF StartCommit, DeskIInv, RestPart, LeadTypes
  <2>5. ProcTypes' /\ GhostTypes' /\ PickTypes'
    BY <1>1 DEF StartCommit, DeskIInv, RestPart, ProcTypes, GhostTypes, PickTypes, procVars,
                ghosts, pickVars
  <2>6. RunPart'
    <3>1. res[c] \in Resources BY DEF DeskIInv, RunPart, ResTypes
    <3>2. [res[c] EXCEPT !.mem = "due"] \in Resources BY <3>1 DEF Resources
    <3>3. res' = [res EXCEPT ![c] = [res[c] EXCEPT !.mem = "due"]] /\ UNCHANGED <<plan, fin>>
      BY <1>1 DEF StartCommit
    <3> QED BY <2>1, <3>2, <3>3, ResSet DEF DeskIInv
  <2> QED BY <2>2, <2>3, <2>4, <2>5, <2>6 DEF DeskIInv, RestPart
<1>2. CASE StartRefused(c) \/ OfferLate(c) \/ Lapse(c)
  <2>1. UNCHANGED <<plan, connected, orphaned, rowVars, procVars, deskVars, pickVars, res, fin, ghosts>>
    BY <1>2 DEF StartRefused, OfferLate, Lapse
  <2>2. CallTypes' BY <1>2 DEF StartRefused, OfferLate, Lapse, DeskIInv, CallPart, CallTypes
  <2>3. StatusPlanned'
    BY <1>2 DEF StartRefused, OfferLate, Lapse, DeskIInv, CallPart, CallTypes, StatusPlanned, Planned
  <2> QED BY <2>1, <2>2, <2>3, SdrPartKeeps, RestPartKeeps, RunPartKeeps DEF DeskIInv, CallPart, rowVars
<1>3. CASE Register(c)
  <2>1. UNCHANGED <<callVars, rowVars, procVars, deskVars, pickVars, fin, ghosts>>
    BY <1>3 DEF Register
  <2>2. Planned(c) BY <1>3 DEF Register, NoRes, DeskIInv, RunPart, ResPlanned
  <2>3. res[c] \in Resources BY DEF DeskIInv, RunPart, ResTypes
  <2>4. [res[c] EXCEPT !.mem = "yes",
                       !.media = IF plan[c].sdr \in online THEN "resolving" ELSE "none"] \in Resources
    BY <2>3 DEF Resources
  <2>6. res' = [res EXCEPT ![c] =
                  [res[c] EXCEPT !.mem = "yes",
                                 !.media = IF plan[c].sdr \in online THEN "resolving" ELSE "none"]]
    BY <1>3 DEF Register, DeskIInv, RunPart, ResTypes
  <2>7. RunPart /\ UNCHANGED <<plan, fin>> BY <2>1 DEF DeskIInv, callVars
  <2>5. RunPart' BY <2>2, <2>4, <2>6, <2>7, ResSet
  <2> QED BY <2>1, <2>5, CallPartKeeps, SdrPartKeeps, RestPartKeeps DEF DeskIInv, rowVars
<1> QED BY <1>1, <1>2, <1>3 DEF Begin

\* Steps of the socket that leave the rows alone.
LEMMA StaysDesk == ASSUME DeskIInv, Stays, RunPart' PROVE DeskIInv'
BY CallPartKeeps, SdrPartKeeps, RestPartKeeps DEF Stays, DeskIInv, rowVars

LEMMA StaysFinish ==
  ASSUME DeskIInv, Stays, NEW i \in Instance, NEW c \in Call, Planned(c), NEW st \in Terminal,
         NEW why \in Why, NEW force \in BOOLEAN, NEW r \in Resources,
         Finish(i, c, st, why, force, r)
  PROVE  DeskIInv'
<1>1. UNCHANGED plan BY DEF Stays, callVars
<1>2. RunPart' BY <1>1, FinishRun DEF DeskIInv
<1> QED BY <1>2, StaysDesk

LEMMA StaysResource ==
  ASSUME DeskIInv, Stays, UNCHANGED fin, NEW c \in Call, Planned(c), NEW r \in Resources,
         res' = [res EXCEPT ![c] = r]
  PROVE  DeskIInv'
<1>1. UNCHANGED <<plan, fin>> BY DEF Stays, callVars
<1>2. RunPart' BY <1>1, ResSet DEF DeskIInv
<1> QED BY <1>2, StaysDesk

LEMMA TalkDesk == ASSUME DeskIInv, NEW c \in Call, Talk(c) PROVE DeskIInv'
<1>0. res[c] \in Resources BY DEF DeskIInv, RunPart, ResTypes
<1>1. Planned(c) /\ Owner(c) \in Instance
  <2>0. res[c].media # "none" \/ res[c].frame = TRUE \/ res[c].ring = TRUE \/ res[c].mem = "yes"
    <3>1. ASSUME Resolved(c) \/ ResolveFails(c) \/ OpenMedia(c) \/ SocketOpens(c) \/ Answered(c)
                 \/ Frame(c) \/ Stall(c) \/ SocketFails(c) \/ SocketCloses(c)
          PROVE  res[c].media # "none"
      BY <3>1 DEF Resolved, ResolveFails, OpenMedia, SocketOpens, Answered, Frame, Stall,
                  SocketFails, SocketCloses, Media
    <3>2. ASSUME FrameLands(c) \/ FrameLost(c) PROVE res[c].frame = TRUE
      BY <1>0, <3>2 DEF FrameLands, FrameLost, Resources
    <3>3. ASSUME RingTimeout(c) PROVE res[c].ring = TRUE
      BY <1>0, <3>3 DEF RingTimeout, Resources
    <3>4. ASSUME SdrHangsUp(c) PROVE res[c].mem = "yes"
      BY <3>4 DEF SdrHangsUp
    <3> QED BY <3>1, <3>2, <3>3, <3>4, Zenon DEF Talk
  <2>1. res[c] # NoRes
    BY <2>0 DEF NoRes
  <2>2. Planned(c) BY <2>1 DEF DeskIInv, RunPart, ResPlanned
  <2> QED BY <2>2 DEF Planned, Plan, Owner
<1>2. CASE Resolved(c)
  <2> DEFINE q == [res[c] EXCEPT !.media = IF res[c].finishing THEN "none" ELSE "cleared"]
  <2>1. q \in Resources BY <1>0 DEF Resources
  <2>2. res' = [res EXCEPT ![c] = Kept(q)] BY <1>2 DEF Resolved
  <2> HIDE DEF q
  <2> QED BY <1>1, <1>2, <2>1, <2>2, ResourceKept, StaysResource DEF Resolved
<1>3. CASE OpenMedia(c)
  <2>1. [res[c] EXCEPT !.media = "connecting", !.ring = TRUE] \in Resources BY <1>0 DEF Resources
  <2> QED BY <1>1, <1>3, <2>1, StaysResource DEF OpenMedia
<1>4. CASE SocketOpens(c)
  <2>1. [res[c] EXCEPT !.media = "open"] \in Resources BY <1>0 DEF Resources
  <2> QED BY <1>1, <1>4, <2>1, StaysResource DEF SocketOpens
<1>5. CASE Answered(c)
  <2>1. [res[c] EXCEPT !.answered = TRUE] \in Resources BY <1>0 DEF Resources
  <2> QED BY <1>1, <1>5, <2>1, StaysResource DEF Answered
<1>6. CASE Frame(c)
  <2>1. [res[c] EXCEPT !.answered = TRUE, !.live = TRUE, !.ring = FALSE, !.frame = TRUE] \in Resources
    BY <1>0 DEF Resources
  <2>2. res' = [res EXCEPT ![c] = [res[c] EXCEPT !.answered = TRUE, !.live = TRUE,
                                               !.ring = FALSE, !.frame = TRUE]]
    BY <1>6 DEF Frame, DeskIInv, RunPart, ResTypes
  <2>3. Stays /\ UNCHANGED fin BY <1>6 DEF Frame
  <2> QED BY <1>1, <2>1, <2>2, <2>3, StaysResource
<1>7. CASE FrameLands(c) \/ FrameLost(c)
  <2> DEFINE q == [res[c] EXCEPT !.frame = FALSE]
  <2>1. q \in Resources BY <1>0 DEF Resources
  <2>2. /\ res' = [res EXCEPT ![c] = Kept(q)]
        /\ UNCHANGED <<plan, late, lease, orphaned, rowVars, procVars, deskVars, pickVars, fin,
                       scope, refunded>>
    BY <1>7 DEF FrameLands, FrameLost, callVars
  <2> HIDE DEF q
  <2>3. RunPart' BY <1>1, <2>1, <2>2, ResourceKept, ResSet DEF DeskIInv
  <2>4. CallPart'
    BY <1>1, <1>7 DEF FrameLands, FrameLost, DeskIInv, CallPart, CallTypes, StatusPlanned,
                      Planned, Active, callVars
  <2>5. faults' \in 0..MaxFaults /\ revived' \subseteq Call
    BY <1>7, BoundsNat DEF FrameLands, FrameLost, DeskIInv, RestPart, GhostTypes
  <2>6. RestPart'
    BY <2>2, <2>5 DEF DeskIInv, RestPart, LeadTypes, ProcTypes, GhostTypes, PickTypes, rowVars,
                      procVars, pickVars
  <2> QED BY <2>2, <2>3, <2>4, <2>6, SdrPartKeeps DEF DeskIInv, rowVars
<1>8. CASE ResolveFails(c)
  <2>1. [res[c] EXCEPT !.media = "none"] \in Resources BY <1>0 DEF Resources
  <2> DEFINE faces == [st : Terminal, why : Why, force : BOOLEAN]
             r == [res[c] EXCEPT !.media = "none"]
  <2>2. PICK f \in {[st |-> "cancelled", why |-> "rate", force |-> FALSE],
                    [st |-> "failed", why |-> "other", force |-> TRUE],
                    [st |-> "failed", why |-> "other", force |-> FALSE]} :
          Finish(Owner(c), c, f.st, f.why, f.force, r)
    BY <1>8, Zenon DEF ResolveFails
  <2>3. /\ [st |-> "cancelled", why |-> "rate", force |-> FALSE] \in faces
        /\ [st |-> "failed", why |-> "other", force |-> TRUE] \in faces
        /\ [st |-> "failed", why |-> "other", force |-> FALSE] \in faces
    BY DEF Terminal, Why
  <2>4. f \in faces BY <2>3, Zenon
  <2>5. f.st \in Terminal /\ f.why \in Why /\ f.force \in BOOLEAN BY <2>4
  <2>6. Stays BY <1>8 DEF ResolveFails
  <2> QED BY <1>1, <2>1, <2>2, <2>5, <2>6, StaysFinish
<1>9. CASE Stall(c)
  BY <1>0, <1>1, <1>9, StaysFinish DEF Stall, Terminal, Why
<1>10. CASE RingTimeout(c)
  <2>1. [res[c] EXCEPT !.ring = FALSE] \in Resources BY <1>0 DEF Resources
  <2> QED BY <1>1, <1>10, <2>1, StaysFinish DEF RingTimeout, Terminal, Why
<1>11. CASE SocketFails(c)
  <2>1. PICK next \in {"closed", "broken"}, why \in {"rate", "other"} :
          Finish(Owner(c), c, IF why = "rate" THEN "cancelled" ELSE "failed", why, FALSE,
                 [res[c] EXCEPT !.media = next])
    BY <1>11 DEF SocketFails
  <2>2. [res[c] EXCEPT !.media = next] \in Resources BY <1>0 DEF Resources
  <2>3. (IF why = "rate" THEN "cancelled" ELSE "failed") \in Terminal /\ why \in Why
    BY DEF Terminal, Why
  <2>4. Stays BY <1>11 DEF SocketFails
  <2> QED BY <1>1, <2>1, <2>2, <2>3, <2>4, StaysFinish
<1>12. CASE SocketCloses(c)
  <2>1. [res[c] EXCEPT !.media = "closed"] \in Resources BY <1>0 DEF Resources
  <2>2. (IF res[c].live THEN "completed" ELSE "no_answer") \in Terminal BY DEF Terminal
  <2> QED BY <1>1, <1>12, <2>1, <2>2, StaysFinish DEF SocketCloses, Why
<1>13. CASE SdrHangsUp(c)
  BY <1>0, <1>1, <1>13, StaysFinish DEF SdrHangsUp, Terminal, Why
<1> QED
  BY <1>2, <1>3, <1>4, <1>5, <1>6, <1>7, <1>8, <1>9, <1>10, <1>11, <1>12, <1>13 DEF Talk

-----------------------------------------------------------------------------
\* The step that finishCall() is at says which record it carries.
LEMMA StepByName ==
  ASSUME NEW f \in FinSteps
  PROVE  (f.pc = "read" => f \in ReadStep) /\ (f.pc = "commit" => f \in CommitStep)
<1>1. Idle.pc = "idle" BY DEF Idle
<1>2. f \in ReadStep => f.pc = "read" BY DEF ReadStep
<1>3. f \in CommitStep => f.pc = "commit" BY DEF CommitStep
<1>4. f \in ReleaseStep => f.pc = "release" BY DEF ReleaseStep
<1> QED BY <1>1, <1>2, <1>3, <1>4 DEF FinSteps

LEMMA FinReadDesk ==
  ASSUME DeskIInv, NEW i \in Instance, NEW c \in Call, FinRead(i, c)
  PROVE  DeskIInv'
<1>1. UNCHANGED <<callVars, rowVars, procVars, deskVars, pickVars, ghosts>> /\ UNCHANGED plan
  BY DEF FinRead, callVars
<1>2. RunPart'
  <2>1. CASE Forget(i, c) BY <1>1, <2>1, ForgetRun DEF DeskIInv
  <2>2. CASE ~Forget(i, c)
    <3> DEFINE f == fin[i][c]
               o == Outcome(f, c)
               v == [pc |-> "commit", final |-> o.final, lead |-> o.lead, refund |-> o.refund,
                     why |-> f.why, wrapup |-> c \in connected /\ f.why # "stall",
                     restore |-> IF f.own THEN plan[c].prev
                                 ELSE IF plan[c].auto THEN "available" ELSE "offline",
                     own |-> f.own]
    <3>1. fin' = [fin EXCEPT ![i][c] = v] /\ UNCHANGED res BY <2>2, Zenon DEF FinRead
    <3>2. f \in ReadStep
      <4>1. f \in FinSteps /\ f.pc = "read" BY DEF FinRead, DeskIInv, RunPart, FinTypes
      <4> HIDE DEF f
      <4> QED BY <4>1, StepByName
    <3>3. Planned(c) /\ plan[c].prev \in {"available", "offline"}
      BY <3>2 DEF DeskIInv, RunPart, FinPlanned, Planned, Plan, ReadStep, Idle
    <3>4. o.final \in Terminal \cup {"retry_wait"} BY <3>2 DEF Outcome, Terminal, ReadStep
    <3>5. o.lead \in Terminal \cup {"queued", "retry_wait"} BY <3>2 DEF Outcome, Terminal, ReadStep
    <3>6. o.refund \in BOOLEAN BY DEF Outcome
    <3>7. (c \in connected /\ f.why # "stall") \in BOOLEAN OBVIOUS
    <3>8. f.why \in Why /\ f.own \in BOOLEAN BY <3>2 DEF ReadStep
    <3>9. (IF f.own THEN plan[c].prev ELSE IF plan[c].auto THEN "available" ELSE "offline")
            \in {"available", "offline"}
      BY <3>3
    <3> HIDE DEF f, o
    <3>10. v \in CommitStep BY <3>4, <3>5, <3>6, <3>7, <3>8, <3>9 DEF CommitStep
    <3> HIDE DEF v
    <3>11. v \in FinSteps BY <3>10 DEF FinSteps
    <3> QED BY <1>1, <3>1, <3>3, <3>11
            DEF DeskIInv, RunPart, ResTypes, FinTypes, ResPlanned, FinPlanned, Planned
  <2> QED BY <2>1, <2>2
<1> QED BY <1>1, <1>2, CallPartKeeps, SdrPartKeeps, RestPartKeeps DEF DeskIInv, rowVars

\* The transaction that ends a call opens the wrap-up it shows.
LEMMA FinCommitDesk ==
  ASSUME DeskIInv, NEW i \in Instance, NEW c \in Call, FinCommit(i, c)
  PROVE  DeskIInv'
<1> DEFINE f == fin[i][c]
           s == plan[c].sdr
           l == plan[c].lead
<1>1. f \in CommitStep
  <2>1. f \in FinSteps /\ f.pc = "commit" BY DEF FinCommit, DeskIInv, RunPart, FinTypes
  <2> HIDE DEF f
  <2> QED BY <2>1, StepByName
<1>2. f # Idle BY <1>1 DEF CommitStep, Idle
<1>3. Planned(c) /\ s \in Sdr /\ l \in Lead
  <2>1. Planned(c) BY <1>2 DEF DeskIInv, RunPart, FinPlanned
  <2> QED BY <2>1 DEF Planned, Plan
<1>4. /\ f.final \in Terminal \cup {"retry_wait"} /\ f.lead \in Terminal \cup {"queued", "retry_wait"}
      /\ f.restore \in {"available", "offline"}
  BY <1>1 DEF CommitStep
<1>5. CallPart'
  <2>1. /\ status' = [status EXCEPT ![c] = IF @ \in Terminal THEN @ ELSE f.final]
        /\ UNCHANGED <<plan, connected, late, lease, orphaned>>
    BY DEF FinCommit
  <2> HIDE DEF f
  <2> QED BY <2>1, <1>3, <1>4 DEF DeskIInv, CallPart, CallTypes, StatusPlanned, Planned
<1>6. SdrPart'
  <2>1. /\ f.wrapup => Len(pauses) < MaxPauses
        /\ pauses' = IF f.wrapup THEN Append(pauses, [sdr |-> s, call |-> c, open |-> TRUE])
                     ELSE pauses
        /\ current' = [current EXCEPT ![s] = IF f.wrapup THEN Len(pauses) + 1 ELSE 0]
        /\ sdr' = [sdr EXCEPT ![s] = IF f.wrapup THEN "post_call" ELSE f.restore]
        /\ UNCHANGED deskVars
    BY DEF FinCommit
  <2>2. SdrTypes /\ PostCallHasPause /\ PausesBounded /\ AskedOwn /\ DeskTypes
    BY DEF DeskIInv, SdrPart
  <2>3. DeskTypes' BY <2>1, <2>2 DEF DeskTypes, deskVars
  <2> DEFINE p == [sdr |-> s, call |-> c, open |-> TRUE]
  <2>4. p \in [sdr : Sdr, call : Call, open : BOOLEAN] /\ p.sdr = s /\ p.open = TRUE BY <1>3
  <2> HIDE DEF f, s, p
  <2>5. CASE f.wrapup
    <3>1. pauses' = Append(pauses, p) BY <2>1, <2>5 DEF p
    <3>2. /\ pauses' \in Seq([sdr : Sdr, call : Call, open : BOOLEAN])
          /\ Len(pauses') = Len(pauses) + 1 /\ Len(pauses) \in Nat
          /\ \A n \in 1..Len(pauses) : pauses'[n] = pauses[n]
          /\ pauses'[Len(pauses) + 1] = p
      BY <3>1, <2>2, <2>4 DEF SdrTypes
    <3>3. SdrTypes' BY <2>1, <2>2, <2>5, <3>2, <1>3, <1>4 DEF SdrTypes
    <3>4. PostCallHasPause'
      <4>1. \A t \in Sdr : t # s => sdr'[t] = sdr[t] /\ current'[t] = current[t]
        BY <2>1, <2>2 DEF SdrTypes
      <4>2. current'[s] = Len(pauses) + 1 BY <2>1, <2>2, <2>5, <1>3 DEF SdrTypes
      <4>3. \A t \in Sdr : current[t] \in 0..Len(pauses) BY <2>2 DEF SdrTypes
      <4> QED BY <4>1, <4>2, <4>3, <3>2, <2>2, <2>4 DEF PostCallHasPause
    <3>5. PausesBounded' BY <3>2, <2>1, <2>5, BoundsNat DEF PausesBounded
    <3>6. AskedOwn' BY <3>2, <2>1, <2>2 DEF AskedOwn, deskVars, SdrTypes
    <3> QED BY <2>3, <3>3, <3>4, <3>5, <3>6 DEF SdrPart
  <2>6. CASE ~f.wrapup
    <3>1. /\ pauses' = pauses /\ current' = [current EXCEPT ![s] = 0]
          /\ sdr' = [sdr EXCEPT ![s] = f.restore]
      BY <2>1, <2>6
    <3>2. SdrTypes' BY <3>1, <2>2, <1>3, <1>4 DEF SdrTypes
    <3>3. PostCallHasPause' BY <3>1, <2>2, <1>3, <1>4 DEF PostCallHasPause, SdrTypes
    <3>4. PausesBounded' /\ AskedOwn' BY <3>1, <2>1, <2>2 DEF PausesBounded, AskedOwn, deskVars
    <3> QED BY <2>3, <3>2, <3>3, <3>4 DEF SdrPart
  <2> QED BY <2>5, <2>6
<1>7. RestPart'
  <2>1. /\ lead' = [lead EXCEPT ![l] = IF plan[c].auto THEN f.lead ELSE @]
        /\ attempts' = [attempts EXCEPT ![l] =
                          IF plan[c].auto /\ f.refund THEN (IF @ > 0 THEN @ - 1 ELSE 0) ELSE @]
        /\ refunded' \in {refunded, refunded \cup {c}}
        /\ UNCHANGED <<procVars, pickVars, faults, scope, revived>>
    BY DEF FinCommit
  <2>2. LeadTypes /\ ProcTypes /\ GhostTypes /\ PickTypes BY DEF DeskIInv, RestPart
  <2> HIDE DEF f, l
  <2>3. LeadTypes' BY <2>1, <2>2, <1>3, <1>4, BoundsNat DEF LeadTypes
  <2>4. ProcTypes' /\ GhostTypes' /\ PickTypes'
    BY <2>1, <2>2 DEF ProcTypes, GhostTypes, PickTypes, procVars, pickVars
  <2> QED BY <2>3, <2>4 DEF RestPart
<1>8. RunPart'
  <2>1. UNCHANGED plan BY DEF FinCommit
  <2>2. CASE Forget(i, c) BY <2>1, <2>2, ForgetRun DEF DeskIInv
  <2>3. CASE ~Forget(i, c)
    <3> DEFINE v == [pc |-> "release", own |-> TRUE]
    <3>1. fin' = [fin EXCEPT ![i][c] = v] /\ UNCHANGED res BY <2>3 DEF FinCommit
    <3>2. v \in FinSteps BY DEF FinSteps, ReleaseStep
    <3> HIDE DEF v
    <3> QED BY <2>1, <3>1, <3>2, <1>3
            DEF DeskIInv, RunPart, ResTypes, FinTypes, ResPlanned, FinPlanned, Planned
  <2> QED BY <2>2, <2>3
<1> QED BY <1>5, <1>6, <1>7, <1>8 DEF DeskIInv

LEMMA EndDesk == ASSUME DeskIInv, NEW i \in Instance, NEW c \in Call, End(i, c) PROVE DeskIInv'
<1>0. res[c] \in Resources BY DEF DeskIInv, RunPart, ResTypes
<1>1. CASE FinRead(i, c) BY <1>1, FinReadDesk
<1>2. CASE FinCommit(i, c) BY <1>2, FinCommitDesk
<1>3. CASE FinRelease(i, c)
  <2>1. /\ UNCHANGED <<status, plan, connected, late, orphaned, rowVars, procVars, deskVars, pickVars,
                       ghosts>>
        /\ lease' = [lease EXCEPT ![c] = IF @ = "held" THEN "released" ELSE @]
        /\ Forget(i, c)
    BY <1>3 DEF FinRelease
  <2>2. CallPart' BY <2>1 DEF DeskIInv, CallPart, CallTypes, StatusPlanned, Planned
  <2>3. RunPart' BY <2>1, ForgetRun DEF DeskIInv
  <2> QED BY <2>1, <2>2, <2>3, SdrPartKeeps, RestPartKeeps DEF DeskIInv, rowVars
<1>4. CASE FinFails(i, c)
  <2>1. /\ UNCHANGED <<callVars, rowVars, procVars, deskVars, pickVars, scope, refunded, revived>>
        /\ faults < MaxFaults /\ faults' = faults + 1 /\ Forget(i, c) /\ UNCHANGED plan
    BY <1>4 DEF FinFails, callVars
  <2>2. RestPart'
    BY <2>1, BoundsNat DEF DeskIInv, RestPart, LeadTypes, ProcTypes, GhostTypes, PickTypes, rowVars,
                           procVars, pickVars
  <2>3. RunPart' BY <2>1, ForgetRun DEF DeskIInv
  <2> QED BY <2>1, <2>2, <2>3, CallPartKeeps, SdrPartKeeps DEF DeskIInv, rowVars
<1>5. CASE Expire(i, c)
  <2>1. Planned(c) BY <1>5 DEF Expire, DeskIInv, CallPart, StatusPlanned
  <2> QED BY <1>0, <1>5, <2>1, StaysFinish DEF Expire, Terminal, Why
<1>6. CASE AdminFinish(i, c)
  <2>1. Planned(c) BY <1>6 DEF AdminFinish, DeskIInv, CallPart, StatusPlanned, Active
  <2> QED BY <1>0, <1>6, <2>1, StaysFinish DEF AdminFinish, Terminal, Why
<1>7. CASE Recover(i, c)
  <2>1. /\ UNCHANGED <<callVars, rowVars, up, oldKey, crashes, deskVars, pickVars, ghosts>>
        /\ recovering' = [recovering EXCEPT ![i] = @ \ {c}] /\ UNCHANGED plan
    BY <1>7 DEF Recover, callVars
  <2>2. RestPart'
    BY <2>1 DEF DeskIInv, RestPart, LeadTypes, ProcTypes, GhostTypes, PickTypes, rowVars, pickVars,
                ghosts
  <2>3. RunPart'
    <3>1. CASE UNCHANGED <<res, fin>> BY <2>1, <3>1, RunPartKeeps DEF DeskIInv
    <3>2. CASE ~UNCHANGED <<res, fin>>
      <4>1. c \in orphaned /\ Finish(i, c, "failed", "other", FALSE, res[c])
        BY <1>7, <3>2 DEF Recover
      <4>2. Planned(c) BY <4>1 DEF DeskIInv, CallPart, StatusPlanned
      <4> QED BY <1>0, <2>1, <4>1, <4>2, FinishRun DEF DeskIInv, Terminal, Why
    <3> QED BY <3>1, <3>2
  <2> QED BY <2>1, <2>2, <2>3, CallPartKeeps, SdrPartKeeps DEF DeskIInv, rowVars
<1> QED BY <1>1, <1>2, <1>3, <1>4, <1>5, <1>6, <1>7 DEF End

-----------------------------------------------------------------------------
\* A step at the desk of one SDR that leaves the pauses alone.
LEMMA DeskOnly ==
  ASSUME DeskIInv, UNCHANGED <<callVars, rowVars, procVars, pickVars, ghosts>>,
         DeskTypes', AskedOwn', RunPart'
  PROVE  DeskIInv'
BY CallPartKeeps, RestPartKeeps
DEF DeskIInv, SdrPart, SdrTypes, PostCallHasPause, PausesBounded, rowVars

\* A step that changes what is shown of an SDR, and neither pauses nor wrap-up.
LEMMA ShownOnly ==
  ASSUME DeskIInv, UNCHANGED <<callVars, lead, attempts, current, pauses, procVars, pickVars, ghosts>>,
         DeskTypes', AskedOwn', RunPart',
         sdr' \in [Sdr -> {"available", "offline", "in_call", "post_call"}],
         \A s \in Sdr : sdr'[s] = "post_call" => current[s] # 0
  PROVE  DeskIInv'
BY CallPartKeeps, RestPartKeeps
DEF DeskIInv, SdrPart, SdrTypes, PostCallHasPause, PausesBounded, rowVars

LEMMA AskKeeps ==
  ASSUME DeskIInv, NEW s \in Sdr, NEW a \in Asks, UNCHANGED pauses,
         asked' = [asked EXCEPT ![s] = a], a.op # "wrapup"
  PROVE  AskedOwn' /\ asked' \in [Sdr -> Asks]
BY DEF DeskIInv, SdrPart, AskedOwn, DeskTypes

LEMMA NoAskIsAsk == NoAsk \in Asks /\ NoAsk.op = "none"
BY DEF Asks, NoAsk

LEMMA AvailabilityDesk ==
  ASSUME DeskIInv, NEW s \in Sdr, AskAvailable(s) \/ SetAvailable(s) \/ SetOffline(s)
  PROVE  DeskIInv'
<1>1. CASE AskAvailable(s)
  <2> DEFINE a == [op |-> "available"]
  <2>1. a \in Asks /\ a.op # "wrapup" BY DEF Asks
  <2>2. asked' = [asked EXCEPT ![s] = a] BY <1>1 DEF AskAvailable
  <2> HIDE DEF a
  <2>3. UNCHANGED <<callVars, rowVars, procVars, online, claim, leaving, pickVars, res, fin, ghosts>>
    BY <1>1 DEF AskAvailable
  <2>4. AskedOwn' /\ asked' \in [Sdr -> Asks] BY <2>1, <2>2, <2>3, AskKeeps DEF rowVars
  <2>5. DeskTypes' BY <2>3, <2>4 DEF DeskIInv, SdrPart, DeskTypes
  <2>6. RunPart' BY <2>3, RunPartKeeps DEF DeskIInv, callVars
  <2> QED BY <2>3, <2>4, <2>5, <2>6, DeskOnly
<1>2. CASE SetAvailable(s)
  <2>1. /\ UNCHANGED <<callVars, lead, attempts, current, pauses, procVars, online, claim, leaving,
                       pickVars, res, fin, ghosts>>
        /\ asked' = [asked EXCEPT ![s] = NoAsk] /\ sdr' = [sdr EXCEPT ![s] = "available"]
    BY <1>2 DEF SetAvailable
  <2>2. AskedOwn' /\ asked' \in [Sdr -> Asks] BY <2>1, NoAskIsAsk, AskKeeps
  <2>3. DeskTypes' BY <2>1, <2>2 DEF DeskIInv, SdrPart, DeskTypes
  <2>4. RunPart' BY <2>1, RunPartKeeps DEF DeskIInv, callVars
  <2>5. /\ sdr' \in [Sdr -> {"available", "offline", "in_call", "post_call"}]
        /\ \A t \in Sdr : sdr'[t] = "post_call" => current[t] # 0
    BY <2>1 DEF DeskIInv, SdrPart, SdrTypes, PostCallHasPause
  <2> QED BY <2>1, <2>2, <2>3, <2>4, <2>5, ShownOnly
<1>3. CASE SetOffline(s)
  <2>1. /\ UNCHANGED <<callVars, lead, attempts, current, pauses, procVars, deskVars, pickVars, res,
                       fin, ghosts>>
        /\ sdr' = [sdr EXCEPT ![s] = "offline"]
    BY <1>3 DEF SetOffline
  <2>2. DeskTypes' /\ AskedOwn' BY <2>1 DEF DeskIInv, SdrPart, DeskTypes, AskedOwn, deskVars
  <2>4. RunPart' BY <2>1, RunPartKeeps DEF DeskIInv, callVars
  <2>5. /\ sdr' \in [Sdr -> {"available", "offline", "in_call", "post_call"}]
        /\ \A t \in Sdr : sdr'[t] = "post_call" => current[t] # 0
    BY <2>1 DEF DeskIInv, SdrPart, SdrTypes, PostCallHasPause
  <2> QED BY <2>1, <2>2, <2>4, <2>5, ShownOnly
<1> QED BY <1>1, <1>2, <1>3

LEMMA AskWrapUpDesk ==
  ASSUME DeskIInv, NEW s \in Sdr, NEW p \in DOMAIN pauses, NEW stay \in BOOLEAN,
         AskWrapUp(s, p, stay)
  PROVE  DeskIInv'
<1> DEFINE a == [op |-> "wrapup", pause |-> p, stay |-> stay]
<1>1. p \in 1..MaxPauses
  BY BoundsNat DEF DeskIInv, SdrPart, SdrTypes, PausesBounded
<1>2. a \in Asks /\ a.op = "wrapup" /\ a.pause = p BY <1>1 DEF Asks
<1>3. asked' = [asked EXCEPT ![s] = a] /\ pauses[p].sdr = s BY DEF AskWrapUp
<1> HIDE DEF a
<1>4. UNCHANGED <<callVars, rowVars, procVars, online, claim, leaving, pickVars, res, fin, ghosts>>
  BY DEF AskWrapUp
<1>5. DeskTypes' BY <1>2, <1>3, <1>4 DEF DeskIInv, SdrPart, DeskTypes
<1>6. AskedOwn' BY <1>2, <1>3, <1>4 DEF DeskIInv, SdrPart, AskedOwn, DeskTypes, rowVars
<1>7. RunPart' BY <1>4, RunPartKeeps DEF DeskIInv, callVars
<1> QED BY <1>4, <1>5, <1>6, <1>7, DeskOnly

LEMMA ElementOfSeq == ASSUME NEW P, NEW q \in Seq(P), NEW p \in DOMAIN q PROVE q[p] \in P
OBVIOUS

LEMMA SeqWith ==
  ASSUME NEW P, NEW q \in Seq(P), NEW p \in DOMAIN q, NEW v \in P
  PROVE  LET r == [q EXCEPT ![p] = v]
         IN r \in Seq(P) /\ Len(r) = Len(q) /\ DOMAIN r = DOMAIN q /\ r[p] = v
OBVIOUS

LEMMA PauseAt ==
  ASSUME SdrTypes, NEW p \in DOMAIN pauses
  PROVE  pauses[p] \in [sdr : Sdr, call : Call, open : BOOLEAN]
<1>1. pauses \in Seq([sdr : Sdr, call : Call, open : BOOLEAN]) BY DEF SdrTypes
<1> QED BY <1>1, ElementOfSeq

\* Closing a pause of one SDR leaves the wrap-up of the others alone.
LEMMA WrapUpDesk == ASSUME DeskIInv, NEW s \in Sdr, WrapUp(s) PROVE DeskIInv'
<1> DEFINE a == asked[s]
<1>1. /\ a.op = "wrapup" /\ asked' = [asked EXCEPT ![s] = NoAsk]
      /\ UNCHANGED <<callVars, lead, attempts, procVars, online, claim, leaving, pickVars, res, fin,
                     ghosts>>
  BY DEF WrapUp
<1>2. SdrTypes /\ PostCallHasPause /\ PausesBounded /\ AskedOwn /\ DeskTypes
  BY DEF DeskIInv, SdrPart
<1>3. a.pause \in DOMAIN pauses /\ pauses[a.pause].sdr = s BY <1>1, <1>2 DEF AskedOwn
<1>4. CallPart' /\ RestPart' /\ RunPart'
  <2>1. RestPart' BY <1>1 DEF DeskIInv, RestPart, LeadTypes, ProcTypes, GhostTypes, PickTypes,
                              procVars, pickVars, ghosts
  <2> QED BY <1>1, <2>1, CallPartKeeps, RunPartKeeps DEF DeskIInv, callVars
<1>5. asked' \in [Sdr -> Asks] /\ \A t \in Sdr : asked'[t].op = "wrapup" => asked'[t] = asked[t]
  BY <1>1, <1>2, NoAskIsAsk DEF DeskTypes
<1>6. DeskTypes' BY <1>1, <1>2, <1>5 DEF DeskTypes
<1>7. CASE pauses[a.pause].open
  <2>1. /\ pauses' = [pauses EXCEPT ![a.pause].open = FALSE]
        /\ current' = [current EXCEPT ![s] = IF current[s] = a.pause THEN 0 ELSE @]
        /\ sdr' = [sdr EXCEPT ![s] = IF current[s] # a.pause THEN @
                                     ELSE IF a.stay THEN "available" ELSE "offline"]
    BY <1>7 DEF WrapUp
  <2> HIDE DEF a
  <2>2. /\ pauses' \in Seq([sdr : Sdr, call : Call, open : BOOLEAN]) /\ Len(pauses') = Len(pauses)
        /\ \A n \in DOMAIN pauses : n # a.pause => pauses'[n] = pauses[n]
        /\ pauses'[a.pause].sdr = s /\ DOMAIN pauses' = DOMAIN pauses
    <3>1. pauses[a.pause] \in [sdr : Sdr, call : Call, open : BOOLEAN] BY <1>2, <1>3, PauseAt
    <3>2. [pauses[a.pause] EXCEPT !.open = FALSE] \in [sdr : Sdr, call : Call, open : BOOLEAN]
      BY <3>1
    <3>3. [pauses[a.pause] EXCEPT !.open = FALSE].sdr = s BY <1>3, <3>1
    <3>4. pauses' = [pauses EXCEPT ![a.pause] = [pauses[a.pause] EXCEPT !.open = FALSE]] BY <2>1
    <3>5. /\ pauses' \in Seq([sdr : Sdr, call : Call, open : BOOLEAN])
          /\ Len(pauses') = Len(pauses) /\ DOMAIN pauses' = DOMAIN pauses
      <4>1. pauses \in Seq([sdr : Sdr, call : Call, open : BOOLEAN]) BY <1>2 DEF SdrTypes
      <4> QED BY <1>3, <3>2, <3>4, <4>1, SeqWith
    <3>6. pauses'[a.pause] = [pauses[a.pause] EXCEPT !.open = FALSE] BY <1>3, <3>4
    <3> QED BY <1>3, <3>3, <3>4, <3>5, <3>6
  <2>3. SdrTypes' BY <1>2, <2>1, <2>2 DEF SdrTypes
  <2>4. PostCallHasPause'
    <3> SUFFICES ASSUME NEW t \in Sdr
                 PROVE  /\ sdr'[t] = "post_call" => current'[t] # 0
                        /\ current'[t] # 0 => /\ pauses'[current'[t]].open
                                              /\ pauses'[current'[t]].sdr = t
      BY DEF PostCallHasPause
    <3>1. CASE t = s /\ current[s] = a.pause BY <1>2, <2>1, <3>1 DEF SdrTypes
    <3>2. CASE t # s \/ current[s] # a.pause
      <4>1. sdr'[t] = sdr[t] /\ current'[t] = current[t] BY <1>2, <2>1, <3>2 DEF SdrTypes
      <4>2. current[t] # 0 => current[t] \in DOMAIN pauses /\ current[t] # a.pause
        BY <1>2, <1>3, <3>2 DEF SdrTypes, PostCallHasPause
      <4> QED BY <1>2, <2>2, <4>1, <4>2 DEF PostCallHasPause
    <3> QED BY <3>1, <3>2
  <2>5. PausesBounded' BY <1>2, <2>2 DEF PausesBounded
  <2>6. AskedOwn' BY <1>2, <1>3, <1>5, <2>2 DEF AskedOwn
  <2> QED BY <1>4, <1>6, <2>3, <2>4, <2>5, <2>6 DEF DeskIInv, SdrPart
<1>8. CASE ~pauses[a.pause].open
  <2>1. UNCHANGED <<pauses, current, sdr>> BY <1>8 DEF WrapUp
  <2>2. AskedOwn' BY <1>2, <1>5, <2>1 DEF AskedOwn
  <2>3. SdrTypes' /\ PostCallHasPause' /\ PausesBounded'
    BY <1>2, <2>1 DEF SdrTypes, PostCallHasPause, PausesBounded
  <2> QED BY <1>4, <1>6, <2>2, <2>3 DEF DeskIInv, SdrPart
<1> QED BY <1>7, <1>8

LEMMA AskFreeDesk ==
  ASSUME DeskIInv, NEW s \in Sdr, NEW i \in Instance, AskFree(i, s)
  PROVE  DeskIInv'
<1>1. UNCHANGED <<callVars, rowVars, procVars, online, claim, leaving, pickVars, ghosts>>
  BY DEF AskFree
<1>2. UNCHANGED plan /\ UNCHANGED pauses BY <1>1 DEF callVars, rowVars
<1>3. ASSUME NEW w \in Call \cup {None}, RunPart',
             asked' = [asked EXCEPT ![s] = [op |-> "free", inst |-> i, waits |-> w]]
      PROVE  DeskIInv'
  <2> DEFINE a == [op |-> "free", inst |-> i, waits |-> w]
  <2>1. a \in Asks /\ a.op # "wrapup" BY DEF Asks
  <2>2. asked' = [asked EXCEPT ![s] = a] BY <1>3
  <2> HIDE DEF a
  <2>3. AskedOwn' /\ asked' \in [Sdr -> Asks] BY <1>2, <2>1, <2>2, AskKeeps
  <2>4. DeskTypes' BY <1>1, <2>3 DEF DeskIInv, SdrPart, DeskTypes
  <2> QED BY <1>1, <1>3, <2>3, <2>4, DeskOnly
<1>4. CASE /\ asked' = [asked EXCEPT ![s] = [op |-> "free", inst |-> i, waits |-> None]]
           /\ UNCHANGED <<res, fin>>
  <2>1. RunPart' BY <1>2, <1>4, RunPartKeeps DEF DeskIInv
  <2> QED BY <1>3, <1>4, <2>1
<1>5. ASSUME NEW c \in CallsOf(s),
             asked' = [asked EXCEPT ![s] =
               [op |-> "free", inst |-> i, waits |-> IF fin[i][c] = Idle THEN c ELSE None]],
             Finish(i, c, "failed", "other", TRUE, res[c])
      PROVE  DeskIInv'
  <2>1. c \in Call /\ Planned(c) BY DEF CallsOf, Planned, DeskIInv, CallPart, CallTypes
  <2>2. res[c] \in Resources BY <2>1 DEF DeskIInv, RunPart, ResTypes
  <2>3. RunPart' BY <1>2, <1>5, <2>1, <2>2, FinishRun DEF DeskIInv, Terminal, Why
  <2>4. (IF fin[i][c] = Idle THEN c ELSE None) \in Call \cup {None} BY <2>1
  <2> QED BY <1>3, <1>5, <2>3, <2>4
<1> QED BY <1>4, <1>5 DEF AskFree

LEMMA FreeDesk == ASSUME DeskIInv, NEW s \in Sdr, Free(s) PROVE DeskIInv'
<1>1. /\ asked' = [asked EXCEPT ![s] = NoAsk]
      /\ pauses' = [p \in DOMAIN pauses |-> IF pauses[p].sdr = s THEN [pauses[p] EXCEPT !.open = FALSE]
                                            ELSE pauses[p]]
      /\ current' = [current EXCEPT ![s] = 0] /\ sdr' = [sdr EXCEPT ![s] = "available"]
      /\ UNCHANGED <<callVars, lead, attempts, procVars, online, claim, leaving, pickVars, res, fin,
                     ghosts>>
  BY DEF Free
<1>2. SdrTypes /\ PostCallHasPause /\ PausesBounded /\ AskedOwn /\ DeskTypes
  BY DEF DeskIInv, SdrPart
<1>3. CallPart' /\ RestPart' /\ RunPart'
  <2>1. RestPart' BY <1>1 DEF DeskIInv, RestPart, LeadTypes, ProcTypes, GhostTypes, PickTypes,
                              procVars, pickVars, ghosts
  <2> QED BY <1>1, <2>1, CallPartKeeps, RunPartKeeps DEF DeskIInv, callVars
<1>4. asked' \in [Sdr -> Asks] /\ \A t \in Sdr : asked'[t].op = "wrapup" => asked'[t] = asked[t]
  BY <1>1, <1>2, NoAskIsAsk DEF DeskTypes
<1>5. DeskTypes' BY <1>1, <1>2, <1>4 DEF DeskTypes
<1>6. /\ pauses' \in Seq([sdr : Sdr, call : Call, open : BOOLEAN]) /\ Len(pauses') = Len(pauses)
      /\ DOMAIN pauses' = DOMAIN pauses
      /\ \A p \in DOMAIN pauses : /\ pauses'[p].sdr = pauses[p].sdr
                                  /\ pauses[p].sdr # s => pauses'[p] = pauses[p]
  <2> DEFINE P == [sdr : Sdr, call : Call, open : BOOLEAN]
  <2>1. ASSUME NEW p \in DOMAIN pauses
        PROVE  pauses'[p] \in P /\ pauses'[p].sdr = pauses[p].sdr
    <3>1. pauses[p] \in P BY <1>2, PauseAt
    <3>2. [pauses[p] EXCEPT !.open = FALSE] \in P
          /\ [pauses[p] EXCEPT !.open = FALSE].sdr = pauses[p].sdr BY <3>1
    <3> QED BY <1>1, <3>1, <3>2
  <2>2. DOMAIN pauses = 1..Len(pauses) /\ Len(pauses) \in Nat BY <1>2 DEF SdrTypes
  <2> HIDE DEF P
  <2>3. pauses' \in [1..Len(pauses) -> P] BY <1>1, <2>1, <2>2
  <2>4. pauses' \in Seq(P) /\ Len(pauses') = Len(pauses) BY <2>2, <2>3
  <2> QED BY <1>1, <2>1, <2>4 DEF P
<1>7. SdrTypes' BY <1>1, <1>2, <1>6 DEF SdrTypes
<1>8. PostCallHasPause'
  <2> SUFFICES ASSUME NEW t \in Sdr
               PROVE  /\ sdr'[t] = "post_call" => current'[t] # 0
                      /\ current'[t] # 0 => pauses'[current'[t]].open /\ pauses'[current'[t]].sdr = t
    BY DEF PostCallHasPause
  <2>1. CASE t = s BY <1>1, <1>2, <2>1 DEF SdrTypes
  <2>2. CASE t # s
    <3>1. sdr'[t] = sdr[t] /\ current'[t] = current[t] BY <1>1, <1>2, <2>2 DEF SdrTypes
    <3>2. current[t] # 0 => current[t] \in DOMAIN pauses /\ pauses[current[t]].sdr = t
      BY <1>2 DEF SdrTypes, PostCallHasPause
    <3> QED BY <1>2, <1>6, <2>2, <3>1, <3>2 DEF PostCallHasPause
  <2> QED BY <2>1, <2>2
<1>9. PausesBounded' /\ AskedOwn' BY <1>2, <1>4, <1>6 DEF PausesBounded, AskedOwn
<1> QED BY <1>3, <1>5, <1>7, <1>8, <1>9 DEF DeskIInv, SdrPart


\* Whatever each call of one process becomes, it stays typed and planned.
LEMMA EachRun ==
  ASSUME RunPart, UNCHANGED plan, NEW i \in Instance,
         NEW F, NEW R, F \in [Call -> FinSteps], R \in [Call -> Resources],
         fin' = [fin EXCEPT ![i] = F], res' = R,
         \A c \in Call : F[c] # Idle => Planned(c),
         \A c \in Call : R[c] # NoRes => Planned(c)
  PROVE  RunPart'
BY DEF RunPart, ResTypes, FinTypes, ResPlanned, FinPlanned, Planned

LEMMA DisconnectDesk == ASSUME DeskIInv, NEW s \in Sdr, Disconnect(s) PROVE DeskIInv'
<1> DEFINE i == Station[s]
           watched == {c \in InMemory(s) : /\ Media(c) \notin {"none", "resolving", "cleared"}
                                           /\ ~res[c].finishing}
           end(c) == IF res[c].live THEN "failed" ELSE "cancelled"
           F == [c \in Call |-> IF c \in watched /\ fin[i][c] = Idle
                                THEN Begun(i, c, end(c), "other", FALSE, res[c]) ELSE fin[i][c]]
           R == [c \in Call |-> IF c \in watched THEN Taken(i, c, res[c]) ELSE res[c]]
<1>1. /\ online' = online \ {s} /\ leaving' = [leaving EXCEPT ![s] = "update"]
      /\ UNCHANGED <<callVars, rowVars, procVars, claim, asked, pickVars, ghosts>>
  BY DEF Disconnect
<1>2. res' = R BY DEF Disconnect
<1>3. i \in Instance BY StationKnown
<1>4. RunPart /\ CallTypes BY DEF DeskIInv, CallPart
<1>5. fin' = [fin EXCEPT ![i] = F] BY <1>3, <1>4 DEF Disconnect, RunPart, FinTypes
<1>6. ASSUME NEW c \in watched PROVE c \in Call /\ Planned(c)
  BY <1>4 DEF InMemory, CallsOf, CallTypes, Planned
<1>7. ASSUME NEW c \in Call PROVE F[c] \in FinSteps /\ (F[c] # Idle => Planned(c))
  <2>1. CASE c \in watched /\ fin[i][c] = Idle
    <3>1. end(c) \in Terminal BY DEF Terminal
    <3>2. Begun(i, c, end(c), "other", FALSE, res[c]) \in FinSteps
      BY <3>1, BegunType DEF Why
    <3> QED BY <2>1, <3>2, <1>6
  <2>2. CASE ~(c \in watched /\ fin[i][c] = Idle)
    BY <2>2, <1>3, <1>4 DEF RunPart, FinTypes, FinPlanned
  <2> QED BY <2>1, <2>2
<1>8. ASSUME NEW c \in Call PROVE R[c] \in Resources /\ (R[c] # NoRes => Planned(c))
  <2>1. res[c] \in Resources /\ (res[c] # NoRes => Planned(c)) BY <1>4 DEF RunPart, ResTypes, ResPlanned
  <2>2. Taken(i, c, res[c]) \in Resources BY <2>1, TakenOK
  <2> QED BY <2>1, <2>2, <1>6
<1> HIDE DEF i, F, R
<1>9. RunPart'
  <2>1. F \in [Call -> FinSteps] /\ R \in [Call -> Resources] BY <1>7, <1>8 DEF F, R
  <2>2. UNCHANGED plan BY <1>1 DEF callVars
  <2> QED BY <1>2, <1>3, <1>4, <1>5, <1>7, <1>8, <2>1, <2>2, EachRun
<1>10. DeskTypes' /\ AskedOwn'
  BY <1>1 DEF DeskIInv, SdrPart, DeskTypes, AskedOwn, rowVars
<1> QED BY <1>1, <1>9, <1>10, DeskOnly

\* Leaving the desk, and taking a seat at it again.
LEMMA LeaveDesk ==
  ASSUME DeskIInv, NEW s \in Sdr,
         LeaveUpdate(s) \/ LeaveNext(s) \/ LeaveDone(s) \/ Connect(s)
  PROVE  DeskIInv'
<1>0. SdrTypes /\ DeskTypes /\ PostCallHasPause /\ AskedOwn /\ RunPart
  BY DEF DeskIInv, SdrPart
<1>1. CASE LeaveUpdate(s)
  <2>1. /\ UNCHANGED <<callVars, lead, attempts, current, pauses, procVars, online, asked,
                       pickVars, res, fin, ghosts>>
        /\ leaving' = [leaving EXCEPT ![s] = "calls"] /\ claim' = [claim EXCEPT ![s] = "none"]
        /\ sdr' = [sdr EXCEPT ![s] = IF current[s] = 0 THEN "offline" ELSE @]
    BY <1>1 DEF LeaveUpdate
  <2>2. DeskTypes' /\ AskedOwn' BY <1>0, <2>1 DEF DeskTypes, AskedOwn
  <2>3. RunPart' BY <1>0, <2>1, RunPartKeeps DEF callVars
  <2>4. /\ sdr' \in [Sdr -> {"available", "offline", "in_call", "post_call"}]
        /\ \A t \in Sdr : sdr'[t] = "post_call" => current[t] # 0
    BY <1>0, <2>1 DEF SdrTypes, PostCallHasPause
  <2> QED BY <2>1, <2>2, <2>3, <2>4, ShownOnly
<1>2. CASE LeaveDone(s)
  <2>1. /\ UNCHANGED <<callVars, lead, attempts, current, pauses, procVars, online, claim, asked,
                       pickVars, res, fin, ghosts>>
        /\ leaving' = [leaving EXCEPT ![s] = "no"]
        /\ sdr' = [sdr EXCEPT ![s] = IF current[s] = 0 THEN "offline" ELSE "post_call"]
    BY <1>2 DEF LeaveDone, WhenGone
  <2>2. DeskTypes' /\ AskedOwn' BY <1>0, <2>1 DEF DeskTypes, AskedOwn
  <2>3. RunPart' BY <1>0, <2>1, RunPartKeeps DEF callVars
  <2>4. /\ sdr' \in [Sdr -> {"available", "offline", "in_call", "post_call"}]
        /\ \A t \in Sdr : sdr'[t] = "post_call" => current[t] # 0
    BY <1>0, <2>1 DEF SdrTypes, PostCallHasPause
  <2> QED BY <2>1, <2>2, <2>3, <2>4, ShownOnly
<1>3. CASE LeaveNext(s) \/ Connect(s)
  <2>1. UNCHANGED <<callVars, rowVars, procVars, asked, pickVars, res, fin, ghosts>>
    BY <1>3 DEF LeaveNext, Connect
  <2>2. DeskTypes' BY <1>0, <1>3 DEF LeaveNext, Connect, DeskTypes
  <2>3. AskedOwn' BY <1>0, <2>1 DEF AskedOwn, rowVars
  <2>4. RunPart' BY <1>0, <2>1, RunPartKeeps DEF callVars
  <2> QED BY <2>1, <2>2, <2>3, <2>4, DeskOnly
<1> QED BY <1>1, <1>2, <1>3

LEMMA LeaveCallDesk ==
  ASSUME DeskIInv, NEW s \in Sdr, NEW c \in Call, LeaveCall(s, c)
  PROVE  DeskIInv'
<1>1. /\ leaving' = [leaving EXCEPT ![s] = c] /\ c \in InMemory(s)
      /\ Finish(Station[s], c, "failed", "other", FALSE, res[c])
      /\ UNCHANGED <<callVars, rowVars, procVars, online, claim, asked, pickVars, ghosts>>
  BY DEF LeaveCall
<1>2. Station[s] \in Instance BY StationKnown
<1>3. Planned(c) BY <1>1 DEF InMemory, CallsOf, Planned, DeskIInv, CallPart, CallTypes
<1>4. res[c] \in Resources BY DEF DeskIInv, RunPart, ResTypes
<1>5. RunPart' BY <1>1, <1>2, <1>3, <1>4, FinishRun DEF DeskIInv, Terminal, Why, callVars
<1>6. DeskTypes' /\ AskedOwn'
  BY <1>1 DEF DeskIInv, SdrPart, DeskTypes, AskedOwn, rowVars
<1> QED BY <1>1, <1>5, <1>6, DeskOnly

LEMMA DeskDesk == ASSUME DeskIInv, NEW s \in Sdr, Desk(s) PROVE DeskIInv'
BY AvailabilityDesk, AskWrapUpDesk, WrapUpDesk, AskFreeDesk, FreeDesk, DisconnectDesk, LeaveDesk,
   LeaveCallDesk
DEF Desk

LEMMA CrashDesk == ASSUME DeskIInv, NEW i \in Instance, Crash(i) PROVE DeskIInv'
<1>1. CallTypes /\ StatusPlanned /\ DeskTypes /\ AskedOwn /\ RunPart /\ ProcTypes /\ PickTypes
      /\ LeadTypes /\ GhostTypes /\ SdrPart
  BY DEF DeskIInv, CallPart, SdrPart, RestPart
<1>2. Owned(i) \subseteq Call /\ \A c \in Owned(i) : Planned(c)
  BY <1>1 DEF Owned, CallTypes, Planned
<1>3. UNCHANGED <<plan, connected, late, lease, rowVars, ghosts>> BY DEF Crash
<1>4. CallPart'
  <2>1. /\ status' = [c \in Call |-> IF c \in Owned(i) /\ status[c] = "reserving" THEN "refused"
                                     ELSE status[c]]
        /\ orphaned' = orphaned \cup Owned(i)
    BY DEF Crash
  <2>2. CallTypes' BY <1>1, <1>2, <1>3, <2>1 DEF CallTypes
  <2>3. StatusPlanned' BY <1>1, <1>2, <1>3, <2>1 DEF StatusPlanned, Planned, CallTypes
  <2> QED BY <2>2, <2>3 DEF CallPart
<1>5. DeskTypes'
  <2>1. /\ online' = {s \in online : Station[s] # i}
        /\ claim' = [s \in Sdr |-> IF Station[s] = i /\ claim[s] = "live" THEN "dead" ELSE claim[s]]
        /\ leaving' = [s \in Sdr |-> IF Station[s] = i THEN "no" ELSE leaving[s]]
    BY DEF Crash
  <2>2. asked' \in [Sdr -> Asks] BY <1>1, NoAskIsAsk DEF Crash, DeskTypes
  <2> QED BY <1>1, <2>1, <2>2 DEF DeskTypes
<1>6. AskedOwn'
  <2>1. \A s \in Sdr : asked'[s] = NoAsk \/ asked'[s] = asked[s] BY DEF Crash
  <2> QED BY <1>1, <1>3, <2>1, NoAskIsAsk DEF AskedOwn, rowVars
<1>7. SdrPart' BY <1>1, <1>3, <1>5, <1>6 DEF SdrPart, SdrTypes, PostCallHasPause, PausesBounded, rowVars
<1>8. ProcTypes'
  <2>1. /\ crashes < MaxCrashes /\ crashes' = crashes + 1
        /\ up' = up \ {i} /\ oldKey' = oldKey \cup {i}
        /\ recovering' = [recovering EXCEPT ![i] = {}]
    BY DEF Crash
  <2> QED BY <1>1, <2>1, BoundsNat DEF ProcTypes
<1>9. PickTypes'
  <2>1. tick' = [tick EXCEPT ![i] = NoPick] /\ manual' = [manual EXCEPT ![i] = None] BY DEF Crash
  <2> QED BY <1>1, <2>1 DEF PickTypes, NoPick
<1>10. RestPart' BY <1>1, <1>3, <1>8, <1>9 DEF RestPart, LeadTypes, GhostTypes, rowVars, ghosts
<1>11. RunPart'
  <2> DEFINE F == [c \in Call |-> Idle]
             R == [c \in Call |-> IF c \in Owned(i) THEN NoRes ELSE res[c]]
  <2>1. fin' = [fin EXCEPT ![i] = F] /\ res' = R BY DEF Crash
  <2>2. F \in [Call -> FinSteps] /\ \A c \in Call : F[c] = Idle BY NothingYet
  <2>3. R \in [Call -> Resources] /\ \A c \in Call : R[c] # NoRes => R[c] = res[c]
    BY <1>1, NothingYet DEF RunPart, ResTypes
  <2>4. \A c \in Call : R[c] # NoRes => Planned(c) BY <1>1, <2>3 DEF RunPart, ResPlanned
  <2> HIDE DEF F, R
  <2> QED BY <1>1, <1>3, <2>1, <2>2, <2>3, <2>4, EachRun
<1> QED BY <1>4, <1>7, <1>10, <1>11 DEF DeskIInv

LEMMA ProcessDesk == ASSUME DeskIInv, NEW i \in Instance, Process(i) PROVE DeskIInv'
<1>1. CASE Crash(i) BY <1>1, CrashDesk
<1>2. CASE KeyExpires(i)
  <2>1. UNCHANGED <<callVars, rowVars, up, recovering, crashes, deskVars, pickVars, res, fin, ghosts>>
    BY <1>2 DEF KeyExpires
  <2>2. RestPart'
    BY <1>2, <2>1 DEF KeyExpires, DeskIInv, RestPart, LeadTypes, ProcTypes, GhostTypes, PickTypes,
                      rowVars, pickVars, ghosts
  <2> QED BY <2>1, <2>2, CallPartKeeps, SdrPartKeeps, RunPartKeeps DEF DeskIInv, rowVars, callVars
<1>3. CASE Restart(i)
  <2>0. SdrTypes /\ DeskTypes /\ PostCallHasPause /\ AskedOwn /\ ProcTypes
    BY DEF DeskIInv, SdrPart, RestPart
  <2>1. UNCHANGED <<callVars, lead, attempts, current, pauses, oldKey, crashes, online, leaving,
                    asked, pickVars, res, fin, ghosts>>
    BY <1>3 DEF Restart
  <2>2. PICK reset \in SUBSET Sdr :
          /\ claim' = [s \in Sdr |-> IF s \in reset THEN "none" ELSE claim[s]]
          /\ sdr' = [s \in Sdr |-> IF s \in reset
                                   THEN IF current[s] = 0 THEN "offline" ELSE "post_call" ELSE sdr[s]]
    BY <1>3 DEF Restart, WhenGone
  <2>3. DeskTypes' BY <2>0, <2>1, <2>2 DEF DeskTypes
  <2>4. SdrTypes' /\ PostCallHasPause' BY <2>0, <2>1, <2>2 DEF SdrTypes, PostCallHasPause
  <2>5. SdrPart' BY <2>0, <2>1, <2>3, <2>4 DEF DeskIInv, SdrPart, PausesBounded, AskedOwn
  <2>6. ProcTypes' BY <1>3, <2>0, <2>1 DEF Restart, ProcTypes
  <2>7. RestPart'
    BY <2>1, <2>6 DEF DeskIInv, RestPart, LeadTypes, GhostTypes, PickTypes, pickVars, ghosts
  <2> QED BY <2>1, <2>5, <2>7, CallPartKeeps, RunPartKeeps DEF DeskIInv, callVars
<1> QED BY <1>1, <1>2, <1>3 DEF Process
-----------------------------------------------------------------------------
LEMMA InitDesk == Init => DeskIInv
<1> SUFFICES ASSUME Init PROVE DeskIInv
  OBVIOUS
<1>1. CallPart BY DEF Init, CallPart, CallTypes, StatusPlanned
<1>2. SdrPart
  <2>1. pauses = <<>> /\ current = [s \in Sdr |-> 0] /\ sdr = [s \in Sdr |-> "available"] BY DEF Init
  <2>2. SdrTypes BY <2>1 DEF SdrTypes
  <2>3. PostCallHasPause /\ PausesBounded
    BY <2>1, BoundsNat DEF PostCallHasPause, PausesBounded
  <2>4. AskedOwn /\ DeskTypes BY NoAskIsAsk DEF Init, AskedOwn, DeskTypes
  <2> QED BY <2>2, <2>3, <2>4 DEF SdrPart
<1>3. RestPart
  BY BoundsNat DEF Init, RestPart, LeadTypes, ProcTypes, GhostTypes, PickTypes, NoPick
<1>4. RunPart BY NothingYet DEF Init, RunPart, ResTypes, FinTypes, ResPlanned, FinPlanned
<1> QED BY <1>1, <1>2, <1>3, <1>4 DEF DeskIInv

LEMMA StepDesk == DeskIInv /\ [Next]_vars => DeskIInv'
<1> SUFFICES ASSUME DeskIInv, [Next]_vars PROVE DeskIInv'
  OBVIOUS
<1>1. CASE UNCHANGED vars
  BY <1>1, CallPartKeeps, SdrPartKeeps, RestPartKeeps, RunPartKeeps
  DEF DeskIInv, vars, callVars, rowVars
<1>2. CASE Next BY <1>2, PlaceDesk, BeginDesk, TalkDesk, EndDesk, DeskDesk, ProcessDesk DEF Next
<1> QED BY <1>1, <1>2

\* Every variable keeps its type, and an SDR shown as post_call, or with a current
\* pause, has a pause of their own that is still open: the wrap-up can be ended.
THEOREM WrapUpCanEnd == Spec => []DeskInv
<1>1. Init => DeskIInv BY InitDesk
<1>2. DeskIInv /\ [Next]_vars => DeskIInv' BY StepDesk
<1>3. DeskIInv => DeskInv BY DeskIsInv
<1> QED BY <1>1, <1>2, <1>3, PTL DEF Spec
-----------------------------------------------------------------------------
(* Attempts.  A rate limit or a stalled line gives the attempt back, and no *)
(* call does so twice, although its socket may outlive it, a second end may *)
(* be on its way and a late frame may set it active again.                  *)

Shut    == {"none", "closed", "broken"}              \* no media, or none any more
Early   == {"resolving", "cleared", "connecting"}
Through == {"open", "closing"}

\* Nothing that this resource still lives through can end in a refund.
NoMore(r) == r.mem # "due" /\ (r.media \in Shut \/ (r.media \in Through /\ r.finishing))

\* Whoever reads the row of such a call finds it ended, now and later.
Settled(r, st) ==
  st \in Terminal /\ ~r.frame /\ r.mem # "due" /\ (r.live \/ r.media \in Shut)

Transient(f) == f.pc \in {"read", "commit"} /\ f.why # "other"

\* A call with resource r and row st; "again" if it was refunded already.  A call that has
\* left the map without being marked has ended, or its one frame has come.
CallOnce(r, st, again) ==
  /\ r.mem = "due" => r.media = "none" /\ ~r.ring
  /\ r.frame => r.live
  /\ r.mem = "no" /\ ~r.finishing /\ r.media \notin Shut =>
       st \in Terminal \/ (r.live /\ ~r.frame)
  /\ again => NoMore(r) \/ (Settled(r, st) /\ r.mem = "no")

\* An end of the call that is under way; "own" in the process that placed the call.
EndOnce(f, own, r, st, again) ==
  f # Idle =>
    /\ ~own => ~Transient(f) /\ ~f.own
    /\ f.own => r.mem # "due" /\ (r.mem = "yes" => r.finishing)
    /\ own /\ ~f.own /\ r.mem # "no" /\ ~r.finishing =>
         IF f.pc = "read" THEN f.force ELSE f.final \in Terminal
    /\ f.pc = "read" /\ Transient(f) =>
         /\ again => Settled(r, st)
         /\ NoMore(r) \/ (r.mem = "no" /\ ~r.finishing /\ r.media \in Through)
    /\ f.pc = "commit" /\ Transient(f) =>
         /\ ~again
         /\ NoMore(r) \/ (r.mem = "no" /\ r.live /\ ~r.frame)
    /\ f.pc = "commit" =>
         /\ f.refund <=> f.why # "other"
         /\ f.refund => f.final \in Terminal

OnceInv ==
  \A c \in Call :
    /\ CallOnce(res[c], status[c], c \in refunded)
    /\ \A i \in Instance :
         EndOnce(fin[i][c], i = Owner(c), res[c], status[c], c \in refunded)

\* Whatever is under way belongs to a call that was placed, and a crash leaves nothing of it.
PlacedInv ==
  \A c \in Call :
    /\ res[c] # NoRes => Placed(c)
    /\ c \in refunded => Placed(c)
    /\ \A i \in Instance : fin[i][c] # Idle \/ c \in recovering[i] => Placed(c)
    /\ c \in orphaned => res[c] = NoRes /\ status[c] \notin {"none", "reserving"}
    /\ plan[c] # None => status[c] # "none"

Used == {c \in Call : status[c] # "none"}
Counted(l) == {c \in Call : Placed(c) /\ plan[c].auto /\ plan[c].lead = l /\ c \notin refunded}
Ledger == IsFiniteSet(Used) /\ \A l \in Lead : attempts[l] = Cardinality(Counted(l))

\* An end that began before the call was in the map, and will take it out unmarked.
BlindEnd(c) == plan[c] # None /\ res[c].mem = "yes" /\ ~res[c].finishing
BlindEndsSucceed == \A c \in Call : BlindEnd(c) => ~FinFails(Owner(c), c)
-----------------------------------------------------------------------------
(* What happens to a resource, its row and the ends under way, one by one.  *)

Moves(r, q) ==
  /\ q.mem = r.mem /\ q.finishing = r.finishing /\ q.live = r.live /\ q.frame = r.frame
  /\ q.ring => r.ring \/ r.media # "none"
  /\ \/ q.media = r.media
     \/ r.media # "none" /\ q.media \in Shut
     \/ r.media \in Early /\ q.media \in Early \cup Through
     \/ r.media \in Through /\ q.media \in Through

\* From one state of a call to another, whatever ends are under way.
Carried(r, st, again, q, new, anew) ==
  /\ CallOnce(q, new, anew)
  /\ \A f \in FinSteps, own \in BOOLEAN :
       EndOnce(f, own, r, st, again) => EndOnce(f, own, q, new, anew)

LEMMA MoveOnce ==
  ASSUME NEW r \in Resources, NEW q \in Resources, NEW st, NEW again \in BOOLEAN,
         CallOnce(r, st, again), Moves(r, q)
  PROVE  Carried(r, st, again, q, st, again)
<1>1. CallOnce(q, st, again)
  BY DEF CallOnce, Moves, NoMore, Settled, Shut, Early, Through, Resources
<1>2. ASSUME NEW f \in FinSteps, NEW own \in BOOLEAN, EndOnce(f, own, r, st, again)
      PROVE  EndOnce(f, own, q, st, again)
  BY <1>2 DEF EndOnce, CallOnce, Moves, NoMore, Settled, Shut, Early, Through, Resources
<1> QED BY <1>1, <1>2 DEF Carried

LEMMA LostOnce ==
  ASSUME NEW r \in Resources, NEW st, NEW again \in BOOLEAN, CallOnce(r, st, again)
  PROVE  Carried(r, st, again, Kept(r), st, again)
<1>1. CASE Kept(r) = r BY <1>1 DEF Carried
<1>2. CASE Kept(r) # r
  <2>1. Kept(r) = NoRes /\ r.mem = "no" /\ r.media \in {"none", "closed"} /\ ~r.frame
    BY <1>2 DEF Kept
  <2>2. NoRes.mem = "no" /\ NoRes.media = "none" /\ NoRes.frame = FALSE /\ NoRes.live = FALSE
    BY DEF NoRes
  <2>3. CallOnce(NoRes, st, again) BY <2>2 DEF CallOnce, NoMore, Shut
  <2>4. ASSUME NEW f \in FinSteps, NEW own \in BOOLEAN, EndOnce(f, own, r, st, again)
        PROVE  EndOnce(f, own, NoRes, st, again)
    BY <2>1, <2>2, <2>4 DEF EndOnce, NoMore, Settled, Shut
  <2> QED BY <2>1, <2>3, <2>4 DEF Carried
<1> QED BY <1>1, <1>2

\* The mark that a first end leaves on the resource it finds in the map.
LEMMA MarkOnce ==
  ASSUME NEW r \in Resources, NEW q \in Resources, NEW st, NEW again \in BOOLEAN,
         CallOnce(r, st, again), r.mem = "yes", q.mem = "yes", q.finishing, q.live = r.live,
         q.frame = r.frame, q.media = IF r.media = "open" THEN "closing" ELSE r.media
  PROVE  Carried(r, st, again, q, st, again)
<1>1. CallOnce(q, st, again)
  BY DEF CallOnce, NoMore, Settled, Shut, Through, Resources
<1>2. ASSUME NEW f \in FinSteps, NEW own \in BOOLEAN, EndOnce(f, own, r, st, again)
      PROVE  EndOnce(f, own, q, st, again)
  BY <1>2 DEF EndOnce, NoMore, Settled, Shut, Through, Resources
<1> QED BY <1>1, <1>2 DEF Carried

\* The first frame: only a call without one can send it, and it is not settled then.
LEMMA FrameOnce ==
  ASSUME NEW r \in Resources, NEW q \in Resources, NEW st, NEW again \in BOOLEAN,
         CallOnce(r, st, again), r.media \in Through, ~r.live, q.live,
         q.mem = r.mem, q.finishing = r.finishing, q.media = r.media
  PROVE  Carried(r, st, again, q, st, again)
<1>1. CallOnce(q, st, again)
  BY DEF CallOnce, NoMore, Settled, Shut, Through, Resources
<1>2. ASSUME NEW f \in FinSteps, NEW own \in BOOLEAN, EndOnce(f, own, r, st, again)
      PROVE  EndOnce(f, own, q, st, again)
  BY <1>2 DEF EndOnce, NoMore, Settled, Shut, Through, Resources
<1> QED BY <1>1, <1>2 DEF Carried

\* The frame has come, or is lost: the row may be anything now.
LEMMA LandOnce ==
  ASSUME NEW r \in Resources, NEW q \in Resources, NEW st, NEW new, NEW again \in BOOLEAN,
         CallOnce(r, st, again), r.frame, ~q.frame, q.live = r.live,
         q.ring = r.ring, q.mem = r.mem, q.finishing = r.finishing, q.media = r.media
  PROVE  Carried(r, st, again, q, new, again)
<1>1. CallOnce(q, new, again)
  BY DEF CallOnce, NoMore, Settled, Resources
<1>2. ASSUME NEW f \in FinSteps, NEW own \in BOOLEAN, EndOnce(f, own, r, st, again)
      PROVE  EndOnce(f, own, q, new, again)
  BY <1>2 DEF EndOnce, NoMore, Settled, Resources
<1> QED BY <1>1, <1>2 DEF Carried

\* active.set(): no end that runs already can be a refund, and each is forced.
LEMMA RegisterOnce ==
  ASSUME NEW r \in Resources, NEW q \in Resources, NEW st, NEW again \in BOOLEAN,
         CallOnce(r, st, again), r.mem = "due", q.mem = "yes", q.finishing = r.finishing,
         q.live = r.live, q.frame = r.frame
  PROVE  Carried(r, st, again, q, st, again)
<1>1. CallOnce(q, st, again)
  BY DEF CallOnce, NoMore, Settled, Resources
<1>2. ASSUME NEW f \in FinSteps, NEW own \in BOOLEAN, EndOnce(f, own, r, st, again)
      PROVE  EndOnce(f, own, q, st, again)
  BY <1>2 DEF EndOnce, NoMore, Settled, Resources
<1> QED BY <1>1, <1>2 DEF Carried

LEMMA CarriedOn ==
  ASSUME NEW r, NEW st, NEW again, NEW q, NEW s2, NEW a2, NEW u, NEW s3, NEW a3,
         Carried(r, st, again, q, s2, a2), Carried(q, s2, a2, u, s3, a3)
  PROVE  Carried(r, st, again, u, s3, a3)
BY DEF Carried

\* finishCall() begins: what it carries fits the resource as it leaves it.
LEMMA BegunOnce ==
  ASSUME NEW r \in Resources, NEW q \in Resources, NEW st, NEW again \in BOOLEAN,
         CallOnce(r, st, again), Moves(r, q), NEW own \in BOOLEAN, NEW f \in ReadStep,
         f.own <=> own /\ q.mem = "yes",
         f.why # "other" =>
           /\ own
           /\ \/ r.media \in Early /\ q.media \in Shut
              \/ r.media \in Through /\ ~r.finishing,
         r.mem = "due" => f.force,
         NEW u \in Resources,
         IF own /\ q.mem = "yes"
         THEN /\ u.mem = "yes" /\ u.finishing /\ u.live = q.live /\ u.frame = q.frame
              /\ u.media = IF q.media = "open" THEN "closing" ELSE q.media
         ELSE u = Kept(q)
  PROVE  EndOnce(f, own, u, st, again)
<1>0. f.pc = "read" BY DEF ReadStep
<1>1. CASE own /\ q.mem = "yes"
  BY <1>0, <1>1 DEF EndOnce, Transient, CallOnce, Moves, NoMore, Settled, Shut, Early, Through,
                    Resources, ReadStep
<1>2. CASE ~(own /\ q.mem = "yes")
  <2>1. EndOnce(f, own, q, st, again)
    BY <1>0, <1>2 DEF EndOnce, Transient, CallOnce, Moves, NoMore, Settled, Shut, Early, Through,
                    Resources, ReadStep
  <2>2. CallOnce(q, st, again) BY MoveOnce DEF Carried
  <2>3. f \in FinSteps BY DEF FinSteps
  <2> QED BY <1>2, <2>1, <2>2, <2>3, LostOnce DEF Carried
<1> QED BY <1>1, <1>2

LEMMA AwayOnce ==
  ASSUME NEW f, NEW r, NEW st, NEW again, NEW q, NEW new, NEW anew,
         EndOnce(f, FALSE, r, st, again)
  PROVE  EndOnce(f, FALSE, q, new, anew)
BY DEF EndOnce, Transient

\* A row that had not ended yet is given any status.
LEMMA StatusOnce ==
  ASSUME NEW r \in Resources, NEW st, NEW new, NEW again \in BOOLEAN,
         CallOnce(r, st, again), st \in Terminal => new = st
  PROVE  Carried(r, st, again, r, new, again)
<1>1. CallOnce(r, new, again) BY DEF CallOnce, Settled
<1>2. ASSUME NEW f \in FinSteps, NEW own \in BOOLEAN, EndOnce(f, own, r, st, again)
      PROVE  EndOnce(f, own, r, new, again)
  BY <1>2 DEF EndOnce, Settled
<1> QED BY <1>1, <1>2 DEF Carried

\* active.delete(): the call was marked, or has ended.
LEMMA LeaveOnce ==
  ASSUME NEW r \in Resources, NEW q \in Resources, NEW st, NEW again \in BOOLEAN,
         CallOnce(r, st, again), r.mem = "yes", q.mem = "no", q.finishing = r.finishing,
         q.live = r.live, q.frame = r.frame, q.media = r.media,
         r.finishing \/ st \in Terminal
  PROVE  CallOnce(q, st, again)
BY DEF CallOnce, NoMore, Settled, Resources
-----------------------------------------------------------------------------
\* The same for the state: a step leaves a call as it was, or carries it on.
SameCall(c) ==
  /\ status'[c] = status[c] /\ res'[c] = res[c] /\ (c \in refunded' <=> c \in refunded)
  /\ \A i \in Instance : fin'[i][c] = fin[i][c]

OnceAt(c) ==
  /\ CallOnce(res[c], status[c], c \in refunded)
  /\ \A i \in Instance :
       EndOnce(fin[i][c], i = Owner(c), res[c], status[c], c \in refunded)

GoodCall(c) ==
  /\ Placed(c) /\ Placed(c)' /\ (res[c] = NoRes => res'[c] = NoRes)
  /\ OnceAt(c)'

NoMoreFound ==
  \A i \in Instance, c \in Call : c \in recovering'[i] => c \in recovering[i] \/ Placed(c)

AccountInv == DeskIInv /\ PlacedInv /\ OnceInv

LEMMA CallsKeep ==
  ASSUME PlacedInv, OnceInv, UNCHANGED <<plan, orphaned>>, NoMoreFound,
         \A c \in Call : SameCall(c) \/ GoodCall(c)
  PROVE  PlacedInv' /\ OnceInv'
<1>1. ASSUME NEW c \in Call, SameCall(c)
      PROVE  OnceAt(c)' /\ (Placed(c) <=> Placed(c)')
  BY <1>1 DEF SameCall, OnceInv, OnceAt, Owner, Placed
<1>2. OnceInv'
  <2>1. \A c \in Call : OnceAt(c)' BY <1>1 DEF GoodCall
  <2> QED BY <2>1 DEF OnceAt, OnceInv
<1>3. \A c \in Call : Placed(c) => Placed(c)' BY <1>1 DEF GoodCall
<1>4. PlacedInv'
  <2> SUFFICES ASSUME NEW c \in Call
               PROVE  /\ res'[c] # NoRes => Placed(c)'
                      /\ c \in refunded' => Placed(c)'
                      /\ \A i \in Instance : fin'[i][c] # Idle \/ c \in recovering'[i] => Placed(c)'
                      /\ c \in orphaned' => res'[c] = NoRes /\ status'[c] \notin {"none", "reserving"}
                      /\ plan'[c] # None => status'[c] # "none"
    BY DEF PlacedInv
  <2>1. CASE GoodCall(c) BY <2>1 DEF GoodCall, PlacedInv, Placed
  <2>2. CASE SameCall(c) BY <2>2, <1>3 DEF SameCall, PlacedInv, NoMoreFound
  <2> QED BY <2>1, <2>2
<1> QED BY <1>2, <1>4

LEMMA SameCalls ==
  ASSUME PlacedInv, OnceInv, UNCHANGED <<plan, orphaned, status, res, fin, refunded>>, NoMoreFound
  PROVE  PlacedInv' /\ OnceInv'
<1>1. \A c \in Call : SameCall(c) BY DEF SameCall
<1> QED BY <1>1, CallsKeep

\* One placed call gets another resource.
LEMMA OneResource ==
  ASSUME AccountInv, UNCHANGED <<plan, orphaned, fin, refunded>>, NoMoreFound,
         NEW c \in Call, Placed(c), Placed(c)', NEW q, res' = [res EXCEPT ![c] = q],
         \A d \in Call : d # c => status'[d] = status[d],
         res[c] = NoRes => q = NoRes,
         Carried(res[c], status[c], c \in refunded, q, status'[c], c \in refunded)
  PROVE  PlacedInv' /\ OnceInv'
<1>1. \A i \in Instance : fin[i][c] \in FinSteps BY DEF AccountInv, DeskIInv, RunPart, FinTypes
<1>2. res'[c] = q /\ \A d \in Call : d # c => res'[d] = res[d]
  BY DEF AccountInv, DeskIInv, RunPart, ResTypes
<1>3. \A d \in Call : d # c => SameCall(d) BY <1>2 DEF SameCall
<1>4. OnceAt(c)' BY <1>1, <1>2 DEF OnceAt, AccountInv, OnceInv, Carried, Owner
<1>5. GoodCall(c) BY <1>2, <1>4 DEF GoodCall
<1> QED BY <1>3, <1>5, CallsKeep DEF AccountInv

\* One call is ended, or was being ended already.
LEMMA FinishOne ==
  ASSUME AccountInv, UNCHANGED <<plan, status, refunded>>,
         NEW i \in Instance, NEW c \in Call, Placed(c), NEW st \in Terminal, NEW why \in Why,
         NEW force \in BOOLEAN, NEW q \in Resources, Moves(res[c], q),
         res[c] = NoRes => q = NoRes,
         why # "other" => /\ i = Owner(c)
                          /\ \/ res[c].media \in Early /\ q.media \in Shut
                             \/ res[c].media \in Through /\ ~res[c].finishing,
         res[c].mem = "due" => force,
         fin'[i][c] = IF fin[i][c] = Idle THEN Begun(i, c, st, why, force, q) ELSE fin[i][c],
         \A j \in Instance : j # i => fin'[j][c] = fin[j][c],
         res'[c] = Taken(i, c, q)
  PROVE  GoodCall(c)
<1> DEFINE r == res[c]
           u == Taken(i, c, q)
           b == Begun(i, c, st, why, force, q)
           own == i = Owner(c)
           again == c \in refunded
<1>1. r \in Resources /\ \A j \in Instance : fin[j][c] \in FinSteps
  BY DEF AccountInv, DeskIInv, RunPart, ResTypes, FinTypes
<1>2. u \in Resources BY TakenOK
<1>3. CallOnce(r, status[c], again) BY DEF AccountInv, OnceInv
<1>4. IF own /\ q.mem = "yes" /\ fin[i][c] = Idle
      THEN /\ u.mem = "yes" /\ u.finishing /\ u.live = q.live /\ u.frame = q.frame
           /\ u.media = IF q.media = "open" THEN "closing" ELSE q.media
      ELSE u = Kept(q)
  BY DEF Taken, Resources
<1>5. b \in ReadStep /\ (b.own <=> own /\ q.mem = "yes") /\ b.why = why /\ b.force = force
  BY DEF Begun, ReadStep
<1>6. r = NoRes => u = NoRes
  BY <1>4 DEF NoRes, Kept
<1>7a. again \in BOOLEAN /\ own \in BOOLEAN /\ Moves(r, q) /\ (r.mem = "due" => force) OBVIOUS
<1> HIDE DEF u, b, r, own, again
<1>7. Carried(r, status[c], again, q, status[c], again) BY <1>1, <1>3, <1>7a, MoveOnce
<1>8. CallOnce(q, status[c], again) BY <1>7 DEF Carried
<1>9. Carried(q, status[c], again, u, status[c], again)
  <2>1. CASE own /\ q.mem = "yes" /\ fin[i][c] = Idle BY <2>1, <1>2, <1>4, <1>7a, <1>8, MarkOnce
  <2>2. CASE ~(own /\ q.mem = "yes" /\ fin[i][c] = Idle) BY <2>2, <1>4, <1>7a, <1>8, LostOnce
  <2> QED BY <2>1, <2>2
<1>10. Carried(r, status[c], again, u, status[c], again) BY <1>7, <1>9, CarriedOn
<1>11a. \A j \in Instance : EndOnce(fin[j][c], j = Owner(c), r, status[c], again)
  BY DEF AccountInv, OnceInv, r, again
<1>11. \A j \in Instance : EndOnce(fin[j][c], j = Owner(c), u, status[c], again)
  BY <1>1, <1>7a, <1>10, <1>11a DEF Carried
<1>12. fin[i][c] = Idle => EndOnce(b, own, u, status[c], again)
  <2> SUFFICES ASSUME fin[i][c] = Idle PROVE EndOnce(b, own, u, status[c], again)
    OBVIOUS
  <2>1. IF own /\ q.mem = "yes"
        THEN /\ u.mem = "yes" /\ u.finishing /\ u.live = q.live /\ u.frame = q.frame
             /\ u.media = IF q.media = "open" THEN "closing" ELSE q.media
        ELSE u = Kept(q)
    BY <1>4
  <2>2. /\ b.why # "other" => /\ own
                              /\ \/ r.media \in Early /\ q.media \in Shut
                                 \/ r.media \in Through /\ ~r.finishing
        /\ r.mem = "due" => b.force
    BY <1>5 DEF own, r
  <2> QED BY <1>1, <1>2, <1>3, <1>5, <1>7a, <2>1, <2>2, BegunOnce
<1>13. \A j \in Instance : EndOnce(fin'[j][c], j = Owner(c), u, status[c], again)
  BY <1>11, <1>12 DEF b, own
<1>14. CallOnce(u, status[c], again) BY <1>10 DEF Carried
<1>15. OnceAt(c)'
  <2>1. res'[c] = u BY DEF u
  <2>2. (c \in refunded)' = again BY DEF again
  <2> QED BY <1>13, <1>14, <2>1, <2>2 DEF OnceAt, Owner
<1> QED BY <1>6, <1>15 DEF GoodCall, Placed, u, r

LEMMA FinishAccount ==
  ASSUME AccountInv, UNCHANGED <<plan, status, refunded, orphaned>>, NoMoreFound,
         NEW i \in Instance, NEW c \in Call, Placed(c), NEW st \in Terminal, NEW why \in Why,
         NEW force \in BOOLEAN, NEW q \in Resources, Moves(res[c], q),
         res[c] = NoRes => q = NoRes,
         why # "other" => /\ i = Owner(c)
                          /\ \/ res[c].media \in Early /\ q.media \in Shut
                             \/ res[c].media \in Through /\ ~res[c].finishing,
         res[c].mem = "due" => force,
         Finish(i, c, st, why, force, q)
  PROVE  PlacedInv' /\ OnceInv'
<1> DEFINE b == Begun(i, c, st, why, force, q)
           u == Taken(i, c, q)
<1>1. /\ fin' = [fin EXCEPT ![i][c] = IF @ = Idle THEN b ELSE @] /\ res' = [res EXCEPT ![c] = u]
  BY DEF Finish
<1> HIDE DEF b, u
<1>2. /\ fin'[i][c] = IF fin[i][c] = Idle THEN b ELSE fin[i][c]
      /\ \A j \in Instance, d \in Call : <<j, d>> # <<i, c>> => fin'[j][d] = fin[j][d]
      /\ res'[c] = u /\ \A d \in Call : d # c => res'[d] = res[d]
  BY <1>1 DEF AccountInv, DeskIInv, RunPart, ResTypes, FinTypes
<1>3. GoodCall(c) BY <1>2, FinishOne DEF b, u
<1>4. \A d \in Call : d # c => SameCall(d) BY <1>2 DEF SameCall
<1> QED BY <1>3, <1>4, CallsKeep DEF AccountInv
-----------------------------------------------------------------------------
LEMMA IdleCall ==
  ASSUME PlacedInv, NEW c \in Call, ~Placed(c)
  PROVE  /\ res[c] = NoRes /\ c \notin refunded
         /\ \A i \in Instance : fin[i][c] = Idle /\ c \notin recovering[i]
BY DEF PlacedInv

PlacedCall(c) ==
  /\ res[c] # NoRes => Placed(c)
  /\ c \in refunded => Placed(c)
  /\ \A i \in Instance : fin[i][c] # Idle \/ c \in recovering[i] => Placed(c)
  /\ c \in orphaned => res[c] = NoRes /\ status[c] \notin {"none", "reserving"}
  /\ plan[c] # None => status[c] # "none"

LEMMA PlacedEach ==
  /\ PlacedInv <=> \A c \in Call : PlacedCall(c)
  /\ (\A c \in Call : PlacedCall(c)') => PlacedInv'
BY DEF PlacedInv, PlacedCall

LEMMA NoResOnce ==
  /\ \A st : CallOnce(NoRes, st, FALSE)
  /\ \A own, r, st, again : EndOnce(Idle, own, r, st, again)
BY DEF CallOnce, EndOnce, NoRes, Shut

LEMMA ReserveAccount ==
  ASSUME AccountInv, NEW c \in Call, NEW p \in Plan, Reserve(c, p)
  PROVE  PlacedInv' /\ OnceInv'
<1>1. /\ status[c] = "none" /\ status' = [status EXCEPT ![c] = "reserving"]
      /\ plan' = [plan EXCEPT ![c] = p]
      /\ UNCHANGED <<orphaned, recovering, res, fin, refunded>>
  BY DEF Reserve, procVars, ghosts
<1>2. PlacedInv /\ OnceInv /\ ~Placed(c) /\ c \notin orphaned
  BY <1>1 DEF AccountInv, PlacedInv, Placed
<1>3. \A d \in Call : d # c => status'[d] = status[d] /\ plan'[d] = plan[d]
  BY <1>1 DEF AccountInv, DeskIInv, CallPart, CallTypes
<1>4. status'[c] = "reserving"
  BY <1>1 DEF AccountInv, DeskIInv, CallPart, CallTypes
<1>5. PlacedInv'
  <2>1. \A d \in Call : Placed(d) => Placed(d)' BY <1>2, <1>3 DEF Placed
  <2>2. ASSUME NEW d \in Call, d # c
        PROVE  /\ d \in orphaned' => res'[d] = NoRes /\ status'[d] \notin {"none", "reserving"}
               /\ plan'[d] # None => status'[d] # "none"
    BY <1>1, <1>2, <1>3, <2>2 DEF PlacedInv
  <2>3. \A d \in Call : /\ (res'[d] # NoRes => Placed(d)') /\ (d \in refunded' => Placed(d)')
                        /\ \A i \in Instance : fin'[i][d] # Idle \/ d \in recovering'[i] => Placed(d)'
    BY <1>1, <1>2, <2>1 DEF PlacedInv
  <2>4. c \notin orphaned' /\ status'[c] # "none" BY <1>1, <1>2, <1>4
  <2>5. \A d \in Call : PlacedCall(d)'
    <3> TAKE d \in Call
    <3>1. /\ d \in orphaned' => res'[d] = NoRes /\ status'[d] \notin {"none", "reserving"}
          /\ plan'[d] # None => status'[d] # "none"
      BY <2>2, <2>4
    <3> QED BY <2>3, <3>1 DEF PlacedCall
  <2> QED BY <2>5, PlacedEach
<1>6. OnceInv'
  <2>1. ASSUME NEW d \in Call, d # c
        PROVE  /\ CallOnce(res'[d], status'[d], d \in refunded')
               /\ \A i \in Instance :
                    EndOnce(fin'[i][d], i = plan'[d].inst, res'[d], status'[d], d \in refunded')
    BY <1>1, <1>2, <1>3, <2>1 DEF OnceInv, Owner
  <2>2. res'[c] = NoRes /\ c \notin refunded' /\ \A i \in Instance : fin'[i][c] = Idle
    BY <1>1, <1>2, IdleCall
  <2>3. /\ CallOnce(res'[c], status'[c], c \in refunded')
        /\ \A i \in Instance :
             EndOnce(fin'[i][c], i = plan'[c].inst, res'[c], status'[c], c \in refunded')
    <3>1. (c \in refunded') = FALSE BY <2>2
    <3> QED BY <2>2, <3>1, NoResOnce
  <2> QED BY <2>1, <2>3 DEF OnceInv, Owner
<1> QED BY <1>5, <1>6

LEMMA PlaceAccount ==
  ASSUME AccountInv, NEW i \in Instance, Place(i)
  PROVE  PlacedInv' /\ OnceInv'
<1>0. PlacedInv /\ OnceInv /\ PickTypes BY DEF AccountInv, DeskIInv, RestPart
<1>1. ASSUME TickScan(i) \/ TickEnd(i) \/ ManualRefused(i) \/ \E l \in Lead, s \in Sdr : ManualRead(i, l, s)
      PROVE  PlacedInv' /\ OnceInv'
  <2>1. UNCHANGED <<plan, orphaned, status, res, fin, refunded, recovering>>
    BY <1>1 DEF TickScan, TickEnd, ManualRefused, ManualRead, callVars, procVars, ghosts
  <2> QED BY <1>0, <2>1, SameCalls DEF NoMoreFound
<1>2. ASSUME NEW c \in Call, NEW n \in Line, ManualReserve(i, c, n)
      PROVE  PlacedInv' /\ OnceInv'
  <2>1. manual[i] \in [lead : Lead, sdr : Sdr, prev : {"available", "offline"}]
    BY <1>0, <1>2 DEF ManualReserve, PickTypes
  <2> DEFINE p == [inst |-> i, lead |-> manual[i].lead, sdr |-> manual[i].sdr, line |-> n,
                   auto |-> FALSE, prev |-> manual[i].prev]
  <2>2. p \in Plan BY <2>1 DEF Plan
  <2>3. Reserve(c, p) BY <1>2 DEF ManualReserve
  <2> HIDE DEF p
  <2> QED BY <2>2, <2>3, ReserveAccount
<1>3. ASSUME NEW c \in Call, NEW l \in Lead, NEW s \in Sdr, NEW n \in Line, TickDial(i, c, l, s, n)
      PROVE  PlacedInv' /\ OnceInv'
  <2> DEFINE p == [inst |-> i, lead |-> l, sdr |-> s, line |-> n, auto |-> TRUE,
                   prev |-> "available"]
  <2>2. p \in Plan BY DEF Plan
  <2>3. Reserve(c, p) BY <1>3 DEF TickDial
  <2> HIDE DEF p
  <2> QED BY <2>2, <2>3, ReserveAccount
<1> QED BY <1>1, <1>2, <1>3, Zenon DEF Place

LEMMA StartAccount ==
  ASSUME AccountInv, NEW c \in Call, StartCommit(c)
  PROVE  PlacedInv' /\ OnceInv'
<1>1. /\ status[c] = "reserving" /\ status' = [status EXCEPT ![c] = "reserved"]
      /\ res' = [res EXCEPT ![c] = [res[c] EXCEPT !.mem = "due"]]
      /\ UNCHANGED <<plan, orphaned, recovering, fin, refunded>>
  BY DEF StartCommit, procVars, ghosts
<1>2. PlacedInv /\ OnceInv /\ ~Placed(c) /\ plan[c] # None /\ c \notin orphaned
  <2>1. Planned(c) BY <1>1 DEF AccountInv, DeskIInv, CallPart, StatusPlanned
  <2>2. plan[c] # None BY <2>1, NoneApart DEF Planned
  <2> QED BY <1>1, <2>2 DEF AccountInv, PlacedInv, Placed
<1>3. /\ \A d \in Call : d # c => status'[d] = status[d] /\ res'[d] = res[d]
      /\ status'[c] = "reserved" /\ res'[c] = [NoRes EXCEPT !.mem = "due"]
  BY <1>1, <1>2, IdleCall DEF AccountInv, DeskIInv, CallPart, CallTypes, RunPart, ResTypes
<1>4. \A d \in Call : Placed(d) => Placed(d)' BY <1>1, <1>2, <1>3 DEF Placed
<1>5. Placed(c)' BY <1>1, <1>2, <1>3 DEF Placed
<1>6. PlacedInv'
  <2>1. \A d \in Call : /\ (res'[d] # NoRes => Placed(d)') /\ (d \in refunded' => Placed(d)')
                        /\ \A i \in Instance : fin'[i][d] # Idle \/ d \in recovering'[i] => Placed(d)'
    BY <1>1, <1>2, <1>3, <1>4, <1>5 DEF PlacedInv
  <2>2. \A d \in Call : /\ d \in orphaned' => res'[d] = NoRes /\ status'[d] \notin {"none", "reserving"}
                        /\ plan'[d] # None => status'[d] # "none"
    <3> TAKE d \in Call
    <3>1. CASE d = c BY <1>1, <1>2, <1>3, <3>1
    <3>2. CASE d # c BY <1>1, <1>2, <1>3, <3>2 DEF PlacedInv
    <3> QED BY <3>1, <3>2
  <2>3. \A d \in Call : PlacedCall(d)' BY <2>1, <2>2 DEF PlacedCall
  <2> QED BY <2>3, PlacedEach
<1>7. OnceInv'
  <2>1. ASSUME NEW d \in Call, d # c
        PROVE  /\ CallOnce(res'[d], status'[d], d \in refunded')
               /\ \A i \in Instance :
                    EndOnce(fin'[i][d], i = plan'[d].inst, res'[d], status'[d], d \in refunded')
    BY <1>1, <1>2, <1>3, <2>1 DEF OnceInv, Owner
  <2>2. (c \in refunded') = FALSE /\ \A i \in Instance : fin'[i][c] = Idle
    BY <1>1, <1>2, IdleCall
  <2>3. CallOnce(res'[c], status'[c], FALSE) BY <1>3 DEF CallOnce, NoRes, Shut
  <2>4. \A i \in Instance :
          EndOnce(fin'[i][c], i = plan'[c].inst, res'[c], status'[c], c \in refunded')
    BY <2>2, NoResOnce
  <2> QED BY <2>1, <2>2, <2>3, <2>4 DEF OnceInv, Owner
<1> QED BY <1>6, <1>7

LEMMA BeginAccount ==
  ASSUME AccountInv, NEW c \in Call, Begin(c)
  PROVE  PlacedInv' /\ OnceInv'
<1>0. PlacedInv /\ OnceInv BY DEF AccountInv
<1>1. CASE StartCommit(c) BY <1>1, StartAccount
<1>2. CASE OfferLate(c) \/ Lapse(c)
  <2>1. UNCHANGED <<plan, orphaned, status, res, fin, refunded, recovering>>
    BY <1>2 DEF OfferLate, Lapse, procVars, ghosts
  <2> QED BY <1>0, <2>1, SameCalls DEF NoMoreFound
<1>3. CASE StartRefused(c)
  <2>1. /\ status[c] = "reserving" /\ status' = [status EXCEPT ![c] = "refused"]
        /\ UNCHANGED <<plan, orphaned, res, fin, refunded, recovering>>
    BY <1>3 DEF StartRefused, procVars, ghosts
  <2>2. /\ status'[c] = "refused" /\ ~Placed(c)
        /\ \A d \in Call : d # c => status'[d] = status[d]
    BY <2>1 DEF AccountInv, DeskIInv, CallPart, CallTypes, Placed
  <2>3. PlacedInv'
    <3>1. \A d \in Call : Placed(d) => Placed(d)' BY <2>1, <2>2 DEF Placed
    <3> QED BY <1>0, <2>1, <2>2, <3>1 DEF PlacedInv
  <2>4. OnceInv'
    <3>1. ASSUME NEW d \in Call, d # c
          PROVE  /\ CallOnce(res'[d], status'[d], d \in refunded')
                 /\ \A i \in Instance :
                      EndOnce(fin'[i][d], i = plan'[d].inst, res'[d], status'[d], d \in refunded')
      BY <1>0, <2>1, <2>2, <3>1 DEF OnceInv, Owner
    <3>2. res'[c] = NoRes /\ (c \in refunded') = FALSE /\ \A i \in Instance : fin'[i][c] = Idle
      BY <1>0, <2>1, <2>2, IdleCall
    <3>3. /\ CallOnce(res'[c], status'[c], c \in refunded')
          /\ \A i \in Instance :
               EndOnce(fin'[i][c], i = plan'[c].inst, res'[c], status'[c], c \in refunded')
      BY <3>2, NoResOnce
    <3> QED BY <3>1, <3>3 DEF OnceInv, Owner
  <2> QED BY <2>3, <2>4
<1>4. CASE Register(c)
  <2> DEFINE q == [res[c] EXCEPT !.mem = "yes",
                                 !.media = IF plan[c].sdr \in online THEN "resolving" ELSE "none"]
  <2>1. /\ res[c].mem = "due" /\ res' = [res EXCEPT ![c] = q]
        /\ UNCHANGED <<plan, orphaned, status, fin, refunded, recovering>>
    BY <1>4 DEF Register, callVars, procVars, ghosts, AccountInv, DeskIInv, RunPart, ResTypes
  <2>2. res[c] \in Resources BY DEF AccountInv, DeskIInv, RunPart, ResTypes
  <2>3. /\ q \in Resources /\ q.mem = "yes" /\ q.finishing = res[c].finishing
        /\ q.live = res[c].live /\ q.frame = res[c].frame
    BY <2>2 DEF Resources
  <2> HIDE DEF q
  <2>4. res[c] # NoRes BY <2>1 DEF NoRes
  <2>5. Placed(c) /\ Placed(c)' BY <1>0, <2>1, <2>4 DEF PlacedInv, Placed
  <2>6. Carried(res[c], status[c], c \in refunded, q, status[c], c \in refunded)
    <3>1. CallOnce(res[c], status[c], c \in refunded) /\ (c \in refunded) \in BOOLEAN
      BY <1>0 DEF OnceInv
    <3> QED BY <2>1, <2>2, <2>3, <3>1, RegisterOnce
  <2> QED BY <2>1, <2>4, <2>5, <2>6, OneResource DEF NoMoreFound
<1> QED BY <1>1, <1>2, <1>3, <1>4 DEF Begin
-----------------------------------------------------------------------------
\* The socket of a call: whatever runs on there belongs to a call that was placed.
LEMMA TalkFinish ==
  ASSUME AccountInv, Stays, NEW c \in Call, res[c] # NoRes, res[c].mem # "due",
         NEW st \in Terminal, NEW why \in Why, NEW force \in BOOLEAN,
         NEW q \in Resources, Moves(res[c], q),
         why # "other" => \/ res[c].media \in Early /\ q.media \in Shut
                          \/ res[c].media \in Through /\ ~res[c].finishing,
         Finish(Owner(c), c, st, why, force, q)
  PROVE  PlacedInv' /\ OnceInv'
<1>1. Placed(c) BY DEF AccountInv, PlacedInv
<1>2. Owner(c) \in Instance
  BY <1>1 DEF Placed, Owner, AccountInv, DeskIInv, CallPart, CallTypes, Plan
<1>3. UNCHANGED <<plan, status, refunded, orphaned>> /\ NoMoreFound
  BY DEF Stays, callVars, procVars, ghosts, NoMoreFound
<1> QED BY <1>1, <1>2, <1>3, FinishAccount

LEMMA TalkResource ==
  ASSUME AccountInv, Stays, UNCHANGED fin, NEW c \in Call, res[c] # NoRes,
         NEW q \in Resources, res' = [res EXCEPT ![c] = q],
         Carried(res[c], status[c], c \in refunded, q, status[c], c \in refunded)
  PROVE  PlacedInv' /\ OnceInv'
<1>1. Placed(c) BY DEF AccountInv, PlacedInv
<1>2. UNCHANGED <<plan, status, refunded, orphaned, fin>> /\ NoMoreFound
  BY DEF Stays, callVars, procVars, ghosts, NoMoreFound
<1>3. Placed(c)' BY <1>1, <1>2 DEF Placed
<1> QED BY <1>1, <1>2, <1>3, OneResource

\* A frame that has come or is lost.
LEMMA LandAccount ==
  ASSUME AccountInv, NEW c \in Call, FrameLands(c) \/ FrameLost(c)
  PROVE  PlacedInv' /\ OnceInv'
<1> DEFINE r == res[c]
           q == [r EXCEPT !.frame = FALSE]
           again == c \in refunded
<1>1. r \in Resources /\ r.frame BY DEF AccountInv, DeskIInv, RunPart, ResTypes, FrameLands, FrameLost
<1>2. /\ res' = [res EXCEPT ![c] = Kept(q)]
      /\ UNCHANGED <<plan, orphaned, recovering, fin, refunded>>
      /\ \A d \in Call : d # c => status'[d] = status[d]
      /\ status'[c] = status[c] \/ status'[c] = "media_active"
  BY DEF FrameLands, FrameLost, callVars, procVars, AccountInv, DeskIInv, CallPart, CallTypes,
         RunPart, ResTypes
<1>3. /\ q \in Resources /\ ~q.frame /\ q.live = r.live /\ q.ring = r.ring /\ q.mem = r.mem
      /\ q.finishing = r.finishing /\ q.media = r.media
  BY <1>1 DEF Resources
<1>4. CallOnce(r, status[c], again) /\ again \in BOOLEAN BY DEF AccountInv, OnceInv
<1>5. r # NoRes BY <1>1 DEF NoRes
<1>6. Placed(c) /\ Placed(c)' BY <1>2, <1>5 DEF AccountInv, PlacedInv, Placed
<1> DEFINE new == status'[c]
<1> HIDE DEF q, new
<1>7. PICK s2 : s2 = new OBVIOUS
<1>8. Carried(r, status[c], again, q, s2, again) BY <1>1, <1>3, <1>4, LandOnce
<1>9. CallOnce(q, s2, again) BY <1>8 DEF Carried
<1>10. Carried(q, s2, again, Kept(q), s2, again) BY <1>3, <1>4, <1>9, LostOnce
<1>11. Carried(r, status[c], again, Kept(q), s2, again) BY <1>8, <1>10, CarriedOn
<1> QED BY <1>2, <1>5, <1>6, <1>7, <1>11, OneResource DEF new, NoMoreFound

LEMMA TalkAccount == ASSUME AccountInv, NEW c \in Call, Talk(c) PROVE PlacedInv' /\ OnceInv'
<1> DEFINE r == res[c]
           again == c \in refunded
<1>0. r \in Resources BY DEF AccountInv, DeskIInv, RunPart, ResTypes
<1>1. CallOnce(r, status[c], again) /\ again \in BOOLEAN BY DEF AccountInv, OnceInv
<1>2. /\ r.media # "none" => r # NoRes /\ r.mem # "due"
      /\ r.ring => r # NoRes /\ r.mem # "due"
      /\ r.mem = "yes" => r # NoRes /\ r.mem # "due"
  BY <1>1 DEF NoRes, CallOnce
<1>3. CASE Resolved(c)
  <2> DEFINE q == [r EXCEPT !.media = IF r.finishing THEN "none" ELSE "cleared"]
  <2>1. q \in Resources /\ Moves(r, q) /\ r.media # "none"
    BY <1>0, <1>3 DEF Resources, Resolved, Media, Moves, Shut, Early
  <2>2. res' = [res EXCEPT ![c] = Kept(q)] /\ Stays /\ UNCHANGED fin BY <1>3 DEF Resolved
  <2> HIDE DEF q
  <2>3. Carried(r, status[c], again, q, status[c], again) BY <1>0, <1>1, <2>1, MoveOnce
  <2>4. CallOnce(q, status[c], again) BY <2>3 DEF Carried
  <2>5. Carried(q, status[c], again, Kept(q), status[c], again) BY <1>1, <2>1, <2>4, LostOnce
  <2>6. Carried(r, status[c], again, Kept(q), status[c], again) BY <2>3, <2>5, CarriedOn
  <2>7. Kept(q) \in Resources BY <2>1, ResourceKept
  <2> QED BY <1>2, <2>1, <2>2, <2>6, <2>7, TalkResource
<1>4. ASSUME NEW q \in Resources, Moves(r, q), r.media # "none", Stays, UNCHANGED fin,
             res' = [res EXCEPT ![c] = q]
      PROVE  PlacedInv' /\ OnceInv'
  <2>1. Carried(r, status[c], again, q, status[c], again) BY <1>0, <1>1, <1>4, MoveOnce
  <2> QED BY <1>2, <1>4, <2>1, TalkResource
<1>5. CASE OpenMedia(c)
  <2> DEFINE q == [r EXCEPT !.media = "connecting", !.ring = TRUE]
  <2>1. q \in Resources /\ Moves(r, q) /\ r.media # "none"
    BY <1>0, <1>5 DEF Resources, OpenMedia, Media, Moves, Early
  <2>2. res' = [res EXCEPT ![c] = q] /\ Stays /\ UNCHANGED fin
    BY <1>5 DEF OpenMedia, AccountInv, DeskIInv, RunPart, ResTypes
  <2> HIDE DEF q
  <2> QED BY <1>4, <2>1, <2>2
<1>6. CASE SocketOpens(c)
  <2> DEFINE q == [r EXCEPT !.media = "open"]
  <2>1. q \in Resources /\ Moves(r, q) /\ r.media # "none"
    BY <1>0, <1>6 DEF Resources, SocketOpens, Media, Moves, Early, Through
  <2>2. res' = [res EXCEPT ![c] = q] /\ Stays /\ UNCHANGED fin
    BY <1>6 DEF SocketOpens, AccountInv, DeskIInv, RunPart, ResTypes
  <2> HIDE DEF q
  <2> QED BY <1>4, <2>1, <2>2
<1>7. CASE Answered(c)
  <2> DEFINE q == [r EXCEPT !.answered = TRUE]
  <2>1. q \in Resources /\ Moves(r, q) /\ r.media # "none"
    BY <1>0, <1>7 DEF Resources, Answered, Media, Moves
  <2>2. res' = [res EXCEPT ![c] = q] /\ Stays /\ UNCHANGED fin
    BY <1>7 DEF Answered, AccountInv, DeskIInv, RunPart, ResTypes
  <2> HIDE DEF q
  <2> QED BY <1>4, <2>1, <2>2
<1>8. CASE Frame(c)
  <2> DEFINE q == [r EXCEPT !.answered = TRUE, !.live = TRUE, !.ring = FALSE, !.frame = TRUE]
  <2>1. /\ q \in Resources /\ q.live /\ q.mem = r.mem /\ q.finishing = r.finishing
        /\ q.media = r.media /\ r.media # "none" /\ r.media \in Through /\ ~r.live
    BY <1>0, <1>8 DEF Resources, Frame, Media, Through
  <2>2. res' = [res EXCEPT ![c] = q] /\ Stays /\ UNCHANGED fin
    BY <1>8 DEF Frame, AccountInv, DeskIInv, RunPart, ResTypes
  <2> HIDE DEF q
  <2>3. Carried(r, status[c], again, q, status[c], again) BY <1>0, <1>1, <2>1, FrameOnce
  <2> QED BY <1>2, <2>1, <2>2, <2>3, TalkResource
<1>9. CASE FrameLands(c) \/ FrameLost(c) BY <1>9, LandAccount
<1>10. CASE ResolveFails(c)
  <2> DEFINE q == [r EXCEPT !.media = "none"]
             faces == [st : Terminal, why : Why, force : BOOLEAN]
  <2>1. /\ q \in Resources /\ Moves(r, q) /\ q.media \in Shut /\ r.media # "none"
        /\ r.media \in Early
    BY <1>0, <1>10 DEF Resources, ResolveFails, Media, Moves, Shut, Early
  <2>2. PICK f \in {[st |-> "cancelled", why |-> "rate", force |-> FALSE],
                    [st |-> "failed", why |-> "other", force |-> TRUE],
                    [st |-> "failed", why |-> "other", force |-> FALSE]} :
          Finish(Owner(c), c, f.st, f.why, f.force, q)
    BY <1>10, Zenon DEF ResolveFails
  <2>3. /\ [st |-> "cancelled", why |-> "rate", force |-> FALSE] \in faces
        /\ [st |-> "failed", why |-> "other", force |-> TRUE] \in faces
        /\ [st |-> "failed", why |-> "other", force |-> FALSE] \in faces
    BY DEF Terminal, Why
  <2>4. f \in faces BY <2>3, Zenon
  <2>5. f.st \in Terminal /\ f.why \in Why /\ f.force \in BOOLEAN BY <2>4
  <2>6. Stays BY <1>10 DEF ResolveFails
  <2> HIDE DEF q
  <2> QED BY <1>2, <2>1, <2>2, <2>5, <2>6, TalkFinish
<1>11. CASE Stall(c)
  <2>1. /\ r.media # "none" /\ r.media \in Through /\ ~r.finishing /\ Moves(r, r) /\ Stays
        /\ Finish(Owner(c), c, "failed", "stall", FALSE, r)
    BY <1>11 DEF Stall, Media, Through, Moves
  <2>2. "failed" \in Terminal /\ "stall" \in Why BY DEF Terminal, Why
  <2> QED BY <1>0, <1>2, <2>1, <2>2, TalkFinish
<1>12. CASE RingTimeout(c)
  <2> DEFINE q == [r EXCEPT !.ring = FALSE]
  <2>1. /\ q \in Resources /\ Moves(r, q) /\ r.ring /\ Stays
        /\ Finish(Owner(c), c, "no_answer", "other", FALSE, q)
    BY <1>0, <1>12 DEF Resources, RingTimeout, Moves
  <2>2. "no_answer" \in Terminal /\ "other" \in Why BY DEF Terminal, Why
  <2> HIDE DEF q
  <2> QED BY <1>2, <2>1, <2>2, TalkFinish
<1>13. CASE SocketFails(c)
  <2>1. PICK next \in {"closed", "broken"}, why \in {"rate", "other"} :
          /\ Finish(Owner(c), c, IF why = "rate" THEN "cancelled" ELSE "failed", why, FALSE,
                    [r EXCEPT !.media = next])
          /\ why = "rate" => r.media = "connecting"
    BY <1>13 DEF SocketFails, Media
  <2> DEFINE q == [r EXCEPT !.media = next]
             st == IF why = "rate" THEN "cancelled" ELSE "failed"
  <2>2. /\ q \in Resources /\ Moves(r, q) /\ q.media \in Shut /\ r.media # "none" /\ Stays
        /\ why # "other" => r.media \in Early
    BY <1>0, <1>13, <2>1 DEF Resources, SocketFails, Media, Moves, Shut, Early
  <2>3. st \in Terminal /\ why \in Why BY DEF Terminal, Why
  <2>4. Finish(Owner(c), c, st, why, FALSE, q) BY <2>1
  <2> HIDE DEF q, st
  <2> QED BY <1>2, <2>2, <2>3, <2>4, TalkFinish
<1>14. CASE SocketCloses(c)
  <2> DEFINE q == [r EXCEPT !.media = "closed"]
             st == IF r.live THEN "completed" ELSE "no_answer"
  <2>1. /\ q \in Resources /\ Moves(r, q) /\ r.media # "none" /\ Stays
        /\ Finish(Owner(c), c, st, "other", FALSE, q)
    BY <1>0, <1>14 DEF Resources, SocketCloses, Media, Moves, Shut
  <2>2. st \in Terminal /\ "other" \in Why BY DEF Terminal, Why
  <2> HIDE DEF q, st
  <2> QED BY <1>2, <2>1, <2>2, TalkFinish
<1>15. CASE SdrHangsUp(c)
  <2>1. PICK st \in {"completed", "cancelled", "failed"} : Finish(Owner(c), c, st, "other", FALSE, r)
    BY <1>15 DEF SdrHangsUp
  <2>2. st \in Terminal /\ "other" \in Why /\ Moves(r, r) /\ r.mem = "yes" /\ Stays
    BY <1>15 DEF Terminal, Why, Moves, SdrHangsUp
  <2> QED BY <1>0, <1>2, <2>1, <2>2, TalkFinish
<1> QED
  BY <1>3, <1>5, <1>6, <1>7, <1>8, <1>9, <1>10, <1>11, <1>12, <1>13, <1>14, <1>15 DEF Talk
-----------------------------------------------------------------------------
\* The steps of finishCall().  One end of one call moves on: the ends that other processes
\* have under way carry no refund, so only that of the owner has to be looked at.
EndMoved(i, c) ==
  /\ \A d \in Call : d # c => SameCall(d)
  /\ \A j \in Instance : j # i => fin'[j][c] = fin[j][c]
  /\ Placed(c) /\ Placed(c)'
  /\ res[c] = NoRes => res'[c] = NoRes
  /\ CallOnce(res'[c], status'[c], c \in refunded')
  /\ EndOnce(fin'[i][c], i = Owner(c), res'[c], status'[c], c \in refunded')
  /\ i # Owner(c) =>
       Carried(res[c], status[c], c \in refunded, res'[c], status'[c], c \in refunded')

LEMMA OneEnd ==
  ASSUME AccountInv, UNCHANGED <<plan, orphaned>>, NoMoreFound,
         NEW i \in Instance, NEW c \in Call, EndMoved(i, c)
  PROVE  PlacedInv' /\ OnceInv'
<1> DEFINE again == c \in refunded
           anew == c \in refunded'
           u == res'[c]
           new == status'[c]
<1>1. again \in BOOLEAN /\ anew \in BOOLEAN OBVIOUS
<1>2. /\ \A j \in Instance : EndOnce(fin[j][c], j = Owner(c), res[c], status[c], again)
      /\ \A j \in Instance : fin[j][c] \in FinSteps
  BY DEF AccountInv, OnceInv, DeskIInv, RunPart, FinTypes
<1>3. EndOnce(fin'[i][c], i = Owner(c), u, new, anew) /\ CallOnce(u, new, anew)
  BY DEF EndMoved
<1>4. i # Owner(c) => Carried(res[c], status[c], again, u, new, anew) BY DEF EndMoved
<1> HIDE DEF again, anew, u, new
<1>5. \A j \in Instance : EndOnce(fin'[j][c], j = Owner(c), u, new, anew)
  <2> TAKE j \in Instance
  <2>1. CASE j = i BY <1>3, <2>1
  <2>2. CASE j # i /\ j # Owner(c)
    <3>1. (j = Owner(c)) = FALSE BY <2>2
    <3>2. EndOnce(fin[j][c], FALSE, res[c], status[c], again) BY <1>2, <3>1
    <3>3. EndOnce(fin[j][c], FALSE, u, new, anew) BY <3>2, AwayOnce
    <3> QED BY <2>2, <3>1, <3>3 DEF EndMoved
  <2>3. CASE j # i /\ j = Owner(c)
    <3>1. (j = Owner(c)) = TRUE BY <2>3
    <3>2. EndOnce(fin[j][c], TRUE, res[c], status[c], again) BY <1>2, <3>1
    <3>3. EndOnce(fin[j][c], TRUE, u, new, anew) BY <1>2, <1>4, <2>3, <3>2 DEF Carried
    <3> QED BY <2>3, <3>1, <3>3 DEF EndMoved
  <2> QED BY <2>1, <2>2, <2>3
<1>6. OnceAt(c)'
  <2>1. \A j \in Instance : EndOnce(fin'[j][c], j = Owner(c), res'[c], status'[c], c \in refunded')
    BY <1>5 DEF u, new, anew
  <2>2. CallOnce(res'[c], status'[c], c \in refunded') BY <1>3 DEF u, new, anew
  <2> QED BY <2>1, <2>2 DEF OnceAt, Owner
<1>7. GoodCall(c) BY <1>6 DEF GoodCall, EndMoved
<1>8. \A d \in Call : SameCall(d) \/ GoodCall(d) BY <1>7 DEF EndMoved
<1> QED BY <1>8, CallsKeep DEF AccountInv

\* The finally block: the end is over, and the owner takes a call that is still in the map
\* out of it, which was marked or has ended.
LEMMA ForgetAccount ==
  ASSUME AccountInv, UNCHANGED <<plan, orphaned>>, NoMoreFound,
         NEW i \in Instance, NEW c \in Call, Placed(c), Placed(c)', Forget(i, c),
         \A d \in Call : d # c => status'[d] = status[d] /\ (d \in refunded' <=> d \in refunded),
         CallOnce(res[c], status'[c], c \in refunded'),
         i # Owner(c) =>
           Carried(res[c], status[c], c \in refunded, res[c], status'[c], c \in refunded'),
         i = Owner(c) /\ res[c].mem = "yes" => res[c].finishing \/ status'[c] \in Terminal
  PROVE  PlacedInv' /\ OnceInv'
<1> DEFINE r == res[c]
           q == [r EXCEPT !.mem = "no"]
           u == IF i = Owner(c) /\ r.mem = "yes" THEN Kept(q) ELSE r
           new == status'[c]
           anew == c \in refunded'
<1>1. r \in Resources BY DEF AccountInv, DeskIInv, RunPart, ResTypes
<1>2. /\ fin'[i][c] = Idle /\ res'[c] = u
      /\ \A d \in Call : d # c => res'[d] = res[d]
      /\ \A j \in Instance : j # i => fin'[j][c] = fin[j][c]
      /\ \A j \in Instance, d \in Call : d # c => fin'[j][d] = fin[j][d]
  BY DEF Forget, AccountInv, DeskIInv, RunPart, ResTypes, FinTypes
<1>3. \A d \in Call : d # c => SameCall(d) BY <1>2 DEF SameCall
<1>4. CallOnce(r, new, anew) /\ anew \in BOOLEAN OBVIOUS
<1>5. i = Owner(c) /\ r.mem = "yes" => r.finishing \/ new \in Terminal OBVIOUS
<1> HIDE DEF new, anew
<1>6. (r = NoRes => u = NoRes) /\ CallOnce(u, new, anew)
  <2>1. CASE i = Owner(c) /\ r.mem = "yes"
    <3>2. /\ q \in Resources /\ q.mem = "no" /\ q.finishing = r.finishing /\ q.live = r.live
          /\ q.frame = r.frame /\ q.media = r.media
      BY <1>1 DEF Resources
    <3>3. r # NoRes /\ u = Kept(q) BY <2>1 DEF NoRes
    <3> HIDE DEF q, u, r
    <3>4. CallOnce(q, new, anew) BY <1>1, <1>4, <1>5, <2>1, <3>2, LeaveOnce
    <3>5. CallOnce(Kept(q), new, anew) BY <1>4, <3>2, <3>4, LostOnce DEF Carried
    <3> QED BY <3>3, <3>5
  <2>2. CASE ~(i = Owner(c) /\ r.mem = "yes") BY <1>4, <2>2
  <2> QED BY <2>1, <2>2
<1>7. i # Owner(c) => u = r OBVIOUS
<1>8. \A own, w : EndOnce(Idle, own, w, new, anew) BY DEF EndOnce
<1>9. EndOnce(fin'[i][c], i = Owner(c), res'[c], status'[c], c \in refunded')
  BY <1>2, <1>8 DEF new, anew
<1>10. CallOnce(res'[c], status'[c], c \in refunded') BY <1>2, <1>6 DEF new, anew
<1> HIDE DEF u
<1>11. EndMoved(i, c) BY <1>2, <1>3, <1>6, <1>7, <1>9, <1>10 DEF EndMoved
<1> QED BY <1>11, OneEnd

\* What the SELECT of an end makes of it.
LEMMA ReadOnce ==
  ASSUME NEW r \in Resources, NEW st, NEW again \in BOOLEAN, CallOnce(r, st, again),
         st \notin Terminal, NEW f \in ReadStep, NEW own \in BOOLEAN, EndOnce(f, own, r, st, again),
         NEW v \in CommitStep, v.own = f.own, v.why = f.why, v.refund <=> f.why # "other",
         f.why # "other" \/ f.force => v.final \in Terminal
  PROVE  EndOnce(v, own, r, st, again)
<1>1. f.pc = "read" /\ v.pc = "commit" BY DEF ReadStep, CommitStep
<1>2. f # Idle BY <1>1 DEF Idle
<1> QED BY <1>1, <1>2 DEF EndOnce, Transient, CallOnce, NoMore, Settled, Shut, Through, Resources,
                          ReadStep

LEMMA FinReadAccount ==
  ASSUME AccountInv, NEW i \in Instance, NEW c \in Call, FinRead(i, c)
  PROVE  PlacedInv' /\ OnceInv'
<1> DEFINE f == fin[i][c]
           r == res[c]
           again == c \in refunded
           own == i = Owner(c)
<1>1. UNCHANGED <<plan, orphaned, status, refunded, recovering>>
  BY DEF FinRead, callVars, procVars, ghosts
<1>2. f \in ReadStep
  <2>1. f \in FinSteps /\ f.pc = "read" BY DEF FinRead, AccountInv, DeskIInv, RunPart, FinTypes
  <2> HIDE DEF f
  <2> QED BY <2>1, StepByName
<1>3. f # Idle BY <1>2 DEF ReadStep, Idle
<1>4. Placed(c) /\ Placed(c)' BY <1>1, <1>3 DEF AccountInv, PlacedInv, Placed
<1>5. CallOnce(r, status[c], again) /\ EndOnce(f, own, r, status[c], again) /\ again \in BOOLEAN
      /\ own \in BOOLEAN
  BY DEF AccountInv, OnceInv
<1>6. r \in Resources BY DEF AccountInv, DeskIInv, RunPart, ResTypes
<1>7. NoMoreFound BY <1>1 DEF NoMoreFound
<1>8. CASE status[c] \in Terminal
  <2>1. Forget(i, c) BY <1>8 DEF FinRead
  <2>2. Carried(r, status[c], again, r, status[c], again) BY <1>5 DEF Carried
  <2>3. CallOnce(res[c], status'[c], c \in refunded') BY <1>1, <1>5
  <2>4. Carried(res[c], status[c], c \in refunded, res[c], status'[c], c \in refunded')
    BY <1>1, <2>2
  <2> QED BY <1>1, <1>4, <1>7, <1>8, <2>1, <2>3, <2>4, ForgetAccount
<1>9. CASE status[c] \notin Terminal
  <2> DEFINE o == Outcome(f, c)
             v == [pc |-> "commit", final |-> o.final, lead |-> o.lead, refund |-> o.refund,
                   why |-> f.why, wrapup |-> c \in connected /\ f.why # "stall",
                   restore |-> IF f.own THEN plan[c].prev
                               ELSE IF plan[c].auto THEN "available" ELSE "offline",
                   own |-> f.own]
  <2>1. fin' = [fin EXCEPT ![i][c] = v] /\ UNCHANGED res BY <1>9, Zenon DEF FinRead
  <2>2. v.own = f.own /\ v.why = f.why /\ v.refund = o.refund /\ v.final = o.final OBVIOUS
  <2>3. o.refund <=> f.why # "other" BY <1>2 DEF Outcome, ReadStep, Why
  <2>4. f.why # "other" \/ f.force => o.final \in Terminal
    BY <1>2 DEF Outcome, ReadStep, Why, Terminal
  <2>5. o.final \in Terminal \cup {"retry_wait"} /\ o.lead \in Terminal \cup {"queued", "retry_wait"}
    BY <1>2 DEF Outcome, Terminal, ReadStep
  <2>6. o.refund \in BOOLEAN /\ (c \in connected /\ f.why # "stall") \in BOOLEAN BY DEF Outcome
  <2>7. (IF f.own THEN plan[c].prev ELSE IF plan[c].auto THEN "available" ELSE "offline")
          \in {"available", "offline"}
    BY <1>4 DEF Placed, AccountInv, DeskIInv, CallPart, CallTypes, Plan
  <2>8. f.why \in Why /\ f.own \in BOOLEAN BY <1>2 DEF ReadStep
  <2> HIDE DEF f, o, r, own, again
  <2>9. v \in CommitStep BY <2>5, <2>6, <2>7, <2>8 DEF CommitStep
  <2> HIDE DEF v
  <2>10. EndOnce(v, own, r, status[c], again)
    BY <1>2, <1>5, <1>6, <1>9, <2>2, <2>3, <2>4, <2>9, ReadOnce
  <2>11. /\ fin'[i][c] = v /\ \A d \in Call : res'[d] = res[d]
         /\ \A j \in Instance : j # i => fin'[j][c] = fin[j][c]
         /\ \A j \in Instance, d \in Call : d # c => fin'[j][d] = fin[j][d]
    BY <2>1 DEF AccountInv, DeskIInv, RunPart, FinTypes
  <2>12. \A d \in Call : d # c => SameCall(d) BY <1>1, <2>11 DEF SameCall
  <2>13. EndOnce(fin'[i][c], i = Owner(c), res'[c], status'[c], c \in refunded')
    BY <1>1, <2>10, <2>11 DEF own, r, again
  <2>14. CallOnce(res'[c], status'[c], c \in refunded') BY <1>1, <1>5, <2>11 DEF r, again
  <2>15. Carried(res[c], status[c], c \in refunded, res'[c], status'[c], c \in refunded')
    BY <1>1, <2>11, <2>14 DEF Carried
  <2>16. EndMoved(i, c) BY <1>4, <2>11, <2>12, <2>13, <2>14, <2>15 DEF EndMoved
  <2> QED BY <1>1, <1>7, <2>16, OneEnd
<1> QED BY <1>8, <1>9
\* The transaction ends the row, once; what it refunds is not under way again.
LEMMA CommitOnce ==
  ASSUME NEW r \in Resources, NEW st, NEW again \in BOOLEAN, CallOnce(r, st, again),
         NEW f \in CommitStep, NEW own \in BOOLEAN, EndOnce(f, own, r, st, again),
         NEW new, IF st \in Terminal THEN new = st ELSE new = f.final,
         NEW anew \in BOOLEAN, anew => again \/ f.why # "other"
  PROVE  /\ CallOnce(r, new, anew)
         /\ own /\ r.mem = "yes" /\ ~f.own => r.finishing \/ new \in Terminal
         /\ own /\ f.own => r.mem # "due" /\ (r.mem = "yes" => r.finishing)
         /\ ~own => ~f.own /\ f.why = "other"
<1>1. f.pc = "commit" /\ f # Idle /\ f.final \in Terminal \cup {"retry_wait"}
  BY DEF CommitStep, Idle
<1>2. CallOnce(r, new, anew)
  BY <1>1 DEF EndOnce, Transient, CallOnce, NoMore, Settled, Resources
<1> QED BY <1>1, <1>2 DEF EndOnce, Transient

LEMMA FinCommitAccount ==
  ASSUME AccountInv, NEW i \in Instance, NEW c \in Call, FinCommit(i, c)
  PROVE  PlacedInv' /\ OnceInv'
<1> DEFINE f == fin[i][c]
           r == res[c]
           st == status[c]
           new == status'[c]
           again == c \in refunded
           anew == c \in refunded'
           own == i = Owner(c)
<1>1. /\ UNCHANGED <<plan, orphaned, recovering>>
      /\ status' = [status EXCEPT ![c] = IF @ \in Terminal THEN @ ELSE f.final]
      /\ refunded' = IF plan[c].auto /\ f.why # "other" THEN refunded \cup {c} ELSE refunded
      /\ f.pc = "commit"
  BY DEF FinCommit, procVars
<1>2. f \in CommitStep
  <2>1. f \in FinSteps /\ f.pc = "commit" BY <1>1 DEF AccountInv, DeskIInv, RunPart, FinTypes
  <2> HIDE DEF f
  <2>2. f.pc = "commit" => f \in CommitStep BY <2>1, StepByName
  <2> QED BY <2>1, <2>2
<1>3. f # Idle BY <1>2 DEF CommitStep, Idle
<1>4. NoMoreFound BY <1>1 DEF NoMoreFound
<1>5. /\ IF st \in Terminal THEN new = st ELSE new = f.final
      /\ \A d \in Call : d # c => status'[d] = status[d] /\ (d \in refunded' <=> d \in refunded)
      /\ anew => again \/ f.why # "other"
      /\ again => anew
      /\ f.why = "other" => (anew <=> again)
      /\ anew \in BOOLEAN /\ again \in BOOLEAN /\ own \in BOOLEAN
  BY <1>1 DEF AccountInv, DeskIInv, CallPart, CallTypes
<1>6. Placed(c) BY <1>3 DEF AccountInv, PlacedInv
<1>7. Placed(c)'
  <2>1. f.final \in Terminal \cup {"retry_wait"} BY <1>2 DEF CommitStep
  <2> HIDE DEF f
  <2> QED BY <1>1, <1>5, <1>6, <2>1 DEF Placed, Terminal
<1>8. r \in Resources BY DEF AccountInv, DeskIInv, RunPart, ResTypes
<1>9. CallOnce(r, st, again) /\ EndOnce(f, own, r, st, again) BY DEF AccountInv, OnceInv
<1>10. f.own => fin' = [fin EXCEPT ![i][c] = [pc |-> "release", own |-> TRUE]] /\ UNCHANGED res
  BY DEF FinCommit
<1>11. ~f.own => Forget(i, c) BY DEF FinCommit
<1> HIDE DEF f, r, st, new, again, anew, own
<1>12. /\ CallOnce(r, new, anew)
       /\ own /\ r.mem = "yes" /\ ~f.own => r.finishing \/ new \in Terminal
       /\ own /\ f.own => r.mem # "due" /\ (r.mem = "yes" => r.finishing)
       /\ ~own => ~f.own /\ f.why = "other"
  BY <1>2, <1>5, <1>8, <1>9, CommitOnce
<1>13. ~own => Carried(r, st, again, r, new, anew)
  <2> SUFFICES ASSUME ~own PROVE Carried(r, st, again, r, new, anew)
    OBVIOUS
  <2>1. anew = again BY <1>5, <1>12
  <2>2. st \in Terminal => new = st BY <1>5
  <2> QED BY <1>5, <1>8, <1>9, <2>1, <2>2, StatusOnce
<1>14. CASE ~f.own
  <2>1. CallOnce(res[c], status'[c], c \in refunded') BY <1>12 DEF r, new, anew
  <2>2. i # Owner(c) =>
          Carried(res[c], status[c], c \in refunded, res[c], status'[c], c \in refunded')
    BY <1>13 DEF r, new, anew, st, again, own
  <2>3. i = Owner(c) /\ res[c].mem = "yes" => res[c].finishing \/ status'[c] \in Terminal
    BY <1>12, <1>14 DEF own, r, new
  <2>4. Forget(i, c) BY <1>11, <1>14
  <2> QED BY <1>1, <1>4, <1>5, <1>6, <1>7, <2>1, <2>2, <2>3, <2>4, ForgetAccount
<1>15. CASE f.own
  <2> DEFINE g == [pc |-> "release", own |-> TRUE]
  <2>1. /\ fin'[i][c] = g /\ \A d \in Call : res'[d] = res[d]
        /\ \A j \in Instance : j # i => fin'[j][c] = fin[j][c]
        /\ \A j \in Instance, d \in Call : d # c => fin'[j][d] = fin[j][d]
    BY <1>10, <1>15 DEF AccountInv, DeskIInv, RunPart, FinTypes
  <2>2. \A d \in Call : d # c => SameCall(d) BY <1>5, <2>1 DEF SameCall
  <2>3. own BY <1>12, <1>15
  <2>4. g.pc = "release" /\ g.own = TRUE OBVIOUS
  <2> HIDE DEF g
  <2>5. EndOnce(g, own, r, new, anew) BY <1>12, <1>15, <2>3, <2>4 DEF EndOnce, Transient
  <2>6. EndOnce(fin'[i][c], i = Owner(c), res'[c], status'[c], c \in refunded')
    BY <2>1, <2>5 DEF own, r, new, anew
  <2>7. CallOnce(res'[c], status'[c], c \in refunded') BY <1>12, <2>1 DEF r, new, anew
  <2>8. EndMoved(i, c) BY <1>6, <1>7, <2>1, <2>2, <2>3, <2>6, <2>7 DEF EndMoved, own
  <2> QED BY <1>1, <1>4, <2>8, OneEnd
<1> QED BY <1>14, <1>15

\* An end that releases is one that marked the call, and so is one that fails.
LEMMA FinLastAccount ==
  ASSUME AccountInv, NEW i \in Instance, NEW c \in Call,
         FinRelease(i, c) \/ (FinFails(i, c) /\ BlindEndsSucceed)
  PROVE  PlacedInv' /\ OnceInv'
<1>1. UNCHANGED <<plan, orphaned, status, refunded, recovering>> /\ Forget(i, c) /\ fin[i][c] # Idle
  BY DEF FinRelease, FinFails, callVars, procVars, ghosts, Idle
<1>2. Placed(c) /\ Placed(c)' BY <1>1 DEF AccountInv, PlacedInv, Placed
<1>3. CallOnce(res[c], status[c], c \in refunded) BY DEF AccountInv, OnceInv
<1>4. CallOnce(res[c], status'[c], c \in refunded') BY <1>1, <1>3
<1>5. Carried(res[c], status[c], c \in refunded, res[c], status'[c], c \in refunded')
  BY <1>1, <1>3 DEF Carried
<1>6. ASSUME i = Owner(c), res[c].mem = "yes" PROVE res[c].finishing
  <2>1. CASE FinRelease(i, c)
    <3> DEFINE f == fin[i][c]
    <3>1. f \in FinSteps /\ f.pc = "release" BY <2>1 DEF FinRelease, AccountInv, DeskIInv, RunPart, FinTypes
    <3> HIDE DEF f
    <3>2. f.own = TRUE
      <4>1. Idle.pc = "idle" BY DEF Idle
      <4>2. f \in ReadStep => f.pc = "read" BY DEF ReadStep
      <4>3. f \in CommitStep => f.pc = "commit" BY DEF CommitStep
      <4>4. f \in ReleaseStep BY <3>1, <4>1, <4>2, <4>3 DEF FinSteps
      <4> QED BY <4>4 DEF ReleaseStep
    <3>3. EndOnce(fin[i][c], i = Owner(c), res[c], status[c], c \in refunded)
      BY DEF AccountInv, OnceInv
    <3> QED BY <1>1, <1>6, <3>2, <3>3 DEF EndOnce, f
  <2>2. CASE FinFails(i, c) /\ BlindEndsSucceed
    <3>1. plan[c] # None BY <1>2 DEF Placed
    <3> QED BY <1>6, <2>2, <3>1 DEF BlindEndsSucceed, BlindEnd
  <2> QED BY <2>1, <2>2
<1>7. NoMoreFound BY <1>1 DEF NoMoreFound
<1> QED BY <1>1, <1>2, <1>4, <1>5, <1>6, <1>7, ForgetAccount

LEMMA EndAccount ==
  ASSUME AccountInv, BlindEndsSucceed, NEW i \in Instance, NEW c \in Call, End(i, c)
  PROVE  PlacedInv' /\ OnceInv'
<1>0. res[c] \in Resources /\ Moves(res[c], res[c])
  BY DEF AccountInv, DeskIInv, RunPart, ResTypes, Moves
<1>1. CASE FinRead(i, c) BY <1>1, FinReadAccount
<1>2. CASE FinCommit(i, c) BY <1>2, FinCommitAccount
<1>3. CASE FinRelease(i, c) \/ FinFails(i, c) BY <1>3, FinLastAccount
<1>4. CASE Expire(i, c) \/ AdminFinish(i, c)
  <2>1. PICK st \in Terminal : Finish(i, c, st, "other", TRUE, res[c])
    BY <1>4 DEF Expire, AdminFinish, Terminal
  <2>2. UNCHANGED <<plan, orphaned, status, refunded, recovering>>
    BY <1>4 DEF Expire, AdminFinish, Stays, callVars, procVars, ghosts
  <2>3. status[c] \notin {"none", "reserving", "refused"}
    BY <1>4 DEF Expire, AdminFinish, Active
  <2>4. Planned(c) BY <2>3 DEF AccountInv, DeskIInv, CallPart, StatusPlanned
  <2>5. Placed(c) BY <2>3, <2>4, NoneApart DEF Placed, Planned
  <2>6. NoMoreFound /\ "other" \in Why BY <2>2 DEF NoMoreFound, Why
  <2> QED BY <1>0, <2>1, <2>2, <2>5, <2>6, FinishAccount
<1>5. CASE Recover(i, c)
  <2>1. /\ UNCHANGED <<plan, orphaned, status, refunded>> /\ c \in recovering[i]
        /\ recovering' = [recovering EXCEPT ![i] = @ \ {c}]
        /\ \/ UNCHANGED <<res, fin>>
           \/ c \in orphaned /\ Finish(i, c, "failed", "other", FALSE, res[c])
    BY <1>5 DEF Recover, callVars, ghosts
  <2>2. NoMoreFound BY <2>1 DEF NoMoreFound, AccountInv, DeskIInv, RestPart, ProcTypes
  <2>3. CASE UNCHANGED <<res, fin>>
    <3>1. \A d \in Call : SameCall(d) BY <2>1, <2>3 DEF SameCall
    <3> QED BY <2>1, <2>2, <3>1, CallsKeep DEF AccountInv
  <2>4. CASE c \in orphaned /\ Finish(i, c, "failed", "other", FALSE, res[c])
    <3>1. Placed(c) /\ res[c].mem # "due" BY <2>1, <2>4 DEF AccountInv, PlacedInv, NoRes
    <3>2. "failed" \in Terminal /\ "other" \in Why BY DEF Terminal, Why
    <3> QED BY <1>0, <2>1, <2>2, <2>4, <3>1, <3>2, FinishAccount
  <2> QED BY <2>1, <2>3, <2>4
<1> QED BY <1>1, <1>2, <1>3, <1>4, <1>5 DEF End
-----------------------------------------------------------------------------
\* At the desk: an admin frees the SDR, or the control socket closes.
LEMMA AskFreeAccount ==
  ASSUME AccountInv, NEW s \in Sdr, NEW i \in Instance, AskFree(i, s)
  PROVE  PlacedInv' /\ OnceInv'
<1>1. UNCHANGED <<plan, orphaned, status, refunded, recovering>>
  BY DEF AskFree, callVars, procVars, ghosts
<1>2. NoMoreFound BY <1>1 DEF NoMoreFound
<1>3. CASE UNCHANGED <<res, fin>>
  BY <1>1, <1>2, <1>3, SameCalls DEF AccountInv
<1>4. CASE \E c \in CallsOf(s) : Busy(c) /\ Finish(i, c, "failed", "other", TRUE, res[c])
  <2>1. PICK c \in Call : /\ plan[c] # None /\ Busy(c)
                          /\ Finish(i, c, "failed", "other", TRUE, res[c])
    BY <1>4 DEF CallsOf
  <2>2. Placed(c) BY <2>1 DEF Placed, Busy, Active
  <2>3. res[c] \in Resources /\ Moves(res[c], res[c])
    BY DEF AccountInv, DeskIInv, RunPart, ResTypes, Moves
  <2>4. "failed" \in Terminal /\ "other" \in Why BY DEF Terminal, Why
  <2> QED BY <1>1, <1>2, <2>1, <2>2, <2>3, <2>4, FinishAccount
<1> QED BY <1>3, <1>4 DEF AskFree

LEMMA DisconnectAccount ==
  ASSUME AccountInv, NEW s \in Sdr, Disconnect(s)
  PROVE  PlacedInv' /\ OnceInv'
<1> DEFINE i == Station[s]
           watched == {c \in InMemory(s) : /\ Media(c) \notin {"none", "resolving", "cleared"}
                                           /\ ~res[c].finishing}
           end(c) == IF res[c].live THEN "failed" ELSE "cancelled"
<1>1. UNCHANGED <<plan, orphaned, status, refunded, recovering>>
  BY DEF Disconnect, callVars, procVars, ghosts
<1>2. i \in Instance BY StationKnown
<1>3. /\ \A c \in Call : fin'[i][c] = IF c \in watched /\ fin[i][c] = Idle
                                      THEN Begun(i, c, end(c), "other", FALSE, res[c]) ELSE fin[i][c]
      /\ \A j \in Instance, c \in Call : j # i => fin'[j][c] = fin[j][c]
      /\ \A c \in Call : res'[c] = IF c \in watched THEN Taken(i, c, res[c]) ELSE res[c]
  BY <1>2 DEF Disconnect, AccountInv, DeskIInv, RunPart, FinTypes
<1>4. watched \subseteq Call /\ \A c \in watched : plan[c] # None /\ res[c].mem = "yes"
  BY DEF InMemory, CallsOf
<1> HIDE DEF i, watched
<1>5. ASSUME NEW c \in Call, c \notin watched PROVE SameCall(c)
  BY <1>1, <1>3, <1>5 DEF SameCall
<1>6. ASSUME NEW c \in Call, c \in watched PROVE GoodCall(c)
  <2>1. res[c] # NoRes /\ res[c].mem # "due" BY <1>4, <1>6 DEF NoRes
  <2>2. Placed(c) BY <2>1 DEF AccountInv, PlacedInv
  <2>3. res[c] \in Resources /\ Moves(res[c], res[c])
    BY DEF AccountInv, DeskIInv, RunPart, ResTypes, Moves
  <2>4. end(c) \in Terminal /\ "other" \in Why BY DEF Terminal, Why
  <2> DEFINE st == end(c)
             q == res[c]
  <2>5. /\ fin'[i][c] = IF fin[i][c] = Idle THEN Begun(i, c, st, "other", FALSE, q) ELSE fin[i][c]
        /\ \A j \in Instance : j # i => fin'[j][c] = fin[j][c]
        /\ res'[c] = Taken(i, c, q)
    BY <1>3, <1>6
  <2> HIDE DEF st, end
  <2> QED BY <1>1, <1>2, <2>1, <2>2, <2>3, <2>4, <2>5, FinishOne DEF st
<1>7. NoMoreFound BY <1>1 DEF NoMoreFound
<1> QED BY <1>1, <1>5, <1>6, <1>7, CallsKeep DEF AccountInv

LEMMA LeaveCallAccount ==
  ASSUME AccountInv, NEW s \in Sdr, NEW c \in Call, LeaveCall(s, c)
  PROVE  PlacedInv' /\ OnceInv'
<1>1. /\ UNCHANGED <<plan, orphaned, status, refunded, recovering>>
      /\ c \in InMemory(s) /\ Finish(Station[s], c, "failed", "other", FALSE, res[c])
  BY DEF LeaveCall, callVars, procVars, ghosts
<1>2. Station[s] \in Instance BY StationKnown
<1>3. res[c] # NoRes /\ res[c].mem # "due" BY <1>1 DEF InMemory, NoRes
<1>4. Placed(c) BY <1>3 DEF AccountInv, PlacedInv
<1>5. res[c] \in Resources /\ Moves(res[c], res[c])
  BY DEF AccountInv, DeskIInv, RunPart, ResTypes, Moves
<1>6. "failed" \in Terminal /\ "other" \in Why BY DEF Terminal, Why
<1>7. NoMoreFound BY <1>1 DEF NoMoreFound
<1> QED BY <1>1, <1>2, <1>3, <1>4, <1>5, <1>6, <1>7, FinishAccount

LEMMA DeskAccount ==
  ASSUME AccountInv, NEW s \in Sdr, Desk(s)
  PROVE  PlacedInv' /\ OnceInv'
<1>1. CASE \E i \in Instance : AskFree(i, s) BY <1>1, AskFreeAccount
<1>2. CASE Disconnect(s) BY <1>2, DisconnectAccount
<1>3. CASE \E c \in Call : LeaveCall(s, c) BY <1>3, LeaveCallAccount
<1>4. ASSUME UNCHANGED <<callVars, procVars, res, fin, ghosts>> PROVE PlacedInv' /\ OnceInv'
  <2>1. UNCHANGED <<plan, orphaned, status, res, fin, refunded>> /\ NoMoreFound
    BY <1>4 DEF callVars, procVars, ghosts, NoMoreFound
  <2> QED BY <2>1, SameCalls DEF AccountInv
<1>5. CASE AskAvailable(s) \/ SetAvailable(s) \/ SetOffline(s) \/ WrapUp(s) \/ Free(s)
           \/ LeaveUpdate(s) \/ LeaveNext(s) \/ LeaveDone(s) \/ Connect(s)
  BY <1>4, <1>5 DEF AskAvailable, SetAvailable, SetOffline, WrapUp, Free, LeaveUpdate, LeaveNext,
                    LeaveDone, Connect
<1>6. CASE \E p \in DOMAIN pauses, stay \in BOOLEAN : AskWrapUp(s, p, stay)
  BY <1>4, <1>6 DEF AskWrapUp
<1> QED BY <1>1, <1>2, <1>3, <1>5, <1>6 DEF Desk
-----------------------------------------------------------------------------
\* A crash takes the calls of one process with it, and every end it had under way.
LEMMA CrashAccount ==
  ASSUME AccountInv, NEW i \in Instance, Crash(i)
  PROVE  PlacedInv' /\ OnceInv'
<1>1. /\ UNCHANGED <<plan, refunded>> /\ orphaned' = orphaned \cup Owned(i)
      /\ res' = [c \in Call |-> IF c \in Owned(i) THEN NoRes ELSE res[c]]
      /\ status' = [c \in Call |-> IF c \in Owned(i) /\ status[c] = "reserving" THEN "refused"
                                   ELSE status[c]]
      /\ fin' = [fin EXCEPT ![i] = [c \in Call |-> Idle]]
      /\ recovering' = [recovering EXCEPT ![i] = {}]
  BY DEF Crash, ghosts
<1>2. /\ \A c \in Call : fin'[i][c] = Idle
      /\ \A j \in Instance, c \in Call : j # i => fin'[j][c] = fin[j][c]
      /\ \A j \in Instance : recovering'[j] \subseteq recovering[j]
  BY <1>1 DEF AccountInv, DeskIInv, RunPart, FinTypes, RestPart, ProcTypes
<1>3. PlacedInv /\ OnceInv BY DEF AccountInv
<1>4. \A c \in Call : Placed(c) <=> Placed(c)' BY <1>1 DEF Placed
<1>5. ASSUME NEW c \in Call PROVE PlacedCall(c)'
  <2>1. (res'[c] # NoRes => Placed(c)') /\ (c \in refunded' => Placed(c)')
    BY <1>1, <1>3, <1>4 DEF PlacedInv
  <2>2. \A j \in Instance : fin'[j][c] # Idle \/ c \in recovering'[j] => Placed(c)'
    BY <1>2, <1>3, <1>4 DEF PlacedInv
  <2>3. (c \in orphaned' => res'[c] = NoRes /\ status'[c] \notin {"none", "reserving"})
        /\ (plan'[c] # None => status'[c] # "none")
    BY <1>1, <1>3 DEF PlacedInv, Owned
  <2> QED BY <2>1, <2>2, <2>3 DEF PlacedCall
<1>6. ASSUME NEW c \in Call
      PROVE  /\ CallOnce(res'[c], status'[c], c \in refunded')
             /\ \A j \in Instance :
                  EndOnce(fin'[j][c], j = Owner(c), res'[c], status'[c], c \in refunded')
  <2> DEFINE again == c \in refunded
             anew == c \in refunded'
             u == res'[c]
             new == status'[c]
  <2>0. again \in BOOLEAN /\ anew = again BY <1>1
  <2>1. CallOnce(res[c], status[c], again) BY <1>3 DEF OnceInv
  <2>2. \A j \in Instance : EndOnce(fin[j][c], j = Owner(c), res[c], status[c], again)
    BY <1>3 DEF OnceInv
  <2>3. CASE c \in Owned(i)
    <3>1. u = NoRes /\ Owner(c) = i BY <1>1, <2>3 DEF Owned
    <3> HIDE DEF again, anew, u, new
    <3>2. CallOnce(u, new, anew) BY <3>1 DEF CallOnce, NoRes, NoMore, Shut
    <3>3. ASSUME NEW j \in Instance PROVE EndOnce(fin'[j][c], j = Owner(c), u, new, anew)
      <4>1. CASE j = i BY <1>2, <4>1, NoResOnce
      <4>2. CASE j # i
        <5>1. (j = Owner(c)) = FALSE BY <3>1, <4>2
        <5>2. EndOnce(fin[j][c], FALSE, res[c], status[c], again) BY <2>2, <5>1
        <5>3. EndOnce(fin[j][c], FALSE, u, new, anew) BY <5>2, AwayOnce
        <5> QED BY <1>2, <4>2, <5>1, <5>3
      <4> QED BY <4>1, <4>2
    <3> QED BY <3>2, <3>3 DEF u, new, anew
  <2>4. CASE c \notin Owned(i)
    <3>1. res'[c] = res[c] /\ status'[c] = status[c] BY <1>1, <2>4
    <3>2. CallOnce(u, new, anew) BY <2>0, <2>1, <3>1
    <3>3. ASSUME NEW j \in Instance PROVE EndOnce(fin'[j][c], j = Owner(c), u, new, anew)
      <4>1. EndOnce(fin[j][c], j = Owner(c), u, new, anew) BY <2>0, <2>2, <3>1
      <4> HIDE DEF again, anew, u, new
      <4>2. CASE j = i BY <1>2, <4>2, NoResOnce
      <4>3. CASE j # i BY <1>2, <4>1, <4>3
      <4> QED BY <4>2, <4>3
    <3> QED BY <3>2, <3>3
  <2> QED BY <2>3, <2>4
<1>7. OnceInv' BY <1>1, <1>6 DEF OnceInv, Owner
<1> QED BY <1>5, <1>7, PlacedEach

LEMMA ProcessAccount ==
  ASSUME AccountInv, NEW i \in Instance, Process(i)
  PROVE  PlacedInv' /\ OnceInv'
<1>1. CASE Crash(i) BY <1>1, CrashAccount
<1>2. CASE KeyExpires(i)
  <2>1. UNCHANGED <<plan, orphaned, status, res, fin, refunded>> /\ NoMoreFound
    BY <1>2 DEF KeyExpires, callVars, ghosts, NoMoreFound
  <2> QED BY <2>1, SameCalls DEF AccountInv
<1>3. CASE Restart(i)
  <2>1. /\ UNCHANGED <<plan, orphaned, status, res, fin, refunded>>
        /\ recovering' = [recovering EXCEPT ![i] = {c \in Call : Busy(c)}]
    BY <1>3 DEF Restart, callVars, ghosts
  <2>2. ASSUME NEW c \in Call, Busy(c) PROVE Placed(c)
    <3>1. status[c] \notin {"none", "reserving", "refused"} BY <2>2 DEF Busy, Active
    <3>2. Planned(c) BY <3>1 DEF AccountInv, DeskIInv, CallPart, StatusPlanned
    <3> QED BY <3>1, <3>2, NoneApart DEF Placed, Planned
  <2>3. NoMoreFound BY <2>1, <2>2 DEF NoMoreFound, AccountInv, DeskIInv, RestPart, ProcTypes
  <2> QED BY <2>1, <2>3, SameCalls DEF AccountInv
<1> QED BY <1>1, <1>2, <1>3 DEF Process

LEMMA StepAccount ==
  ASSUME AccountInv, BlindEndsSucceed, [Next]_vars
  PROVE  AccountInv'
<1>1. DeskIInv' BY StepDesk DEF AccountInv
<1>2. CASE UNCHANGED vars
  <2>1. UNCHANGED <<plan, orphaned, status, res, fin, refunded>> /\ NoMoreFound
    BY <1>2 DEF vars, callVars, procVars, ghosts, NoMoreFound
  <2>2. PlacedInv' /\ OnceInv' BY <2>1, SameCalls DEF AccountInv
  <2> QED BY <1>1, <2>2 DEF AccountInv
<1>3. CASE Next
  <2>1. PlacedInv' /\ OnceInv'
    BY <1>3, PlaceAccount, BeginAccount, TalkAccount, EndAccount, DeskAccount, ProcessAccount
    DEF Next
  <2> QED BY <1>1, <2>1 DEF AccountInv
<1> QED BY <1>2, <1>3
-----------------------------------------------------------------------------
(* The ledger: what leads.attempts counts. *)

\* A step that spends no attempt and gives none back.
LEMMA LedgerKeeps ==
  ASSUME Ledger, UNCHANGED <<plan, attempts, refunded>>,
         \A c \in Call : Placed(c)' <=> Placed(c),
         \A c \in Call : status'[c] # "none" => status[c] # "none"
  PROVE  Ledger'
<1>1. \A l \in Lead : Counted(l)' = Counted(l) BY DEF Counted
<1>2. Used' \in SUBSET Used BY DEF Used
<1>3. IsFiniteSet(Used') BY <1>2, FS_Subset DEF Ledger
<1> QED BY <1>1, <1>3 DEF Ledger

LEMMA LedgerQuiet ==
  ASSUME Ledger, UNCHANGED <<plan, attempts, refunded, status>>
  PROVE  Ledger'
<1>1. \A c \in Call : Placed(c)' <=> Placed(c) BY DEF Placed
<1> QED BY <1>1, LedgerKeeps

LEMMA CountedFinite ==
  ASSUME Ledger, NEW l
  PROVE  IsFiniteSet(Counted(l))
<1>1. Counted(l) \in SUBSET Used BY DEF Counted, Used, Placed
<1> QED BY <1>1, FS_Subset DEF Ledger

LEMMA ReserveLedger ==
  ASSUME AccountInv, Ledger, NEW c \in Call, NEW p \in Plan, Reserve(c, p)
  PROVE  Ledger'
<1>1. /\ status[c] = "none" /\ status' = [status EXCEPT ![c] = "reserving"]
      /\ plan' = [plan EXCEPT ![c] = p] /\ UNCHANGED <<attempts, refunded>>
  BY DEF Reserve, rowVars, ghosts
<1>2. /\ status'[c] = "reserving"
      /\ \A d \in Call : d # c => status'[d] = status[d] /\ plan'[d] = plan[d]
  BY <1>1 DEF AccountInv, DeskIInv, CallPart, CallTypes
<1>3. Used' = Used \cup {c} BY <1>2 DEF Used
<1>4. IsFiniteSet(Used') BY <1>3, FS_AddElement DEF Ledger
<1>5. \A d \in Call : /\ Placed(d)' <=> Placed(d)
                      /\ Placed(d) => plan'[d] = plan[d]
  BY <1>1, <1>2 DEF Placed
<1>6. ASSUME NEW l \in Lead PROVE Counted(l)' = Counted(l) BY <1>1, <1>5 DEF Counted
<1> QED BY <1>1, <1>4, <1>6 DEF Ledger

LEMMA PlaceLedger ==
  ASSUME AccountInv, Ledger, NEW i \in Instance, Place(i)
  PROVE  Ledger'
<1>0. PickTypes BY DEF AccountInv, DeskIInv, RestPart
<1>1. CASE TickScan(i) \/ TickEnd(i) \/ ManualRefused(i) \/ \E l \in Lead, s \in Sdr : ManualRead(i, l, s)
  <2>1. UNCHANGED <<plan, attempts, refunded, status>>
    BY <1>1 DEF TickScan, TickEnd, ManualRefused, ManualRead, callVars, rowVars, ghosts
  <2> QED BY <2>1, LedgerQuiet
<1>2. ASSUME NEW c \in Call, NEW n \in Line, ManualReserve(i, c, n)
      PROVE  Ledger'
  <2>1. manual[i] \in [lead : Lead, sdr : Sdr, prev : {"available", "offline"}]
    BY <1>0, <1>2 DEF ManualReserve, PickTypes
  <2> DEFINE p == [inst |-> i, lead |-> manual[i].lead, sdr |-> manual[i].sdr, line |-> n,
                   auto |-> FALSE, prev |-> manual[i].prev]
  <2>2. p \in Plan BY <2>1 DEF Plan
  <2>3. Reserve(c, p) BY <1>2 DEF ManualReserve
  <2> HIDE DEF p
  <2> QED BY <2>2, <2>3, ReserveLedger
<1>3. ASSUME NEW c \in Call, NEW l \in Lead, NEW s \in Sdr, NEW n \in Line, TickDial(i, c, l, s, n)
      PROVE  Ledger'
  <2> DEFINE p == [inst |-> i, lead |-> l, sdr |-> s, line |-> n, auto |-> TRUE,
                   prev |-> "available"]
  <2>2. p \in Plan BY DEF Plan
  <2>3. Reserve(c, p) BY <1>3 DEF TickDial
  <2> HIDE DEF p
  <2> QED BY <2>2, <2>3, ReserveLedger
<1> QED BY <1>1, <1>2, <1>3, Zenon DEF Place

\* An automatic call spends one attempt of its lead as it starts.
LEMMA StartLedger ==
  ASSUME AccountInv, Ledger, NEW c \in Call, StartCommit(c)
  PROVE  Ledger'
<1> DEFINE k == plan[c].lead
<1>1. /\ status[c] = "reserving" /\ status' = [status EXCEPT ![c] = "reserved"]
      /\ attempts' = [attempts EXCEPT ![k] = IF plan[c].auto THEN @ + 1 ELSE @]
      /\ UNCHANGED <<plan, refunded>>
  BY DEF StartCommit, ghosts
<1>2. plan[c] \in Plan /\ plan[c] # None
  BY <1>1, NoneApart DEF AccountInv, DeskIInv, CallPart, StatusPlanned, Planned
<1>3. k \in Lead BY <1>2 DEF Plan
<1>4. /\ ~Placed(c) /\ Placed(c)' /\ c \notin refunded
      /\ \A d \in Call : d # c => (Placed(d)' <=> Placed(d))
  BY <1>1, <1>2 DEF AccountInv, DeskIInv, CallPart, CallTypes, Placed, PlacedInv
<1>5. Used' = Used BY <1>1 DEF Used, AccountInv, DeskIInv, CallPart, CallTypes
<1>6. ASSUME NEW l \in Lead PROVE attempts'[l] = Cardinality(Counted(l)')
  <2>1. attempts[l] = Cardinality(Counted(l)) BY DEF Ledger
  <2>2. CASE l = k /\ plan[c].auto
    <3>1. Counted(l)' = Counted(l) \cup {c} /\ c \notin Counted(l)
      BY <1>1, <1>4, <2>2 DEF Counted
    <3>2. Cardinality(Counted(l) \cup {c}) = Cardinality(Counted(l)) + 1
      BY <3>1, CountedFinite, FS_AddElement
    <3>3. attempts'[l] = attempts[l] + 1
      BY <1>1, <2>2 DEF AccountInv, DeskIInv, RestPart, LeadTypes
    <3> QED BY <2>1, <3>1, <3>2, <3>3
  <2>3. CASE ~(l = k /\ plan[c].auto)
    <3>1. Counted(l)' = Counted(l) BY <1>1, <1>4, <2>3 DEF Counted
    <3>2. attempts'[l] = attempts[l]
      BY <1>1, <2>3 DEF AccountInv, DeskIInv, RestPart, LeadTypes
    <3> QED BY <2>1, <3>1, <3>2
  <2> QED BY <2>2, <2>3
<1> QED BY <1>5, <1>6 DEF Ledger

LEMMA BeginLedger ==
  ASSUME AccountInv, Ledger, NEW c \in Call, Begin(c)
  PROVE  Ledger'
<1>1. CASE StartCommit(c) BY <1>1, StartLedger
<1>2. CASE OfferLate(c) \/ Lapse(c) \/ Register(c)
  <2>1. UNCHANGED <<plan, attempts, refunded, status>>
    BY <1>2 DEF OfferLate, Lapse, Register, callVars, rowVars, ghosts
  <2> QED BY <2>1, LedgerQuiet
<1>3. CASE StartRefused(c)
  <2>1. /\ status[c] = "reserving" /\ status' = [status EXCEPT ![c] = "refused"]
        /\ UNCHANGED <<plan, attempts, refunded>>
    BY <1>3 DEF StartRefused, rowVars, ghosts
  <2>2. \A d \in Call : /\ Placed(d)' <=> Placed(d)
                        /\ status'[d] # "none" => status[d] # "none"
    BY <2>1 DEF AccountInv, DeskIInv, CallPart, CallTypes, Placed
  <2> QED BY <2>1, <2>2, LedgerKeeps
<1> QED BY <1>1, <1>2, <1>3 DEF Begin

LEMMA TalkLedger ==
  ASSUME AccountInv, Ledger, NEW c \in Call, Talk(c)
  PROVE  Ledger'
<1>1. CASE FrameLands(c)
  <2>1. /\ res[c].frame /\ status' = [status EXCEPT ![c] = "media_active"]
        /\ UNCHANGED <<plan, attempts, refunded>>
    BY <1>1 DEF FrameLands, rowVars
  <2>2. res[c] # NoRes BY <2>1 DEF NoRes
  <2>3. Placed(c) BY <2>2 DEF AccountInv, PlacedInv
  <2>4. \A d \in Call : /\ Placed(d)' <=> Placed(d)
                        /\ status'[d] # "none" => status[d] # "none"
    BY <2>1, <2>3 DEF AccountInv, DeskIInv, CallPart, CallTypes, Placed
  <2> QED BY <2>1, <2>4, LedgerKeeps
<1>2. CASE FrameLost(c)
  <2>1. UNCHANGED <<plan, attempts, refunded, status>> BY <1>2 DEF FrameLost, callVars, rowVars
  <2> QED BY <2>1, LedgerQuiet
<1>3. ASSUME Stays PROVE Ledger'
  <2>1. UNCHANGED <<plan, attempts, refunded, status>> BY <1>3 DEF Stays, callVars, rowVars, ghosts
  <2> QED BY <2>1, LedgerQuiet
<1> QED BY <1>1, <1>2, <1>3 DEF Talk, Resolved, ResolveFails, OpenMedia, SocketOpens, Answered, Frame,
                              Stall, RingTimeout, SocketFails, SocketCloses, SdrHangsUp

\* The end that gives the attempt back finds it spent, and not given back before.
LEMMA FinCommitLedger ==
  ASSUME AccountInv, Ledger, NEW i \in Instance, NEW c \in Call, FinCommit(i, c)
  PROVE  Ledger'
<1> DEFINE f == fin[i][c]
           k == plan[c].lead
<1>1. /\ status' = [status EXCEPT ![c] = IF @ \in Terminal THEN @ ELSE f.final]
      /\ attempts' = [attempts EXCEPT ![k] =
                        IF plan[c].auto /\ f.refund THEN (IF @ > 0 THEN @ - 1 ELSE 0) ELSE @]
      /\ refunded' = IF plan[c].auto /\ f.why # "other" THEN refunded \cup {c} ELSE refunded
      /\ UNCHANGED plan /\ f.pc = "commit"
  BY DEF FinCommit
<1>2. f \in CommitStep
  <2>1. f \in FinSteps BY DEF AccountInv, DeskIInv, RunPart, FinTypes
  <2> HIDE DEF f
  <2>2. f.pc = "commit" => f \in CommitStep BY <2>1, StepByName
  <2> QED BY <1>1, <2>2
<1>3. f # Idle /\ f.final \in Terminal \cup {"retry_wait"} BY <1>2 DEF CommitStep, Idle
<1>4. Placed(c) BY <1>3 DEF AccountInv, PlacedInv
<1>5. plan[c] \in Plan BY <1>4 DEF Placed, AccountInv, DeskIInv, CallPart, CallTypes
<1>6. k \in Lead BY <1>5 DEF Plan
<1>7. (f.refund <=> f.why # "other") /\ (f.why # "other" => c \notin refunded)
  <2>1. EndOnce(f, i = Owner(c), res[c], status[c], c \in refunded) BY DEF AccountInv, OnceInv
  <2> HIDE DEF f
  <2> QED BY <1>1, <1>3, <2>1 DEF EndOnce, Transient
<1> HIDE DEF f
<1>8. /\ \A d \in Call : Placed(d)' <=> Placed(d)
      /\ Used' = Used
  BY <1>1, <1>3, <1>4 DEF AccountInv, DeskIInv, CallPart, CallTypes, Placed, Terminal, Used
<1>9. ASSUME NEW l \in Lead PROVE attempts'[l] = Cardinality(Counted(l)')
  <2>1. attempts[l] = Cardinality(Counted(l)) /\ attempts[l] \in Nat
    BY BoundsNat DEF Ledger, AccountInv, DeskIInv, RestPart, LeadTypes
  <2>2. CASE l = k /\ plan[c].auto /\ f.refund
    <3>1. Counted(l)' = Counted(l) \ {c} /\ c \in Counted(l)
      BY <1>1, <1>4, <1>7, <1>8, <2>2 DEF Counted
    <3>2. /\ IsFiniteSet(Counted(l) \ {c})
          /\ Cardinality(Counted(l) \ {c}) = Cardinality(Counted(l)) - 1
      BY <3>1, CountedFinite, FS_RemoveElement
    <3>3. Cardinality(Counted(l) \ {c}) \in Nat BY <3>2, FS_CardinalityType
    <3>4. attempts[l] > 0 BY <2>1, <3>2, <3>3
    <3>5. attempts'[l] = attempts[l] - 1
      BY <1>1, <2>2, <3>4 DEF AccountInv, DeskIInv, RestPart, LeadTypes
    <3> QED BY <2>1, <3>1, <3>2, <3>5
  <2>3. CASE ~(l = k /\ plan[c].auto /\ f.refund)
    <3>1. Counted(l)' = Counted(l) BY <1>1, <1>7, <1>8, <2>3 DEF Counted
    <3>2. attempts'[l] = attempts[l]
      BY <1>1, <2>3 DEF AccountInv, DeskIInv, RestPart, LeadTypes
    <3> QED BY <2>1, <3>1, <3>2
  <2> QED BY <2>2, <2>3
<1> QED BY <1>8, <1>9 DEF Ledger

LEMMA EndLedger ==
  ASSUME AccountInv, Ledger, NEW i \in Instance, NEW c \in Call, End(i, c)
  PROVE  Ledger'
<1>1. CASE FinCommit(i, c) BY <1>1, FinCommitLedger
<1>2. CASE FinRead(i, c) \/ FinRelease(i, c) \/ FinFails(i, c) \/ Expire(i, c) \/ AdminFinish(i, c)
           \/ Recover(i, c)
  <2>1. UNCHANGED <<plan, attempts, refunded, status>>
    BY <1>2 DEF FinRead, FinRelease, FinFails, Expire, AdminFinish, Recover, Stays, callVars, rowVars,
                ghosts
  <2> QED BY <2>1, LedgerQuiet
<1> QED BY <1>1, <1>2 DEF End

LEMMA DeskLedger == ASSUME Ledger, NEW s \in Sdr, Desk(s) PROVE Ledger'
<1>1. UNCHANGED <<plan, attempts, refunded, status>>
  <2>1. CASE AskAvailable(s) \/ SetAvailable(s) \/ SetOffline(s) \/ WrapUp(s) \/ Free(s)
             \/ Disconnect(s) \/ LeaveUpdate(s) \/ LeaveNext(s) \/ LeaveDone(s) \/ Connect(s)
    BY <2>1 DEF AskAvailable, SetAvailable, SetOffline, WrapUp, Free, Disconnect, LeaveUpdate,
                LeaveNext, LeaveDone, Connect, callVars, rowVars, ghosts
  <2>2. CASE \/ \E p \in DOMAIN pauses, stay \in BOOLEAN : AskWrapUp(s, p, stay)
             \/ \E i \in Instance : AskFree(i, s)
             \/ \E c \in Call : LeaveCall(s, c)
    BY <2>2 DEF AskWrapUp, AskFree, LeaveCall, callVars, rowVars, ghosts
  <2> QED BY <2>1, <2>2 DEF Desk
<1> QED BY <1>1, LedgerQuiet

LEMMA ProcessLedger == ASSUME AccountInv, Ledger, NEW i \in Instance, Process(i) PROVE Ledger'
<1>1. CASE Crash(i)
  <2>1. /\ UNCHANGED <<plan, attempts, refunded>>
        /\ status' = [c \in Call |-> IF c \in Owned(i) /\ status[c] = "reserving" THEN "refused"
                                     ELSE status[c]]
    BY <1>1 DEF Crash, rowVars, ghosts
  <2>2. \A d \in Call : /\ Placed(d)' <=> Placed(d)
                        /\ status'[d] # "none" => status[d] # "none"
    BY <2>1 DEF Placed
  <2> QED BY <2>1, <2>2, LedgerKeeps
<1>2. CASE KeyExpires(i) \/ Restart(i)
  <2>1. UNCHANGED <<plan, attempts, refunded, status>>
    BY <1>2 DEF KeyExpires, Restart, callVars, rowVars, ghosts
  <2> QED BY <2>1, LedgerQuiet
<1> QED BY <1>1, <1>2 DEF Process

LEMMA StepLedger ==
  ASSUME AccountInv, Ledger, [Next]_vars
  PROVE  Ledger'
<1>1. CASE UNCHANGED vars
  <2>1. UNCHANGED <<plan, attempts, refunded, status>> BY <1>1 DEF vars, callVars, rowVars, ghosts
  <2> QED BY <2>1, LedgerQuiet
<1>2. CASE Next
  BY <1>2, PlaceLedger, BeginLedger, TalkLedger, EndLedger, DeskLedger, ProcessLedger DEF Next
<1> QED BY <1>1, <1>2

LEMMA InitAccount == Init => AccountInv /\ Ledger
<1> SUFFICES ASSUME Init PROVE AccountInv /\ Ledger
  OBVIOUS
<1>1. DeskIInv BY InitDesk
<1>2. PlacedInv BY DEF Init, PlacedInv
<1>3. OnceInv
  <2>1. \A c \in Call : /\ res[c] = NoRes /\ (c \in refunded) = FALSE
                        /\ \A i \in Instance : fin[i][c] = Idle
    BY DEF Init
  <2> QED BY <2>1, NoResOnce DEF OnceInv
<1>4. Ledger
  <2>1. Used = {} BY DEF Init, Used
  <2>2. \A l \in Lead : Counted(l) = {} BY DEF Init, Counted, Placed
  <2>3. \A l \in Lead : attempts[l] = 0 BY DEF Init
  <2> QED BY <2>1, <2>2, <2>3, FS_EmptySet DEF Ledger
<1> QED BY <1>1, <1>2, <1>3, <1>4 DEF AccountInv

\* Each lead has spent one attempt for every automatic call placed for it that did not
\* end by a rate limit or a stalled line, whoever ended the call and how often, over any
\* number of crashes: provided that no query fails of an end that began before its call
\* was in the map of active calls (such a failure takes a call out of the map that can
\* still end once more).
THEOREM AttemptsKept == Spec /\ [][BlindEndsSucceed]_vars => []AttemptsAccounted
<1>1. Init => AccountInv /\ Ledger BY InitAccount
<1>2. AccountInv /\ Ledger /\ [Next]_vars /\ [BlindEndsSucceed]_vars => AccountInv' /\ Ledger'
  <2> SUFFICES ASSUME AccountInv, Ledger, [Next]_vars, [BlindEndsSucceed]_vars
               PROVE  AccountInv' /\ Ledger'
    OBVIOUS
  <2>1. CASE BlindEndsSucceed BY <2>1, StepAccount, StepLedger
  <2>2. CASE UNCHANGED vars
    <3>1. UNCHANGED <<plan, orphaned, status, res, fin, refunded>> /\ NoMoreFound /\ DeskIInv'
      BY <2>2, StepDesk DEF vars, callVars, procVars, ghosts, NoMoreFound, AccountInv
    <3>2. PlacedInv' /\ OnceInv' BY <3>1, SameCalls DEF AccountInv
    <3> QED BY <3>1, <3>2, StepLedger DEF AccountInv
  <2> QED BY <2>1, <2>2
<1>3. Ledger => AttemptsAccounted BY DEF Ledger, Counted, AttemptsAccounted
<1> QED BY <1>1, <1>2, <1>3, PTL DEF Spec
=============================================================================
