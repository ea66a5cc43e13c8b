----------------------------- MODULE FloorProofs -----------------------------
(***************************************************************************)
(* What surrounds the calls of a floor, proved for any number of agents,   *)
(* sockets, lines, requests and frames: how the frames of a call are       *)
(* played, the audio of a station, what follows a conversation, the        *)
(* sessions of the lines and the requests to Waxum.                        *)
(***************************************************************************)
EXTENDS MCFloor, DialQueueProofs, FiniteSetTheorems, WellFoundedInduction, TLAPS

-----------------------------------------------------------------------------
\* What holds at first and passes on holds for ever: from the least number it
\* would not hold of.
LEMMA LeastNumber ==
  ASSUME NEW T, T \subseteq Nat, T # {}
  PROVE  \E x \in T : \A y \in T : x <= y
<1> DEFINE R == {ss \in Nat \X Nat : ss[1] < ss[2]}
<1>1. IsWellFoundedOn(R, Nat) BY NatLessThanWellFounded, Zenon DEF OpToRel
<1>2. PICK x \in T : \A y \in T : ~(<<y, x>> \in R)
  <2> HIDE DEF R
  <2> QED BY <1>1, WFMin
<1>3. \A y \in T : x <= y
  <2> SUFFICES ASSUME NEW y \in T, ~(x <= y) PROVE FALSE OBVIOUS
  <2>1. x \in Nat /\ y \in Nat /\ y < x OBVIOUS
  <2>2. <<y, x>> \in Nat \X Nat /\ <<y, x>>[1] = y /\ <<y, x>>[2] = x BY <2>1
  <2> QED BY <1>2, <2>1, <2>2
<1> QED BY <1>3

LEMMA Everywhere ==
  ASSUME NEW T, 0 \in T, \A k \in Nat : k \in T => k + 1 \in T
  PROVE  Nat \subseteq T
<1> SUFFICES ASSUME Nat \ T # {} PROVE FALSE OBVIOUS
<1>1. PICK x \in Nat \ T : \A y \in Nat \ T : x <= y BY LeastNumber
<1>2. x - 1 \in Nat /\ ~(x <= x - 1) OBVIOUS
<1>3. x - 1 \in T BY <1>1, <1>2
<1>4. x - 1 + 1 = x OBVIOUS
<1> QED BY <1>2, <1>3, <1>4

\* What a function that repeats a step takes is what the step goes through.
Repeats(f, S, a, G, n) ==
  f \in [0..n -> S] /\ f[0] = a /\ \A k \in 1..n : f[k] = G[f[k - 1]]

LEMMA Repeated ==
  ASSUME NEW S, NEW a \in S, NEW G \in [S -> S], NEW n \in Nat
  PROVE  \E f : Repeats(f, S, a, G, n)
<1> DEFINE ok(m) == \E f \in [0..m -> S] : f[0] = a /\ \A k \in 1..m : f[k] = G[f[k - 1]]
           T == {m \in Nat : ok(m)}
<1>1. 0 \in T
  <2> DEFINE f == [k \in 0..0 |-> a]
  <2>1. f \in [0..0 -> S] /\ f[0] = a OBVIOUS
  <2>2. \A k \in 1..0 : FALSE OBVIOUS
  <2> HIDE DEF f
  <2>3. ok(0) BY <2>1, <2>2
  <2> HIDE DEF ok
  <2> QED BY <2>3
<1>2. ASSUME NEW m \in Nat, m \in T PROVE m + 1 \in T
  <2>1. PICK f \in [0..m -> S] : f[0] = a /\ \A k \in 1..m : f[k] = G[f[k - 1]] BY <1>2
  <2> DEFINE g == [k \in 0..(m + 1) |-> IF k <= m THEN f[k] ELSE G[f[m]]]
  <2>2. g \in [0..(m + 1) -> S] OBVIOUS
  <2>3. g[0] = a BY <2>1
  <2>4. ASSUME NEW k \in 1..(m + 1) PROVE g[k] = G[g[k - 1]]
    <3>1. CASE k <= m
      <4>1. k \in 1..m /\ k - 1 \in 0..m /\ k - 1 <= m /\ k - 1 \in 0..(m + 1) BY <3>1
      <4> QED BY <2>1, <3>1, <4>1
    <3>2. CASE ~(k <= m)
      <4>1. k = m + 1 /\ k - 1 = m /\ m \in 0..(m + 1) BY <3>2
      <4> QED BY <3>2, <4>1
    <3> QED BY <3>1, <3>2
  <2> QED BY <2>2, <2>3, <2>4
<1> HIDE DEF T
<1>3. Nat \subseteq T BY <1>1, <1>2, Everywhere
<1> QED BY <1>3 DEF T, Repeats

LEMMA StaysInside ==
  ASSUME NEW S, NEW n \in Nat, NEW f, f[0] \in S, \A k \in 1..n : f[k - 1] \in S => f[k] \in S
  PROVE  \A k \in 0..n : f[k] \in S
<1> DEFINE T == {k \in Nat : k <= n => f[k] \in S}
<1>1. 0 \in T OBVIOUS
<1>2. ASSUME NEW k \in Nat, k \in T PROVE k + 1 \in T
  <2> SUFFICES ASSUME k + 1 <= n PROVE f[k + 1] \in S OBVIOUS
  <2>1. k + 1 \in 1..n /\ k + 1 - 1 = k /\ k <= n OBVIOUS
  <2> QED BY <1>2, <2>1
<1> HIDE DEF T
<1>3. Nat \subseteq T BY <1>1, <1>2, Everywhere
<1> QED BY <1>3 DEF T

-----------------------------------------------------------------------------
(* Playout: what is scheduled ahead, and whether frames are dropped, after *)
(* any number of frames.                                                   *)
Heard == {p \in [ahead : Int, shedding : BOOLEAN] : p.ahead <= BacklogHigh + 1}
Heard1(p) ==
  LET s == SheddingAfter(p.shedding, p.ahead)
  IN  [ahead |-> IF s THEN p.ahead ELSE Later(p.ahead), shedding |-> s]

LEMMA OneFrame == ASSUME NEW p \in Heard PROVE Heard1(p) \in Heard
<1> DEFINE s == SheddingAfter(p.shedding, p.ahead)
           a == IF s THEN p.ahead ELSE Later(p.ahead)
<1>1. /\ p.ahead \in Int /\ p.ahead <= BacklogHigh + 1 /\ p.shedding \in BOOLEAN BY DEF Heard
<1>2. s \in BOOLEAN /\ (p.ahead > BacklogHigh => s) BY <1>1 DEF SheddingAfter
<1>3. {BacklogHigh, BacklogLow, StartLead} \subseteq Nat /\ StartLead < BacklogHigh
  BY PlayoutConstants
<1> HIDE DEF s
<1>4. a \in Int /\ a <= BacklogHigh + 1 BY <1>1, <1>2, <1>3 DEF Later
<1> HIDE DEF a
<1>5. Heard1(p) = [ahead |-> a, shedding |-> s] BY DEF Heard1, a, s
<1> QED BY <1>2, <1>4, <1>5 DEF Heard

LEMMA FramesOnEnd ==
  ASSUME NEW a \in Heard, NEW n \in Nat
  PROVE  \E f : f = [k \in 0..n |-> IF k = 0 THEN a ELSE Heard1(f[k - 1])]
<1> DEFINE G == [p \in Heard |-> Heard1(p)]
<1>1. G \in [Heard -> Heard] BY OneFrame
<1> HIDE DEF G
<1>2. PICK f : Repeats(f, Heard, a, G, n) BY <1>1, Repeated
<1>3. \A k \in 0..n : f[k] = IF k = 0 THEN a ELSE Heard1(f[k - 1])
  <2>1. ASSUME NEW k \in 0..n, k # 0 PROVE k \in 1..n /\ k - 1 \in 0..n BY <2>1
  <2> QED BY <1>2, <2>1 DEF G, Repeats
<1>4. f = [k \in 0..n |-> f[k]] BY <1>2 DEF Repeats
<1> QED BY <1>3, <1>4

LEMMA ManyFrames ==
  ASSUME NEW n \in Nat, ahead \in Int, ahead <= BacklogHigh + 1, shedding \in BOOLEAN
  PROVE  Enqueued(n) \in Heard
<1> DEFINE a == [ahead |-> ahead, shedding |-> shedding]
           F == CHOOSE f : f = [k \in 0..n |-> IF k = 0 THEN a ELSE Heard1(f[k - 1])]
<1>1. a \in Heard BY DEF Heard
<1>3. \E f : f = [k \in 0..n |-> IF k = 0 THEN a ELSE Heard1(f[k - 1])]
  <2> HIDE DEF a, F
  <2> QED BY <1>1, FramesOnEnd
<1>4. F = [k \in 0..n |-> IF k = 0 THEN a ELSE Heard1(F[k - 1])] BY <1>3
<1>5. Enqueued(n) = F[n] BY DEF Enqueued, Heard1
<1> HIDE DEF F, a
<1>6. F[0] = a /\ \A k \in 1..n : F[k] = Heard1(F[k - 1]) BY <1>4
<1>7. \A k \in 0..n : F[k] \in Heard BY <1>1, <1>6, OneFrame, StaysInside
<1> QED BY <1>5, <1>7

PlayIInv == PlayTypeOK /\ LagBounded

LEMMA StepPlay == PlayIInv /\ [PlayNext]_playVars => PlayIInv'
<1> SUFFICES ASSUME PlayIInv, [PlayNext]_playVars PROVE PlayIInv' OBVIOUS
<1>0. /\ {BacklogHigh, Replayed, PendingLimit, Slack} \subseteq Nat
      /\ running \in BOOLEAN /\ pending \in 0..PendingLimit /\ ahead \in Int /\ shedding \in BOOLEAN
      /\ ahead <= BacklogHigh + 1
  BY PlayoutConstants DEF PlayIInv, PlayTypeOK, LagBounded
<1>1. ASSUME NEW n \in Nat, Schedule(n)
      PROVE  ahead' \in Int /\ shedding' \in BOOLEAN /\ ahead' <= BacklogHigh + 1
  <2>1. Enqueued(n) \in Heard BY <1>0, ManyFrames
  <2> QED BY <1>1, <2>1 DEF Schedule, Heard
<1>2. CASE Play BY <1>0, <1>1, <1>2 DEF Play, PlayIInv, PlayTypeOK, LagBounded
<1>3. CASE ContextReady
  <2>1. ReplayedOf(pending) \in Nat BY <1>0 DEF ReplayedOf
  <2> QED BY <1>0, <1>1, <1>3, <2>1 DEF ContextReady, PlayIInv, PlayTypeOK, LagBounded
<1>4. CASE Suspend BY <1>0, <1>4 DEF Suspend, PlayIInv, PlayTypeOK, LagBounded
<1>5. CASE ClockRuns BY <1>0, <1>5 DEF ClockRuns, PlayIInv, PlayTypeOK, LagBounded
<1>6. CASE StopPlayout
  <2>1. -Slack \in Int /\ -Slack <= BacklogHigh + 1 /\ 0 \in 0..PendingLimit BY <1>0
  <2> QED BY <1>6, <2>1 DEF StopPlayout, PlayIInv, PlayTypeOK, LagBounded
<1>7. CASE UNCHANGED playVars BY <1>0, <1>7 DEF playVars, PlayIInv, PlayTypeOK, LagBounded
<1> QED BY <1>2, <1>3, <1>4, <1>5, <1>6, <1>7 DEF PlayNext

\* What is heard lags by the high mark at most and one frame, however many frames come at once,
\* whatever waited for the context and for any marks in their order (enqueuePlayback).
THEOREM LittleLag == PlaySpec => []LagBounded
<1>1. PlayInit => PlayIInv
  <2>1. {BacklogHigh, PendingLimit, Slack} \subseteq Nat BY PlayoutConstants
  <2>2. -Slack \in Int /\ -Slack <= BacklogHigh + 1 /\ 0 \in 0..PendingLimit BY <2>1
  <2> QED BY <2>2 DEF PlayInit, PlayIInv, PlayTypeOK, LagBounded
<1>2. PlayIInv => LagBounded BY DEF PlayIInv
<1> QED BY <1>1, <1>2, StepPlay, PTL DEF PlaySpec

-----------------------------------------------------------------------------
(* AfterCall: an agent has one call or one open pause, a pause that is     *)
(* being wrapped up is open, a return stands for a conversation whose pause *)
(* is over, and who waits for a held row to call a lead that has a return  *)
(* by now will find the lead put off or refused.                           *)
PersonRows == [status : {"queued", "reserved", "retry_wait", "completed"}, at : Nat,
               suppressed : BOOLEAN]
TalkRows == [state : {"none", "starting", "on", "ended"}, lead : People \cup {Nobody},
             sdr : Agents \cup {Nobody}, auto : BOOLEAN, result : Results \cup {"none"}]
ReturnRows == [status : OpenReturn \cup {"none", "completed", "cancelled", "missed"},
               lead : People \cup {Nobody}, owner : Agents \cup {Nobody}, due : Nat,
               origin : Talks \cup {Nobody}]
WrapRows == [talk : Talks, result : Results, due : 0..LastHour]
IntentRows == [sdr : Agents \cup {Nobody}, until : Nat, used : Nat]

AfterTyped ==
  /\ hour \in Nat /\ person \in [People -> PersonRows] /\ talk \in [Talks -> TalkRows]
  /\ pauseOf \in [Talks -> {"none", "open", "over"}]
  /\ currentPause \in [Agents -> Talks \cup {Nobody}] /\ promise \in [Returns -> ReturnRows]
  /\ wrapping \subseteq WrapRows /\ waiting \subseteq Talks /\ intent \in [Intents -> IntentRows]

Running(c) == talk[c].state \in {"starting", "on"}
TalksFit ==
  \A c \in Talks :
    /\ talk[c].state # "none" => talk[c].lead \in People /\ talk[c].sdr \in Agents
    /\ talk[c].state # "ended" => pauseOf[c] = "none" /\ talk[c].result = "none"
    /\ pauseOf[c] = "open" => talk[c].result = "none"
OneEach ==
  \A c, d \in Talks : Running(c) /\ Running(d) => talk[c].sdr # talk[d].sdr \/ c = d
OneOfLead ==
  \A c, d \in Talks : Running(c) /\ Running(d) => talk[c].lead # talk[d].lead \/ c = d
PausesFit ==
  /\ \A c \in Talks : /\ Running(c) => currentPause[talk[c].sdr] = Nobody
                      /\ pauseOf[c] = "open" => currentPause[talk[c].sdr] = c
  /\ \A a \in Agents : currentPause[a] # Nobody => /\ pauseOf[currentPause[a]] = "open"
                                                   /\ talk[currentPause[a]].sdr = a
WrapsFit ==
  /\ \A w \in wrapping : pauseOf[w.talk] = "open" /\ (w.result = "retornar" => w.due > hour)
  /\ \A v, w \in wrapping : talk[v.talk].lead = talk[w.talk].lead => v = w
WaitersFit ==
  \A c \in waiting :
    /\ talk[c].state = "starting"
    /\ talk[c].auto => \/ OpenOf(talk[c].lead) = {}
                       \/ person[talk[c].lead].suppressed \/ person[talk[c].lead].at > hour
ReturnsFit ==
  /\ \A k \in Returns : promise[k].origin # Nobody => pauseOf[promise[k].origin] = "over"
  /\ \A j, k \in Returns : /\ promise[j].status \in OpenReturn /\ promise[k].status \in OpenReturn
                           /\ promise[j].lead = promise[k].lead
                           => j = k

AfterIInv ==
  /\ AfterTyped /\ TalksFit /\ OneEach /\ OneOfLead /\ PausesFit /\ WrapsFit /\ WaitersFit
  /\ ReturnsFit /\ IntentOnce

LEMMA AfterIsInv == AfterIInv => AfterInv
<1> SUFFICES ASSUME AfterIInv PROVE AfterInv OBVIOUS
<1>1. OnePromise
  <2> SUFFICES ASSUME NEW l \in People PROVE Cardinality(OpenOf(l)) <= 1 BY DEF OnePromise
  <2>1. CASE OpenOf(l) = {} BY <2>1, FS_EmptySet
  <2>2. CASE OpenOf(l) # {}
    <3>1. PICK k \in OpenOf(l) : TRUE BY <2>2
    <3>2. OpenOf(l) = {k} BY <3>1 DEF OpenOf, AfterIInv, ReturnsFit
    <3> QED BY <3>2, FS_Singleton
  <2> QED BY <2>1, <2>2
<1>2. PauseKnown
  <2> SUFFICES ASSUME NEW c \in Talks
               PROVE  pauseOf[c] = "open" <=> \E a \in Agents : currentPause[a] = c
    BY DEF PauseKnown
  <2>1. ASSUME pauseOf[c] = "open" PROVE \E a \in Agents : currentPause[a] = c
    <3>1. talk[c].state = "ended" BY <2>1 DEF AfterIInv, TalksFit
    <3> QED BY <2>1, <3>1 DEF AfterIInv, TalksFit, PausesFit
  <2>2. ASSUME NEW a \in Agents, currentPause[a] = c PROVE pauseOf[c] = "open"
    BY <2>2, AfterCallConstants DEF AfterIInv, PausesFit
  <2> QED BY <2>1, <2>2
<1> QED BY <1>1, <1>2 DEF AfterIInv, AfterInv

LEMMA AfterOf ==
  ASSUME AfterIInv
  PROVE  /\ hour \in Nat /\ LastHour \in Nat
         /\ \A c \in Talks :
              /\ talk[c] \in TalkRows /\ talk[c].state \in {"none", "starting", "on", "ended"}
              /\ talk[c].auto \in BOOLEAN /\ talk[c].result \in Results \cup {"none"}
              /\ pauseOf[c] \in {"none", "open", "over"}
              /\ talk[c].state # "none" => talk[c].lead \in People /\ talk[c].sdr \in Agents
         /\ \A l \in People : /\ person[l] \in PersonRows /\ person[l].at \in Nat
                              /\ person[l].suppressed \in BOOLEAN
         /\ \A k \in Returns : promise[k] \in ReturnRows
         /\ \A w \in wrapping : /\ w.talk \in Talks /\ w.result \in Results /\ w.due \in Nat
                                /\ pauseOf[w.talk] = "open" /\ talk[w.talk].state = "ended"
         /\ Nobody \notin Talks /\ Nobody \notin People /\ Nobody \notin Agents
BY AfterCallConstants DEF AfterIInv, AfterTyped, TalksFit, WrapsFit, TalkRows, PersonRows, WrapRows

\* The rows that a call reads and writes.
LEMMA Taken ==
  ASSUME AfterIInv, NEW l \in People, NEW auto \in BOOLEAN, Takes(l, auto)
  PROVE  /\ person' \in [People -> PersonRows]
         /\ \A p \in People : person'[p].at = person[p].at /\ person'[p].suppressed = person[p].suppressed
<1> DEFINE to == [person[l] EXCEPT !.status = "reserved"]
<1>1. person[l] \in PersonRows BY AfterOf
<1>2. to \in PersonRows /\ to.at = person[l].at /\ to.suppressed = person[l].suppressed
  BY <1>1 DEF PersonRows
<1>3. person' = IF auto THEN [person EXCEPT ![l] = to] ELSE person BY DEF Takes
<1> HIDE DEF to
<1> QED BY <1>2, <1>3 DEF AfterIInv, AfterTyped

\* A call that begins takes an agent who has neither call nor pause, and a lead who has no call.
LEMMA TalkBegins ==
  ASSUME AfterIInv, NEW c \in Talks, NEW l \in People, NEW a \in Agents, NEW auto \in BOOLEAN,
         NEW state \in {"starting", "on"}, Free(c, l, a), Begins(c, l, a, auto, state),
         UNCHANGED <<hour, pauseOf, currentPause, promise, wrapping, intent>>
  PROVE  /\ talk[c].state = "none" /\ talk[c].result = "none"
         /\ talk' \in [Talks -> TalkRows] /\ talk'[c].lead = l /\ talk'[c].auto = auto
         /\ talk'[c].state = state
         /\ \A d \in Talks : d # c => talk'[d] = talk[d]
         /\ TalksFit' /\ OneEach' /\ OneOfLead' /\ PausesFit' /\ WrapsFit'
<1> DEFINE new == [NoTalk EXCEPT !.state = state, !.lead = l, !.sdr = a, !.auto = auto]
<1>1. /\ new \in TalkRows /\ new.state = state /\ new.lead = l /\ new.sdr = a /\ new.auto = auto
      /\ new.result = "none"
  BY DEF NoTalk, TalkRows
<1>2. talk' = [talk EXCEPT ![c] = new] BY DEF Begins
<1> HIDE DEF new
<1>3. talk' \in [Talks -> TalkRows] /\ talk'[c] = new /\ \A d \in Talks : d # c => talk'[d] = talk[d]
  BY <1>1, <1>2 DEF AfterIInv, AfterTyped
<1>4. /\ talk[c].state = "none" /\ pauseOf[c] = "none" /\ talk[c].result = "none"
      /\ currentPause[a] = Nobody
      /\ \A d \in Talks : Running(d) => talk[d].sdr # a /\ talk[d].lead # l
  BY DEF Free, Busy, Running, AfterIInv, TalksFit
<1>5. TalksFit' BY <1>1, <1>3, <1>4 DEF AfterIInv, TalksFit
<1>6. OneEach' BY <1>1, <1>3, <1>4 DEF AfterIInv, OneEach, Running
<1>7. OneOfLead' BY <1>1, <1>3, <1>4 DEF AfterIInv, OneOfLead, Running
<1>8. PausesFit'
  <2>1. \A d \in Talks : /\ Running(d)' => currentPause[talk'[d].sdr] = Nobody
                         /\ pauseOf[d] = "open" => currentPause[talk'[d].sdr] = d
    BY <1>1, <1>3, <1>4 DEF AfterIInv, PausesFit, Running
  <2>2. \A b \in Agents : currentPause[b] # Nobody =>
          pauseOf[currentPause[b]] = "open" /\ talk'[currentPause[b]].sdr = b
    BY <1>3, <1>4 DEF AfterIInv, AfterTyped, PausesFit
  <2> QED BY <2>1, <2>2 DEF PausesFit, Running
<1>9. WrapsFit'
  <2>1. \A w \in wrapping : w.talk \in Talks /\ w.talk # c BY <1>4, AfterOf
  <2>2. \A w \in wrapping : talk'[w.talk] = talk[w.talk] BY <1>3, <2>1
  <2> QED BY <2>2 DEF AfterIInv, WrapsFit
<1> QED BY <1>1, <1>3, <1>4, <1>5, <1>6, <1>7, <1>8, <1>9

LEMMA SameReturns == ASSUME promise' = promise PROVE \A l : OpenOf(l)' = OpenOf(l)
BY DEF OpenOf

LEMMA NoReturnOf ==
  ASSUME AfterIInv, NEW l \in People, NEW a \in Agents, ReturnAllows(ReturnOf(l), a, TRUE)
  PROVE  OpenOf(l) = {}
<1> SUFFICES ASSUME OpenOf(l) # {} PROVE FALSE OBVIOUS
<1> DEFINE k == CHOOSE j \in OpenOf(l) : TRUE
<1>1. k \in OpenOf(l) OBVIOUS
<1>2. ReturnOf(l) = promise[k] BY DEF ReturnOf
<1> HIDE DEF k
<1>3. promise[k].status \in OpenReturn BY <1>1 DEF OpenOf
<1> QED BY <1>2, <1>3 DEF ReturnAllows, OpenReturn

LEMMA StepStart ==
  ASSUME AfterIInv, NEW c \in Talks, NEW l \in People, NEW a \in Agents, NEW auto \in BOOLEAN,
         Start(c, l, a, auto)
  PROVE  AfterIInv' /\ AfterStep
<1>1. /\ Free(c, l, a) /\ ReturnAllows(ReturnOf(l), a, auto)
      /\ Begins(c, l, a, auto, "on") /\ Takes(l, auto)
      /\ UNCHANGED <<hour, pauseOf, currentPause, promise, wrapping, waiting, intent>>
  BY DEF Start
<1>2. /\ talk[c].state = "none" /\ talk[c].result = "none"
      /\ talk' \in [Talks -> TalkRows] /\ talk'[c].lead = l /\ talk'[c].auto = auto
      /\ \A d \in Talks : d # c => talk'[d] = talk[d]
      /\ TalksFit' /\ OneEach' /\ OneOfLead' /\ PausesFit' /\ WrapsFit'
  BY <1>1, TalkBegins
<1>3. /\ person' \in [People -> PersonRows]
      /\ \A p \in People : person'[p].at = person[p].at /\ person'[p].suppressed = person[p].suppressed
  BY <1>1, Taken
<1>4. AfterTyped' BY <1>1, <1>2, <1>3 DEF AfterIInv, AfterTyped
<1>5. WaitersFit'
  <2>1. \A d \in waiting : d \in Talks /\ d # c /\ talk'[d] = talk[d] /\ talk[d].lead \in People
    BY <1>2, AfterOf DEF AfterIInv, AfterTyped, WaitersFit
  <2> QED BY <1>1, <1>3, <2>1, SameReturns DEF AfterIInv, WaitersFit
<1>6. ReturnsFit' /\ IntentOnce' BY <1>1 DEF AfterIInv, ReturnsFit, IntentOnce
<1>7. auto => OpenOf(l) = {} BY <1>1, NoReturnOf
<1>8. AfterStep BY <1>1, <1>2, <1>7 DEF AfterStep, NoneOverAPromise, WrittenOnce
<1> QED BY <1>2, <1>4, <1>5, <1>6, <1>8 DEF AfterIInv

LEMMA StepStartWaits ==
  ASSUME AfterIInv, NEW c \in Talks, NEW l \in People, NEW a \in Agents, NEW auto \in BOOLEAN,
         StartWaits(c, l, a, auto)
  PROVE  AfterIInv' /\ AfterStep
<1>1. /\ Free(c, l, a) /\ ReturnAllows(ReturnOf(l), a, auto)
      /\ Begins(c, l, a, auto, "starting") /\ waiting' = waiting \cup {c}
      /\ UNCHANGED <<hour, person, pauseOf, currentPause, promise, wrapping, intent>>
  BY DEF StartWaits
<1>2. /\ talk[c].state = "none" /\ talk[c].result = "none"
      /\ talk' \in [Talks -> TalkRows] /\ talk'[c].lead = l /\ talk'[c].auto = auto
      /\ talk'[c].state = "starting"
      /\ \A d \in Talks : d # c => talk'[d] = talk[d]
      /\ TalksFit' /\ OneEach' /\ OneOfLead' /\ PausesFit' /\ WrapsFit'
  BY <1>1, TalkBegins
<1>3. AfterTyped' BY <1>1, <1>2 DEF AfterIInv, AfterTyped
<1>4. auto => OpenOf(l) = {} BY <1>1, NoReturnOf
<1>5. WaitersFit'
  <2>1. \A d \in waiting : d \in Talks /\ d # c /\ talk'[d] = talk[d] /\ talk[d].lead \in People
    BY <1>2, AfterOf DEF AfterIInv, AfterTyped, WaitersFit
  <2> QED BY <1>1, <1>2, <1>4, <2>1, SameReturns DEF AfterIInv, WaitersFit
<1>6. ReturnsFit' /\ IntentOnce' BY <1>1 DEF AfterIInv, ReturnsFit, IntentOnce
<1>7. AfterStep BY <1>1, <1>2 DEF AfterStep, NoneOverAPromise, WrittenOnce
<1> QED BY <1>2, <1>3, <1>5, <1>6, <1>7 DEF AfterIInv

\* Who waited for the row goes on with the lead as it is by now.
LEMMA StepStartGoesOn ==
  ASSUME AfterIInv, NEW c \in Talks, StartGoesOn(c) PROVE AfterIInv' /\ AfterStep
<1> DEFINE l == talk[c].lead
<1>1. /\ c \in waiting /\ waiting' = waiting \ {c}
      /\ UNCHANGED <<hour, pauseOf, currentPause, promise, wrapping, intent>>
      /\ \/ /\ LeadAllows(l, talk[c].auto) /\ Takes(l, talk[c].auto)
            /\ talk' = [talk EXCEPT ![c].state = "on"]
         \/ talk' = [talk EXCEPT ![c] = NoTalk] /\ UNCHANGED person
  BY DEF StartGoesOn
<1>2. /\ talk[c].state = "starting" /\ pauseOf[c] = "none" /\ talk[c].result = "none"
      /\ l \in People /\ talk[c].auto \in BOOLEAN /\ talk[c] \in TalkRows
      /\ talk[c].auto => OpenOf(l) = {} \/ person[l].suppressed \/ person[l].at > hour
  BY <1>1, AfterOf DEF AfterIInv, WaitersFit, TalksFit
<1>3. \E new \in TalkRows :
        /\ talk' = [talk EXCEPT ![c] = new] /\ new.result = "none"
        /\ \/ /\ new.state = "on" /\ new.lead = l /\ new.sdr = talk[c].sdr /\ new.auto = talk[c].auto
              /\ LeadAllows(l, talk[c].auto)
           \/ new.state = "none"
  <2>1. CASE LeadAllows(l, talk[c].auto) /\ talk' = [talk EXCEPT ![c].state = "on"]
    <3> DEFINE new == [talk[c] EXCEPT !.state = "on"]
    <3>1. /\ new \in TalkRows /\ new.state = "on" /\ new.lead = l /\ new.sdr = talk[c].sdr
          /\ new.auto = talk[c].auto /\ new.result = "none"
      BY <1>2 DEF TalkRows
    <3> QED BY <2>1, <3>1
  <2>2. CASE talk' = [talk EXCEPT ![c] = NoTalk]
    <3>1. NoTalk \in TalkRows /\ NoTalk.result = "none" /\ NoTalk.state = "none" BY DEF NoTalk, TalkRows
    <3> QED BY <2>2, <3>1
  <2> QED BY <1>1, <2>1, <2>2
<1>4. PICK new \in TalkRows :
        /\ talk' = [talk EXCEPT ![c] = new] /\ new.result = "none"
        /\ \/ /\ new.state = "on" /\ new.lead = l /\ new.sdr = talk[c].sdr /\ new.auto = talk[c].auto
              /\ LeadAllows(l, talk[c].auto)
           \/ new.state = "none"
  BY <1>3
<1>5. /\ person' \in [People -> PersonRows]
      /\ \A p \in People : person'[p].at = person[p].at /\ person'[p].suppressed = person[p].suppressed
  BY <1>1, <1>2, Taken DEF AfterIInv, AfterTyped
<1>6. talk' \in [Talks -> TalkRows] /\ talk'[c] = new /\ \A d \in Talks : d # c => talk'[d] = talk[d]
  BY <1>4 DEF AfterIInv, AfterTyped
<1>7. AfterTyped' BY <1>1, <1>5, <1>6 DEF AfterIInv, AfterTyped
<1>8. \A a \in Agents : currentPause[a] # c BY <1>2, AfterOf DEF AfterIInv, PausesFit
<1>9. TalksFit' BY <1>1, <1>2, <1>4, <1>6, AfterOf DEF AfterIInv, TalksFit
<1>10. OneEach' /\ OneOfLead' BY <1>2, <1>4, <1>6 DEF AfterIInv, OneEach, OneOfLead, Running
<1>11. PausesFit'
  <2>1. \A d \in Talks : /\ Running(d)' => currentPause[talk'[d].sdr] = Nobody
                         /\ pauseOf[d] = "open" => currentPause[talk'[d].sdr] = d
    BY <1>2, <1>4, <1>6 DEF AfterIInv, PausesFit, Running
  <2>2. \A b \in Agents : currentPause[b] # Nobody =>
          pauseOf[currentPause[b]] = "open" /\ talk'[currentPause[b]].sdr = b
    BY <1>6, <1>8 DEF AfterIInv, AfterTyped, PausesFit
  <2> QED BY <1>1, <2>1, <2>2 DEF PausesFit, Running
<1>12. WrapsFit'
  <2>1. \A w \in wrapping : talk'[w.talk] = talk[w.talk] BY <1>2, <1>6, AfterOf
  <2> QED BY <1>1, <2>1 DEF AfterIInv, WrapsFit
<1>13. WaitersFit'
  <2>1. \A d \in waiting' : d \in Talks /\ d \in waiting /\ talk'[d] = talk[d] /\ talk[d].lead \in People
    BY <1>1, <1>6, AfterOf DEF AfterIInv, AfterTyped, WaitersFit
  <2> QED BY <1>1, <1>5, <2>1, SameReturns DEF AfterIInv, WaitersFit
<1>14. ReturnsFit' /\ IntentOnce' BY <1>1 DEF AfterIInv, ReturnsFit, IntentOnce
<1>15. NoneOverAPromise
  <2> SUFFICES ASSUME new.state = "on", new.auto PROVE OpenOf(l) = {}
    BY <1>4, <1>6 DEF NoneOverAPromise
  <2>1. ~person[l].suppressed /\ person[l].at <= hour BY <1>4 DEF LeadAllows
  <2>2. ~(person[l].at > hour) BY <1>2, <2>1, AfterOf
  <2> QED BY <1>2, <1>4, <2>1, <2>2
<1>16. WrittenOnce BY <1>1, <1>2, <1>6 DEF WrittenOnce
<1> QED BY <1>7, <1>9, <1>10, <1>11, <1>12, <1>13, <1>14, <1>15, <1>16 DEF AfterIInv, AfterStep

\* A call that ends holds its agent by its own pause, if it was answered.
LEMMA StepCallEnds ==
  ASSUME AfterIInv, NEW c \in Talks, NEW answered \in BOOLEAN, NEW again \in BOOLEAN,
         CallEnds(c, answered, again)
  PROVE  AfterIInv' /\ AfterStep
<1> DEFINE l == talk[c].lead
           a == talk[c].sdr
           new == [talk[c] EXCEPT !.state = "ended"]
           tried == [person[l] EXCEPT !.status = "retry_wait", !.at = hour + RetryDelay]
           over == [person[l] EXCEPT !.status = "completed", !.at = hour]
<1>1. /\ talk[c].state = "on" /\ talk' = [talk EXCEPT ![c] = new]
      /\ person' = IF ~talk[c].auto THEN person
                   ELSE [person EXCEPT ![l] = IF again THEN tried ELSE over]
      /\ UNCHANGED <<hour, promise, wrapping, waiting, intent>>
      /\ \/ /\ pauseOf' = [pauseOf EXCEPT ![c] = "open"]
            /\ currentPause' = [currentPause EXCEPT ![a] = c]
         \/ UNCHANGED <<pauseOf, currentPause>>
  BY DEF CallEnds
<1>2. /\ l \in People /\ a \in Agents /\ talk[c] \in TalkRows /\ talk[c].result = "none"
      /\ pauseOf[c] = "none" /\ Running(c) /\ person[l] \in PersonRows /\ hour \in Nat
      /\ currentPause[a] = Nobody
  BY <1>1, AfterOf DEF AfterIInv, TalksFit, PausesFit, Running
<1>3. /\ new \in TalkRows /\ new.state = "ended" /\ new.lead = l /\ new.sdr = a
      /\ new.result = "none"
  BY <1>2 DEF TalkRows
<1>4. (IF again THEN tried ELSE over) \in PersonRows
  <2>1. hour + RetryDelay \in Nat BY <1>2, AfterCallConstants
  <2>2. tried \in PersonRows
    <3> DEFINE at == hour + RetryDelay
    <3> HIDE DEF at
    <3>1. [person[l] EXCEPT !.status = "retry_wait", !.at = at] \in PersonRows
      BY <1>2, <2>1 DEF PersonRows, at
    <3> QED BY <3>1 DEF at
  <2>3. over \in PersonRows BY <1>2 DEF PersonRows
  <2> QED BY <2>2, <2>3
<1> HIDE DEF new, tried, over
<1>5. talk' \in [Talks -> TalkRows] /\ talk'[c] = new /\ \A d \in Talks : d # c => talk'[d] = talk[d]
  BY <1>1, <1>3 DEF AfterIInv, AfterTyped
<1>6. person' \in [People -> PersonRows] /\ \A p \in People : p # l => person'[p] = person[p]
  BY <1>1, <1>4 DEF AfterIInv, AfterTyped
<1>7. /\ pauseOf' \in [Talks -> {"none", "open", "over"}]
      /\ currentPause' \in [Agents -> Talks \cup {Nobody}]
      /\ \A d \in Talks : d # c => pauseOf'[d] = pauseOf[d]
      /\ \A b \in Agents : b # a => currentPause'[b] = currentPause[b]
      /\ \/ pauseOf'[c] = "open" /\ currentPause'[a] = c
         \/ pauseOf'[c] = "none" /\ currentPause'[a] = Nobody
  BY <1>1, <1>2 DEF AfterIInv, AfterTyped
<1>8. AfterTyped' BY <1>1, <1>5, <1>6, <1>7 DEF AfterIInv, AfterTyped
<1>9. TalksFit' BY <1>2, <1>3, <1>5, <1>7 DEF AfterIInv, TalksFit
<1>10. OneEach' /\ OneOfLead' BY <1>3, <1>5 DEF AfterIInv, OneEach, OneOfLead, Running
<1>11. /\ \A d \in Talks : d # c /\ Running(d) => talk[d].sdr # a /\ talk[d].lead # l
       /\ \A d \in Talks : d # c /\ pauseOf[d] = "open" => talk[d].sdr # a
       /\ \A b \in Agents : currentPause[b] # c
  BY <1>2, AfterOf DEF AfterIInv, OneEach, OneOfLead, PausesFit
<1>12. PausesFit'
  <2>1. ASSUME NEW d \in Talks
        PROVE  /\ Running(d)' => currentPause'[talk'[d].sdr] = Nobody
               /\ pauseOf'[d] = "open" => currentPause'[talk'[d].sdr] = d
    <3>1. CASE d = c BY <1>3, <1>5, <1>7, <3>1 DEF Running
    <3>2. CASE d # c
      <4>1. Running(d) => talk[d].sdr \in Agents \ {a} BY <1>11, <3>2, AfterOf DEF Running
      <4>2. pauseOf[d] = "open" => talk[d].sdr \in Agents \ {a}
        BY <1>11, <3>2, AfterOf DEF AfterIInv, TalksFit
      <4> QED BY <1>5, <1>7, <3>2, <4>1, <4>2 DEF AfterIInv, PausesFit, Running
    <3> QED BY <3>1, <3>2
  <2>2. ASSUME NEW b \in Agents, currentPause'[b] # Nobody
        PROVE  pauseOf'[currentPause'[b]] = "open" /\ talk'[currentPause'[b]].sdr = b
    <3>1. CASE b = a BY <1>3, <1>5, <1>7, <2>2, <3>1
    <3>2. CASE b # a
      <4>1. currentPause'[b] = currentPause[b] /\ currentPause[b] \in Talks \ {c}
        BY <1>7, <1>11, <2>2, <3>2 DEF AfterIInv, AfterTyped
      <4> QED BY <1>5, <1>7, <2>2, <4>1 DEF AfterIInv, PausesFit
    <3> QED BY <3>1, <3>2
  <2> QED BY <2>1, <2>2 DEF PausesFit, Running
<1>13. WrapsFit'
  <2>1. \A w \in wrapping : /\ w.talk \in Talks /\ w.talk # c /\ talk'[w.talk] = talk[w.talk]
                            /\ pauseOf'[w.talk] = pauseOf[w.talk]
    BY <1>2, <1>5, <1>7, AfterOf
  <2> QED BY <1>1, <2>1 DEF AfterIInv, WrapsFit
<1>14. WaitersFit'
  <2>1. \A d \in waiting : /\ d \in Talks /\ d # c /\ talk'[d] = talk[d] /\ talk[d].lead \in People
                           /\ talk[d].lead # l
    BY <1>1, <1>5, <1>11, AfterOf DEF AfterIInv, AfterTyped, WaitersFit, Running
  <2> QED BY <1>1, <1>6, <2>1, SameReturns DEF AfterIInv, WaitersFit
<1>15. ReturnsFit'
  <2>1. \A k \in Returns : promise[k].origin # Nobody =>
          promise[k].origin \in Talks \ {c} /\ pauseOf'[promise[k].origin] = "over"
    BY <1>2, <1>7 DEF AfterIInv, AfterTyped, ReturnRows, ReturnsFit
  <2> QED BY <1>1, <2>1 DEF AfterIInv, ReturnsFit
<1>16. IntentOnce' BY <1>1 DEF AfterIInv, IntentOnce
<1>17. AfterStep BY <1>1, <1>2, <1>3, <1>5 DEF AfterStep, NoneOverAPromise, WrittenOnce
<1> QED BY <1>8, <1>9, <1>10, <1>12, <1>13, <1>14, <1>15, <1>16, <1>17 DEF AfterIInv

\* What a wrap-up does to the pause of its agent, and a redeemed intent, that ends one.
LEMMA PauseEnds ==
  ASSUME AfterIInv, NEW c \in Talks, pauseOf[c] = "open",
         pauseOf' = [pauseOf EXCEPT ![c] = "over"],
         currentPause' = IF currentPause[talk[c].sdr] = c
                         THEN [currentPause EXCEPT ![talk[c].sdr] = Nobody] ELSE currentPause,
         \A d \in Talks : /\ talk'[d].state = talk[d].state /\ talk'[d].lead = talk[d].lead
                          /\ talk'[d].sdr = talk[d].sdr
                          /\ d # c => talk'[d] = talk[d]
  PROVE  /\ talk[c].state = "ended" /\ talk[c].sdr \in Agents /\ talk[c].lead \in People
         /\ talk[c].result = "none"
         /\ pauseOf' \in [Talks -> {"none", "open", "over"}]
         /\ currentPause' \in [Agents -> Talks \cup {Nobody}]
         /\ pauseOf'[c] = "over" /\ \A d \in Talks : d # c => pauseOf'[d] = pauseOf[d]
         /\ TalksFit' /\ OneEach' /\ OneOfLead' /\ PausesFit'
<1> DEFINE a == talk[c].sdr
<1>1. /\ talk[c].state = "ended" /\ talk[c].result = "none" BY DEF AfterIInv, TalksFit
<1>2. a \in Agents /\ talk[c].lead \in People /\ currentPause[a] = c
  BY <1>1 DEF AfterIInv, TalksFit, PausesFit
<1>3. /\ pauseOf' \in [Talks -> {"none", "open", "over"}]
      /\ currentPause' \in [Agents -> Talks \cup {Nobody}]
      /\ pauseOf'[c] = "over" /\ \A d \in Talks : d # c => pauseOf'[d] = pauseOf[d]
      /\ currentPause'[a] = Nobody /\ \A b \in Agents : b # a => currentPause'[b] = currentPause[b]
  BY <1>2 DEF AfterIInv, AfterTyped
<1>4. TalksFit'
  <2> SUFFICES ASSUME NEW d \in Talks
               PROVE  /\ talk'[d].state # "none" => talk'[d].lead \in People /\ talk'[d].sdr \in Agents
                      /\ talk'[d].state # "ended" => pauseOf'[d] = "none" /\ talk'[d].result = "none"
                      /\ pauseOf'[d] = "open" => talk'[d].result = "none"
    BY DEF TalksFit
  <2>1. CASE d = c BY <1>1, <1>2, <1>3, <2>1
  <2>2. CASE d # c BY <1>3, <2>2 DEF AfterIInv, TalksFit
  <2> QED BY <2>1, <2>2
<1>5. OneEach' /\ OneOfLead' BY DEF AfterIInv, OneEach, OneOfLead, Running
<1>6. PausesFit'
  <2>1. ASSUME NEW d \in Talks
        PROVE  /\ Running(d)' => currentPause'[talk'[d].sdr] = Nobody
               /\ pauseOf'[d] = "open" => currentPause'[talk'[d].sdr] = d
    <3>1. talk[d].state # "none" => talk[d].sdr \in Agents BY DEF AfterIInv, TalksFit
    <3>2. pauseOf[d] = "open" => talk[d].state = "ended" BY DEF AfterIInv, TalksFit
    <3>3. d # c /\ pauseOf[d] = "open" => talk[d].sdr # a BY <1>2 DEF AfterIInv, PausesFit
    <3>4. d = c => ~Running(d)' /\ pauseOf'[d] # "open" BY <1>1, <1>3 DEF Running
    <3> QED BY <1>3, <3>1, <3>2, <3>3, <3>4 DEF AfterIInv, PausesFit, Running
  <2>2. ASSUME NEW b \in Agents, currentPause'[b] # Nobody
        PROVE  pauseOf'[currentPause'[b]] = "open" /\ talk'[currentPause'[b]].sdr = b
    <3>1. b # a /\ currentPause'[b] = currentPause[b] BY <1>3, <2>2
    <3>2. /\ currentPause[b] \in Talks /\ pauseOf[currentPause[b]] = "open"
          /\ talk[currentPause[b]].sdr = b
      BY <2>2, <3>1 DEF AfterIInv, AfterTyped, PausesFit
    <3>3. currentPause[b] # c BY <3>1, <3>2
    <3> QED BY <1>3, <3>1, <3>2, <3>3
  <2> QED BY <2>1, <2>2 DEF PausesFit, Running
<1> QED BY <1>1, <1>2, <1>3, <1>4, <1>5, <1>6

LEMMA StepWrapUpBegins ==
  ASSUME AfterIInv, NEW c \in Talks, NEW result \in Results, NEW due \in 0..LastHour,
         WrapUpBegins(c, result, due)
  PROVE  AfterIInv' /\ AfterStep
<1> DEFINE new == [talk |-> c, result |-> result, due |-> due]
<1>1. /\ pauseOf[c] = "open" /\ ~RowHeld(talk[c].lead) /\ (result = "retornar" => due > hour)
      /\ wrapping' = wrapping \cup {new}
      /\ UNCHANGED <<hour, person, talk, pauseOf, currentPause, promise, waiting, intent>>
  BY DEF WrapUpBegins
<1>2. new \in WrapRows /\ new.talk = c /\ new.result = result /\ new.due = due BY DEF WrapRows
<1> HIDE DEF new
<1>3. AfterTyped' BY <1>1, <1>2 DEF AfterIInv, AfterTyped
<1>4. WrapsFit' BY <1>1, <1>2 DEF AfterIInv, WrapsFit, RowHeld
<1>5. TalksFit' /\ OneEach' /\ OneOfLead' /\ PausesFit'
  BY <1>1 DEF AfterIInv, TalksFit, OneEach, OneOfLead, PausesFit, Running
<1>6. WaitersFit' /\ ReturnsFit' /\ IntentOnce'
  BY <1>1, SameReturns DEF AfterIInv, WaitersFit, ReturnsFit, IntentOnce
<1>7. AfterStep BY <1>1 DEF AfterStep, NoneOverAPromise, WrittenOnce
<1> QED BY <1>3, <1>4, <1>5, <1>6, <1>7 DEF AfterIInv

\* The returns of a lead after a wrap-up: one at most, of this conversation.
LEMMA ReturnsAfter ==
  ASSUME AfterIInv, NEW w \in wrapping, WrapUpCommits(w)
  PROVE  /\ promise' \in [Returns -> ReturnRows] /\ ReturnsFit'
         /\ \A k \in Returns : promise[k].status \notin OpenReturn \cup {"none"} => promise'[k] = promise[k]
         /\ \A l \in People : l # talk[w.talk].lead => OpenOf(l)' \subseteq OpenOf(l)
         /\ \A l \in People : l = talk[w.talk].lead /\ w.result # "retornar" => OpenOf(l)' = {}
<1> DEFINE c == w.talk
           l == talk[c].lead
           done == {k \in OpenOf(l) : promise[k].origin # c}
           new == Agreed(c, w.due)
           closedOf(k) == [promise[k] EXCEPT !.status = "completed"]
           said(k) == IF k \in done THEN closedOf(k) ELSE promise[k]
<1>1. /\ c \in Talks /\ pauseOf[c] = "open" /\ talk[c].state = "ended" /\ w.due \in Nat
      /\ l \in People /\ talk[c].sdr \in Agents /\ Nobody \notin Talks
  BY AfterOf
<1>2. pauseOf' = [pauseOf EXCEPT ![c] = "over"] BY DEF WrapUpCommits
<1>3. \/ /\ w.result = "retornar"
         /\ \E k \in Returns : promise[k].status = "none" /\ promise' = [Concluded(c, done) EXCEPT ![k] = new]
      \/ w.result # "retornar" /\ promise' = Concluded(c, done)
  BY DEF WrapUpCommits
<1>4. \A k \in Returns : promise[k] \in ReturnRows BY AfterOf
<1>5. /\ new \in ReturnRows /\ new.status = "pending" /\ new.lead = l /\ new.origin = c
  BY <1>1 DEF Agreed, ReturnRows, OpenReturn
<1>6. \A k \in Returns : /\ closedOf(k) \in ReturnRows /\ closedOf(k).status = "completed"
                         /\ closedOf(k).origin = promise[k].origin /\ closedOf(k).lead = promise[k].lead
  BY <1>4 DEF ReturnRows
<1>7. "completed" \notin OpenReturn /\ "pending" \in OpenReturn /\ "none" \notin OpenReturn BY DEF OpenReturn
<1>8. done = OpenOf(l)
  <2>1. \A k \in Returns : promise[k].origin # c
    BY <1>1 DEF AfterIInv, ReturnsFit
  <2> QED BY <2>1 DEF OpenOf
<1>9. Concluded(c, done) = [k \in Returns |-> said(k)] BY DEF Concluded
<1> HIDE DEF new, closedOf, done
<1>10. \A k \in Returns : /\ said(k) \in ReturnRows /\ said(k).origin = promise[k].origin
                          /\ said(k).lead = promise[k].lead
                          /\ said(k).status \in OpenReturn => k \notin done /\ said(k) = promise[k]
                          /\ promise[k].status \notin OpenReturn => said(k) = promise[k]
  BY <1>4, <1>6, <1>7, <1>8 DEF OpenOf
<1> HIDE DEF said
<1>11. CASE w.result # "retornar" /\ promise' = Concluded(c, done)
  <2>1. promise' \in [Returns -> ReturnRows] /\ \A k \in Returns : promise'[k] = said(k)
    BY <1>9, <1>10, <1>11
  <2>2. ReturnsFit'
    <3>1. \A k \in Returns : promise'[k].origin # Nobody => pauseOf'[promise'[k].origin] = "over"
      BY <1>1, <1>2, <1>10, <2>1 DEF AfterIInv, AfterTyped, ReturnsFit, ReturnRows
    <3> QED BY <1>10, <2>1, <3>1 DEF AfterIInv, ReturnsFit
  <2>3. \A p \in People : OpenOf(p)' \subseteq OpenOf(p) /\ (p = l => OpenOf(p)' = {})
    BY <1>8, <1>10, <2>1 DEF OpenOf
  <2>4. \A k \in Returns : promise[k].status \notin OpenReturn \cup {"none"} => promise'[k] = promise[k]
    BY <1>10, <2>1
  <2>5. \A p \in People : p # l => OpenOf(p)' \subseteq OpenOf(p) BY <2>3
  <2>6. \A p \in People : p = l => OpenOf(p)' = {} BY <2>3
  <2> QED BY <2>1, <2>2, <2>4, <2>5, <2>6
<1>12. CASE w.result = "retornar" /\ \E k \in Returns : promise[k].status = "none"
                                                        /\ promise' = [Concluded(c, done) EXCEPT ![k] = new]
  <2>1. PICK j \in Returns : promise[j].status = "none" /\ promise' = [Concluded(c, done) EXCEPT ![j] = new]
    BY <1>12
  <2>2. /\ promise' \in [Returns -> ReturnRows] /\ promise'[j] = new
        /\ \A k \in Returns : k # j => promise'[k] = said(k)
    BY <1>5, <1>9, <1>10, <2>1
  <2>3. ReturnsFit'
    <3>1. \A k \in Returns : promise'[k].origin # Nobody => pauseOf'[promise'[k].origin] = "over"
      BY <1>1, <1>2, <1>5, <1>10, <2>2 DEF AfterIInv, AfterTyped, ReturnsFit, ReturnRows
    <3>2. \A k \in Returns : k # j /\ promise'[k].status \in OpenReturn => promise'[k].lead # l
      BY <1>8, <1>10, <2>2 DEF OpenOf
    <3> QED BY <1>5, <1>10, <2>2, <3>1, <3>2 DEF AfterIInv, ReturnsFit
  <2>4. \A p \in People : p # l => OpenOf(p)' \subseteq OpenOf(p)
    BY <1>5, <1>10, <2>2 DEF OpenOf
  <2>5. \A k \in Returns : promise[k].status \notin OpenReturn \cup {"none"} => promise'[k] = promise[k]
    BY <1>10, <2>1, <2>2
  <2> QED BY <1>12, <2>2, <2>3, <2>4, <2>5
<1> QED BY <1>3, <1>11, <1>12
LEMMA StepWrapUpCommits ==
  ASSUME AfterIInv, NEW w \in wrapping, WrapUpCommits(w) PROVE AfterIInv' /\ AfterStep
<1> DEFINE c == w.talk
           l == talk[c].lead
           new == [talk[c] EXCEPT !.result = w.result]
           later == [person[l] EXCEPT !.status = "retry_wait", !.at = w.due]
           refused == [person[l] EXCEPT !.suppressed = TRUE]
           so == IF w.result = "retornar" THEN later
                 ELSE IF w.result = "nao_ligar_novamente" THEN refused ELSE person[l]
<1>1. /\ c \in Talks /\ pauseOf[c] = "open" /\ talk[c].state = "ended" /\ w.due \in Nat
      /\ l \in People /\ talk[c] \in TalkRows /\ person[l] \in PersonRows /\ w.result \in Results
      /\ w.result = "retornar" => w.due > hour
  BY AfterOf DEF AfterIInv, WrapsFit
<1>2. /\ wrapping' = wrapping \ {w} /\ pauseOf' = [pauseOf EXCEPT ![c] = "over"]
      /\ talk' = [talk EXCEPT ![c] = new]
      /\ currentPause' = IF currentPause[talk[c].sdr] = c
                         THEN [currentPause EXCEPT ![talk[c].sdr] = Nobody] ELSE currentPause
      /\ UNCHANGED <<hour, waiting, intent>>
  BY DEF WrapUpCommits
<1>3. person' = [person EXCEPT ![l] = so]
  BY <1>1 DEF WrapUpCommits, PutOff, AfterIInv, AfterTyped
<1>4. /\ new \in TalkRows /\ new.state = talk[c].state /\ new.lead = l /\ new.sdr = talk[c].sdr
      /\ new.result = w.result
  BY <1>1 DEF TalkRows
<1>5. so \in PersonRows /\ (w.result = "retornar" => so.at = w.due)
  <2>1. later \in PersonRows /\ later.at = w.due BY <1>1 DEF PersonRows
  <2>2. refused \in PersonRows BY <1>1 DEF PersonRows
  <2> QED BY <1>1, <2>1, <2>2
<1> HIDE DEF new, later, refused, so
<1>6. talk' \in [Talks -> TalkRows] /\ talk'[c] = new /\ \A d \in Talks : d # c => talk'[d] = talk[d]
  BY <1>1, <1>2, <1>4 DEF AfterIInv, AfterTyped
<1>7. /\ person' \in [People -> PersonRows] /\ person'[l] = so
      /\ \A p \in People : p # l => person'[p] = person[p]
  BY <1>1, <1>3, <1>5 DEF AfterIInv, AfterTyped
<1>8. \A d \in Talks : /\ talk'[d].state = talk[d].state /\ talk'[d].lead = talk[d].lead
                       /\ talk'[d].sdr = talk[d].sdr
                       /\ d # c => talk'[d] = talk[d]
  BY <1>4, <1>6
<1>9. /\ talk[c].result = "none"
      /\ pauseOf' \in [Talks -> {"none", "open", "over"}]
      /\ currentPause' \in [Agents -> Talks \cup {Nobody}]
      /\ pauseOf'[c] = "over" /\ \A d \in Talks : d # c => pauseOf'[d] = pauseOf[d]
      /\ TalksFit' /\ OneEach' /\ OneOfLead' /\ PausesFit'
  BY <1>1, <1>2, <1>8, PauseEnds
<1>10. /\ promise' \in [Returns -> ReturnRows] /\ ReturnsFit'
       /\ \A k \in Returns : promise[k].status \notin OpenReturn \cup {"none"} => promise'[k] = promise[k]
       /\ \A p \in People : p # l => OpenOf(p)' \subseteq OpenOf(p)
       /\ \A p \in People : p = l /\ w.result # "retornar" => OpenOf(p)' = {}
  BY ReturnsAfter
<1>11. AfterTyped' BY <1>2, <1>6, <1>7, <1>9, <1>10 DEF AfterIInv, AfterTyped
<1>12. WrapsFit'
  <2>1. \A v \in wrapping : v.talk = c => v = w BY DEF AfterIInv, WrapsFit
  <2>2. \A v \in wrapping' : /\ v \in wrapping /\ v.talk \in Talks /\ v.talk # c
                             /\ talk'[v.talk] = talk[v.talk] /\ pauseOf'[v.talk] = pauseOf[v.talk]
    BY <1>2, <1>6, <1>9, <2>1, AfterOf
  <2> QED BY <1>2, <2>2 DEF AfterIInv, WrapsFit
<1>13. WaitersFit'
  <2> SUFFICES ASSUME NEW d \in waiting
               PROVE  /\ talk'[d].state = "starting"
                      /\ talk'[d].auto => \A p \in People : p = talk'[d].lead =>
                           \/ OpenOf(p)' = {}
                           \/ person'[p].suppressed \/ person'[p].at > hour
    <3>1. \A d \in waiting : talk'[d].state = "starting" => talk'[d].lead \in People
      BY <1>6, <1>8, AfterOf DEF AfterIInv, AfterTyped
    <3> QED BY <1>2, <3>1 DEF WaitersFit, OpenOf
  <2>1. d \in Talks /\ talk[d].state = "starting" /\ d # c /\ talk'[d] = talk[d]
    BY <1>1, <1>6 DEF AfterIInv, AfterTyped, WaitersFit
  <2> SUFFICES ASSUME talk[d].auto, NEW p \in People, p = talk[d].lead
               PROVE  \/ OpenOf(p)' = {}
                      \/ person'[p].suppressed \/ person'[p].at > hour
    BY <2>1
  <2>2. CASE p = l
    <3>1. CASE w.result = "retornar" BY <1>1, <1>5, <1>7, <2>2, <3>1
    <3>2. CASE w.result # "retornar" BY <1>10, <2>2, <3>2
    <3> QED BY <3>1, <3>2
  <2>3. CASE p # l
    <3>1. OpenOf(p) = {} \/ person[p].suppressed \/ person[p].at > hour BY DEF AfterIInv, WaitersFit
    <3> QED BY <1>7, <1>10, <2>3, <3>1
  <2> QED BY <2>2, <2>3
<1>14. IntentOnce' BY <1>2 DEF AfterIInv, IntentOnce
<1>15. NoneOverAPromise BY <1>8 DEF NoneOverAPromise
<1>16. WrittenOnce BY <1>6, <1>9, <1>10 DEF WrittenOnce
<1> QED BY <1>9, <1>10, <1>11, <1>12, <1>13, <1>14, <1>15, <1>16 DEF AfterIInv, AfterStep

LEMMA StepWrapUpUndone ==
  ASSUME AfterIInv, NEW w \in wrapping, WrapUpUndone(w) PROVE AfterIInv' /\ AfterStep
<1>1. /\ wrapping' = wrapping \ {w}
      /\ UNCHANGED <<hour, person, talk, pauseOf, currentPause, promise, waiting, intent>>
  BY DEF WrapUpUndone
<1>2. AfterTyped' /\ WrapsFit' BY <1>1 DEF AfterIInv, AfterTyped, WrapsFit
<1>3. TalksFit' /\ OneEach' /\ OneOfLead' /\ PausesFit'
  BY <1>1 DEF AfterIInv, TalksFit, OneEach, OneOfLead, PausesFit, Running
<1>4. WaitersFit' /\ ReturnsFit' /\ IntentOnce'
  BY <1>1, SameReturns DEF AfterIInv, WaitersFit, ReturnsFit, IntentOnce
<1>5. AfterStep BY <1>1 DEF AfterStep, NoneOverAPromise, WrittenOnce
<1> QED BY <1>2, <1>3, <1>4, <1>5 DEF AfterIInv

\* A change of the returns alone that opens none and writes none that has ended.
LEMMA ReturnsChange ==
  ASSUME AfterIInv, promise' \in [Returns -> ReturnRows],
         UNCHANGED <<hour, person, talk, pauseOf, currentPause, wrapping, waiting, intent>>,
         \A k \in Returns : \/ promise'[k] = promise[k]
                            \/ /\ promise[k].status \in OpenReturn
                               /\ promise'[k].lead = promise[k].lead
                               /\ promise'[k].origin = promise[k].origin
  PROVE  AfterIInv' /\ AfterStep
<1>1. AfterTyped' BY DEF AfterIInv, AfterTyped
<1>2. TalksFit' /\ OneEach' /\ OneOfLead' /\ PausesFit' /\ WrapsFit' /\ IntentOnce'
  BY DEF AfterIInv, TalksFit, OneEach, OneOfLead, PausesFit, WrapsFit, IntentOnce, Running
<1>3. \A p : OpenOf(p)' \subseteq OpenOf(p) BY DEF OpenOf
<1>4. WaitersFit' BY <1>3 DEF AfterIInv, WaitersFit
<1>5. ReturnsFit' BY DEF AfterIInv, ReturnsFit
<1>6. AfterStep BY DEF AfterStep, NoneOverAPromise, WrittenOnce, OpenReturn
<1> QED BY <1>1, <1>2, <1>4, <1>5, <1>6 DEF AfterIInv

LEMMA StepDue ==
  ASSUME AfterIInv, DueTransition PROVE AfterIInv' /\ AfterStep
<1> DEFINE ripe == {k \in Returns : promise[k].status \in {"pending", "reassigned"}
                                    /\ promise[k].due <= hour}
           met(k) == [promise[k] EXCEPT !.status = "due"]
           said(k) == IF k \in ripe THEN met(k) ELSE promise[k]
<1>1. /\ promise' = [k \in Returns |-> said(k)]
      /\ UNCHANGED <<hour, person, talk, pauseOf, currentPause, wrapping, waiting, intent>>
  BY DEF DueTransition
<1>2. \A k \in Returns : promise[k] \in ReturnRows BY AfterOf
<1>3. \A k \in Returns : /\ met(k) \in ReturnRows /\ met(k).lead = promise[k].lead
                         /\ met(k).origin = promise[k].origin
  BY <1>2 DEF ReturnRows, OpenReturn
<1> HIDE DEF met
<1>4. \A k \in Returns : /\ said(k) \in ReturnRows
                         /\ \/ said(k) = promise[k]
                            \/ /\ promise[k].status \in OpenReturn
                               /\ said(k).lead = promise[k].lead /\ said(k).origin = promise[k].origin
  BY <1>2, <1>3 DEF OpenReturn
<1> HIDE DEF said
<1>5. promise' \in [Returns -> ReturnRows] /\ \A k \in Returns : promise'[k] = said(k) BY <1>1, <1>4
<1> QED BY <1>1, <1>4, <1>5, ReturnsChange

LEMMA StepChanges ==
  ASSUME AfterIInv, NEW k \in Returns, NEW to, Changes(k, to), to \in ReturnRows,
         to.lead = promise[k].lead, to.origin = promise[k].origin
  PROVE  AfterIInv' /\ AfterStep
<1>1. /\ promise[k].status \in OpenReturn /\ promise' = [promise EXCEPT ![k] = to]
      /\ UNCHANGED <<hour, person, talk, pauseOf, currentPause, wrapping, waiting, intent>>
  BY DEF Changes, StillOpen
<1>2. /\ promise' \in [Returns -> ReturnRows] /\ promise'[k] = to
      /\ \A j \in Returns : j # k => promise'[j] = promise[j]
  BY <1>1 DEF AfterIInv, AfterTyped
<1> QED BY <1>1, <1>2, ReturnsChange

LEMMA StepReschedule ==
  ASSUME AfterIInv, NEW k \in Returns, NEW due \in 0..LastHour, reschedule(k, due)
  PROVE  AfterIInv' /\ AfterStep
<1> DEFINE to == [promise[k] EXCEPT !.status = "pending", !.due = due]
<1>1. promise[k] \in ReturnRows /\ due \in Nat BY AfterOf
<1>2. to \in ReturnRows /\ to.lead = promise[k].lead /\ to.origin = promise[k].origin
  BY <1>1 DEF ReturnRows, OpenReturn
<1>3. Changes(k, to) BY DEF reschedule
<1> HIDE DEF to
<1> QED BY <1>2, <1>3, StepChanges

LEMMA StepReassign ==
  ASSUME AfterIInv, NEW k \in Returns, NEW a \in Agents \cup {Nobody}, reassign(k, a)
  PROVE  AfterIInv' /\ AfterStep
<1> DEFINE to == [promise[k] EXCEPT !.status = "reassigned", !.owner = a]
<1>1. promise[k] \in ReturnRows BY AfterOf
<1>2. to \in ReturnRows /\ to.lead = promise[k].lead /\ to.origin = promise[k].origin
  BY <1>1 DEF ReturnRows, OpenReturn
<1>3. Changes(k, to) BY DEF reassign
<1> HIDE DEF to
<1> QED BY <1>2, <1>3, StepChanges

LEMMA StepCancel ==
  ASSUME AfterIInv, NEW k \in Returns, cancel(k) PROVE AfterIInv' /\ AfterStep
<1>1. PICK status \in {"cancelled", "missed"} : Changes(k, [promise[k] EXCEPT !.status = status])
  BY DEF cancel
<1> DEFINE to == [promise[k] EXCEPT !.status = status]
<1>2. promise[k] \in ReturnRows BY AfterOf
<1>3. to \in ReturnRows /\ to.lead = promise[k].lead /\ to.origin = promise[k].origin
  BY <1>2 DEF ReturnRows
<1>4. Changes(k, to) BY <1>1
<1> HIDE DEF to
<1> QED BY <1>3, <1>4, StepChanges
LEMMA StepCreateIntent ==
  ASSUME AfterIInv, NEW i \in Intents, NEW a \in Agents, createDialIntent(i, a)
  PROVE  AfterIInv' /\ AfterStep
<1> DEFINE handed == [sdr |-> a, until |-> hour + IntentTTL, used |-> 0]
<1>1. /\ intent' = [intent EXCEPT ![i] = handed]
      /\ UNCHANGED <<hour, person, talk, pauseOf, currentPause, promise, wrapping, waiting>>
  BY DEF createDialIntent
<1>2. handed \in IntentRows /\ handed.used = 0
  <2>1. hour + IntentTTL \in Nat BY AfterOf, AfterCallConstants
  <2> QED BY <2>1 DEF IntentRows
<1> HIDE DEF handed
<1>3. AfterTyped' /\ IntentOnce' BY <1>1, <1>2 DEF AfterIInv, AfterTyped, IntentOnce
<1>4. TalksFit' /\ OneEach' /\ OneOfLead' /\ PausesFit' /\ WrapsFit'
  BY <1>1 DEF AfterIInv, TalksFit, OneEach, OneOfLead, PausesFit, WrapsFit, Running
<1>5. WaitersFit' /\ ReturnsFit' BY <1>1, SameReturns DEF AfterIInv, WaitersFit, ReturnsFit
<1>6. AfterStep BY <1>1 DEF AfterStep, NoneOverAPromise, WrittenOnce
<1> QED BY <1>3, <1>4, <1>5, <1>6 DEF AfterIInv

\* An intent redeemed ends a pause of its agent that no wrap-up holds.
LEMMA StepDialIntent ==
  ASSUME AfterIInv, NEW i \in Intents, NEW a \in Agents, dialFromIntent(i, a)
  PROVE  AfterIInv' /\ AfterStep
<1> DEFINE c == currentPause[a]
           spent == [intent[i] EXCEPT !.used = @ + 1]
<1>1. /\ intent[i].used = 0 /\ intent' = [intent EXCEPT ![i] = spent]
      /\ UNCHANGED <<hour, person, talk, promise, wrapping, waiting>>
      /\ \/ UNCHANGED <<pauseOf, currentPause>>
         \/ /\ c # Nobody /\ \A w \in wrapping : w.talk # c
            /\ pauseOf' = [pauseOf EXCEPT ![c] = "over"]
            /\ currentPause' = [currentPause EXCEPT ![a] = Nobody]
  BY DEF dialFromIntent, Live
<1>2. intent[i] \in IntentRows BY DEF AfterIInv, AfterTyped
<1>3. spent \in IntentRows /\ spent.used = 1 BY <1>1, <1>2 DEF IntentRows
<1> HIDE DEF spent
<1>4. intent' \in [Intents -> IntentRows] /\ IntentOnce'
  BY <1>1, <1>3 DEF AfterIInv, AfterTyped, IntentOnce
<1>5. /\ pauseOf' \in [Talks -> {"none", "open", "over"}]
      /\ currentPause' \in [Agents -> Talks \cup {Nobody}]
      /\ TalksFit' /\ OneEach' /\ OneOfLead' /\ PausesFit' /\ WrapsFit'
      /\ \A d \in Talks : pauseOf[d] = "over" => pauseOf'[d] = "over"
  <2>1. CASE UNCHANGED <<pauseOf, currentPause>>
    BY <1>1, <2>1 DEF AfterIInv, AfterTyped, TalksFit, OneEach, OneOfLead, PausesFit, WrapsFit, Running
  <2>2. CASE /\ c # Nobody /\ \A w \in wrapping : w.talk # c
             /\ pauseOf' = [pauseOf EXCEPT ![c] = "over"]
             /\ currentPause' = [currentPause EXCEPT ![a] = Nobody]
    <3>1. c \in Talks /\ pauseOf[c] = "open" /\ talk[c].sdr = a
      BY <2>2 DEF AfterIInv, AfterTyped, PausesFit
    <3>2. currentPause' = IF currentPause[talk[c].sdr] = c
                          THEN [currentPause EXCEPT ![talk[c].sdr] = Nobody] ELSE currentPause
      BY <2>2, <3>1
    <3>3. \A d \in Talks : /\ talk'[d].state = talk[d].state /\ talk'[d].lead = talk[d].lead
                           /\ talk'[d].sdr = talk[d].sdr
                           /\ d # c => talk'[d] = talk[d]
      BY <1>1
    <3>4. /\ pauseOf' \in [Talks -> {"none", "open", "over"}]
          /\ currentPause' \in [Agents -> Talks \cup {Nobody}]
          /\ pauseOf'[c] = "over" /\ \A d \in Talks : d # c => pauseOf'[d] = pauseOf[d]
          /\ TalksFit' /\ OneEach' /\ OneOfLead' /\ PausesFit'
      BY <2>2, <3>1, <3>2, <3>3, PauseEnds
    <3>5. WrapsFit'
      <4>1. \A w \in wrapping : w.talk \in Talks /\ pauseOf'[w.talk] = pauseOf[w.talk]
        BY <2>2, <3>4, AfterOf
      <4> QED BY <1>1, <4>1 DEF AfterIInv, WrapsFit
    <3> QED BY <3>4, <3>5
  <2> QED BY <1>1, <2>1, <2>2
<1>6. AfterTyped' BY <1>1, <1>4, <1>5 DEF AfterIInv, AfterTyped
<1>7. ReturnsFit'
  <2>1. \A k \in Returns : promise[k].origin # Nobody => promise[k].origin \in Talks
    BY DEF AfterIInv, AfterTyped, ReturnRows
  <2> QED BY <1>1, <1>5, <2>1 DEF AfterIInv, ReturnsFit
<1>8. WaitersFit' BY <1>1, SameReturns DEF AfterIInv, WaitersFit
<1>9. AfterStep BY <1>1 DEF AfterStep, NoneOverAPromise, WrittenOnce
<1> QED BY <1>4, <1>5, <1>6, <1>7, <1>8, <1>9 DEF AfterIInv

LEMMA StepHourPasses ==
  ASSUME AfterIInv, HourPasses PROVE AfterIInv' /\ AfterStep
<1>1. /\ wrapping = {} /\ waiting = {} /\ hour' = hour + 1
      /\ UNCHANGED <<person, talk, pauseOf, currentPause, promise, wrapping, waiting, intent>>
  BY DEF HourPasses
<1>2. hour' \in Nat BY <1>1, AfterOf
<1>3. AfterTyped' BY <1>1, <1>2 DEF AfterIInv, AfterTyped
<1>4. TalksFit' /\ OneEach' /\ OneOfLead' /\ PausesFit'
  BY <1>1 DEF AfterIInv, TalksFit, OneEach, OneOfLead, PausesFit, Running
<1>5. WrapsFit' /\ WaitersFit' BY <1>1 DEF WrapsFit, WaitersFit
<1>6. ReturnsFit' /\ IntentOnce' BY <1>1 DEF AfterIInv, ReturnsFit, IntentOnce
<1>7. AfterStep BY <1>1 DEF AfterStep, NoneOverAPromise, WrittenOnce
<1> QED BY <1>3, <1>4, <1>5, <1>6, <1>7 DEF AfterIInv

LEMMA StepNothingAfter ==
  ASSUME AfterIInv, UNCHANGED afterVars PROVE AfterIInv' /\ AfterStep
<1>1. UNCHANGED <<hour, person, talk, pauseOf, currentPause, promise, wrapping, waiting, intent>>
  BY DEF afterVars
<1>2. AfterTyped' /\ IntentOnce' BY <1>1 DEF AfterIInv, AfterTyped, IntentOnce
<1>3. TalksFit' /\ OneEach' /\ OneOfLead' /\ PausesFit' /\ WrapsFit'
  BY <1>1 DEF AfterIInv, TalksFit, OneEach, OneOfLead, PausesFit, WrapsFit, Running
<1>4. WaitersFit' /\ ReturnsFit' BY <1>1, SameReturns DEF AfterIInv, WaitersFit, ReturnsFit
<1>5. AfterStep BY <1>1 DEF AfterStep, NoneOverAPromise, WrittenOnce
<1> QED BY <1>2, <1>3, <1>4, <1>5 DEF AfterIInv

LEMMA StepAfter == AfterIInv /\ [AfterNext]_afterVars => AfterIInv' /\ AfterStep
<1> SUFFICES ASSUME AfterIInv, [AfterNext]_afterVars PROVE AfterIInv' /\ AfterStep OBVIOUS
<1>1. ASSUME NEW c \in Talks, NEW l \in People, NEW a \in Agents, NEW auto \in BOOLEAN,
             Start(c, l, a, auto) \/ StartWaits(c, l, a, auto)
      PROVE  AfterIInv' /\ AfterStep
  BY <1>1, StepStart, StepStartWaits
<1>2. ASSUME NEW c \in Talks,
             \/ StartGoesOn(c)
             \/ \E answered, again \in BOOLEAN : CallEnds(c, answered, again)
             \/ \E result \in Results, due \in 0..LastHour : WrapUpBegins(c, result, due)
      PROVE  AfterIInv' /\ AfterStep
  BY <1>2, StepStartGoesOn, StepCallEnds, StepWrapUpBegins
<1>3. ASSUME NEW w \in wrapping, WrapUpCommits(w) \/ WrapUpUndone(w) PROVE AfterIInv' /\ AfterStep
  BY <1>3, StepWrapUpCommits, StepWrapUpUndone
<1>4. ASSUME NEW k \in Returns,
             \/ \E due \in 0..LastHour : reschedule(k, due)
             \/ \E a \in Agents \cup {Nobody} : reassign(k, a)
             \/ cancel(k)
      PROVE  AfterIInv' /\ AfterStep
  BY <1>4, StepReschedule, StepReassign, StepCancel
<1>5. ASSUME NEW i \in Intents, NEW a \in Agents, createDialIntent(i, a) \/ dialFromIntent(i, a)
      PROVE  AfterIInv' /\ AfterStep
  BY <1>5, StepCreateIntent, StepDialIntent
<1> QED BY <1>1, <1>2, <1>3, <1>4, <1>5, StepDue, StepHourPasses, StepNothingAfter DEF AfterNext

LEMMA InitAfter == AfterInit => AfterIInv
<1> SUFFICES ASSUME AfterInit PROVE AfterIInv OBVIOUS
<1> DEFINE fresh == [status |-> "queued", at |-> 0, suppressed |-> FALSE]
           unmade == [sdr |-> Nobody, until |-> 0, used |-> 0]
<1>1. fresh \in PersonRows /\ NoTalk \in TalkRows /\ NoReturn \in ReturnRows /\ unmade \in IntentRows
  BY DEF PersonRows, TalkRows, ReturnRows, IntentRows, NoTalk, NoReturn
<1>2. /\ NoTalk.state = "none" /\ NoTalk.result = "none" /\ NoReturn.status = "none"
      /\ NoReturn.origin = Nobody /\ unmade.used = 0
  BY DEF NoTalk, NoReturn
<1> HIDE DEF fresh, unmade
<1>3. /\ hour = 0 /\ person = [l \in People |-> fresh] /\ talk = [c \in Talks |-> NoTalk]
      /\ pauseOf = [c \in Talks |-> "none"] /\ currentPause = [a \in Agents |-> Nobody]
      /\ promise = [k \in Returns |-> NoReturn] /\ wrapping = {} /\ waiting = {}
      /\ intent = [i \in Intents |-> unmade]
  BY DEF AfterInit, fresh, unmade
<1>4. AfterTyped BY <1>1, <1>3 DEF AfterTyped
<1>5. TalksFit /\ OneEach /\ OneOfLead /\ PausesFit /\ WrapsFit /\ WaitersFit
  BY <1>2, <1>3 DEF TalksFit, OneEach, OneOfLead, PausesFit, WrapsFit, WaitersFit, Running
<1>6. ReturnsFit /\ IntentOnce BY <1>2, <1>3 DEF ReturnsFit, IntentOnce, OpenReturn
<1> QED BY <1>4, <1>5, <1>6 DEF AfterIInv

\* After every conversation: a lead is promised one return at a time, a pause that is open holds
\* its agent and one that holds an agent is open, and an intent to dial is redeemed once, whatever
\* wrap-ups, changes of returns, calls by queue, by hand and by a CRM do at the same time.
THEOREM PromisesAndPauses == AfterSpec => []AfterInv
<1> QED BY InitAfter, StepAfter, AfterIsInv, PTL DEF AfterSpec

\* The queue never calls a lead a return has been promised to, though it may have read the returns
\* before the promise was made; results are recorded once and ended returns stay ended.
THEOREM PromisesKept == AfterSpec => AfterKept
<1>1. AfterStep => [AfterStep]_afterVars OBVIOUS
<1> QED BY InitAfter, StepAfter, <1>1, PTL DEF AfterSpec, AfterKept
-----------------------------------------------------------------------------
(* WaxumRequests: requests of a chain are numbered in the order they were  *)
(* made; one that is past its turn has none before it that is unsettled,   *)
(* one in its queue only what is not after the one it waits for.           *)
RequestRows == [chain : Chains \cup {NoRequest}, previous : Requests \cup {NoRequest},
                state : RequestStates, attempt : 0..MaxAttempts, at : Nat, seq : Nat]

RequestsTyped ==
  /\ moment \in 0..LastMoment /\ requestChains \in [Chains -> Requests \cup {NoRequest}]
  /\ nextRequestAt \in [Chains -> 0..(LastMoment + 2 * Interval)]
  /\ request \in [Requests -> RequestRows]
Asked(r) == request[r].state # "new"
IsSettled(r) == request[r].state = "settled"
EarlierThan(q, r) == Asked(q) /\ Asked(r) /\ request[q].chain = request[r].chain
                /\ request[q].seq < request[r].seq
Numbered ==
  /\ \A r \in Requests : Asked(r) => request[r].chain \in Chains /\ request[r].seq <= MadeSoFar
  /\ \A r \in Requests : ~Asked(r) => request[r].chain = NoRequest
  /\ \A q, r \in Requests : Asked(q) /\ Asked(r) /\ request[q].seq = request[r].seq => q = r
Queued ==
  /\ \A q, r \in Requests : EarlierThan(q, r) =>
       \/ IsSettled(q)
       \/ /\ request[r].state = "queued" /\ request[r].previous \in Requests
          /\ request[q].seq <= request[request[r].previous].seq
  /\ \A r \in Requests : Asked(r) /\ request[r].previous # NoRequest =>
       EarlierThan(request[r].previous, r)
LastKnown ==
  /\ \A k \in Chains, r \in Requests : request[r].chain = k /\ Asked(r) =>
       \/ IsSettled(r)
       \/ /\ requestChains[k] \in Requests
          /\ request[r].seq <= request[requestChains[k]].seq
  /\ \A k \in Chains : requestChains[k] # NoRequest =>
       /\ request[requestChains[k]].chain = k
       /\ Asked(requestChains[k]) /\ ~IsSettled(requestChains[k])
SlotsFit ==
  /\ \A r \in Requests : request[r].state = "slot" =>
       nextRequestAt[request[r].chain] = request[r].at + Interval
  /\ \A k \in Chains : nextRequestAt[k] > LastMoment + Interval =>
       \E r \in Requests : request[r].state = "slot" /\ request[r].chain = k

TriesLeft ==
  \A r \in Requests : /\ request[r].state \in {"new", "queued"} => request[r].attempt = 0
                      /\ request[r].state = "slot" => request[r].attempt < MaxAttempts

RequestIInv ==
  RequestsTyped /\ Numbered /\ Queued /\ LastKnown /\ SlotsFit /\ TriesLeft

\* One that is past its turn has no unsettled one before it; two are never past it at once.
LEMMA InTurn ==
  ASSUME RequestIInv, NEW q \in Requests, NEW r \in Requests, Asked(q), ~IsSettled(q),
         request[q].chain = request[r].chain, UnderWay(r), q # r
  PROVE  request[r].seq < request[q].seq /\ request[q].state = "queued"
<1>1. Asked(r) /\ ~IsSettled(r) /\ request[r].state # "queued"
  BY DEF Asked, IsSettled, UnderWay
<1>2. request[q].seq \in Nat /\ request[r].seq \in Nat
  BY DEF RequestIInv, RequestsTyped, RequestRows
<1>3. ~(request[q].seq < request[r].seq) BY <1>1 DEF RequestIInv, Queued, EarlierThan
<1>4. request[q].seq # request[r].seq BY <1>1 DEF RequestIInv, Numbered
<1>5. request[r].seq < request[q].seq BY <1>2, <1>3, <1>4
<1>6. EarlierThan(r, q) BY <1>1, <1>5 DEF EarlierThan
<1> QED BY <1>1, <1>5, <1>6 DEF RequestIInv, Queued

LEMMA RequestsAreInTurn == RequestIInv => RequestsInv
<1> SUFFICES ASSUME RequestIInv PROVE RequestsInv OBVIOUS
<1>1. RequestTypeOK BY DEF RequestIInv, RequestsTyped, RequestTypeOK, RequestRows
<1>2. InOrder
  <2> SUFFICES ASSUME NEW q \in Requests, NEW r \in Requests, UnderWay(r),
                      request[q].chain = request[r].chain, request[q].seq < request[r].seq
               PROVE  request[q].state = "settled"
    BY DEF InOrder
  <2>1. Asked(r) /\ request[r].state # "queued" BY DEF Asked, UnderWay
  <2>2. Asked(q) BY <2>1, WaxumRequestConstants DEF RequestIInv, Numbered
  <2> QED BY <2>1, <2>2 DEF RequestIInv, Queued, EarlierThan, IsSettled
<1>3. OneRuns
  <2> SUFFICES ASSUME NEW q \in Requests, NEW r \in Requests, q # r,
                      request[q].chain = request[r].chain, UnderWay(q), UnderWay(r)
               PROVE  FALSE
    BY DEF OneRuns
  <2>1. Asked(q) /\ ~IsSettled(q) /\ request[q].state # "queued" BY DEF Asked, IsSettled, UnderWay
  <2> QED BY <2>1, InTurn
<1>4. NoChainKept
  <2>1. \A r \in Requests : Unsettled(r) <=> Asked(r) /\ ~IsSettled(r)
    BY DEF Unsettled, Asked, IsSettled
  <2>2. ASSUME NEW k \in Chains, requestChains[k] # NoRequest
        PROVE  \E r \in Requests : request[r].chain = k /\ Unsettled(r)
    <3>1. requestChains[k] \in Requests BY <2>2 DEF RequestIInv, RequestsTyped
    <3> QED BY <2>1, <2>2, <3>1 DEF RequestIInv, LastKnown
  <2>3. ASSUME NEW k \in Chains, NEW r \in Requests, request[r].chain = k, Unsettled(r)
        PROVE  requestChains[k] # NoRequest
    BY <2>1, <2>3, WaxumRequestConstants DEF RequestIInv, LastKnown
  <2> QED BY <2>2, <2>3 DEF NoChainKept
<1> QED BY <1>1, <1>2, <1>3, <1>4 DEF RequestsInv

\* The step of one request: what it keeps, and what of its row may change.
LEMMA SameNumbers ==
  ASSUME RequestIInv, request' \in [Requests -> RequestRows],
         \A r \in Requests : /\ request'[r].chain = request[r].chain
                             /\ request'[r].seq = request[r].seq
                             /\ request'[r].previous = request[r].previous
                             /\ Asked(r)' <=> Asked(r)
                             /\ IsSettled(r) => IsSettled(r)'
                             /\ request'[r].state = "queued" <=> request[r].state = "queued"
  PROVE  Numbered' /\ Queued'
<1>1. MadeSoFar' = MadeSoFar
  <2>1. {r \in Requests : request[r].state # "new"} = {r \in Requests : request'[r].state # "new"}
    BY DEF Asked
  <2> QED BY <2>1 DEF MadeSoFar
<1>2. Numbered' BY <1>1 DEF RequestIInv, Numbered
<1>3. \A q, r \in Requests : EarlierThan(q, r)' <=> EarlierThan(q, r) BY DEF EarlierThan
<1>4. \A r \in Requests : request[r].previous \in Requests \cup {NoRequest}
  BY DEF RequestIInv, RequestsTyped, RequestRows
<1>5. Queued' BY <1>3, <1>4 DEF RequestIInv, Queued
<1> QED BY <1>2, <1>5

LEMMA StepRequest ==
  ASSUME RequestIInv, NEW r \in Requests, NEW k \in Chains, Request(r, k) PROVE RequestIInv'
<1> DEFINE fresh == [chain |-> k, previous |-> requestChains[k], state |-> "queued",
                    attempt |-> 0, at |-> 0, seq |-> MadeSoFar + 1]
           all == {q \in Requests : request[q].state # "new"}
<1>1. /\ ~Asked(r) /\ request' = [request EXCEPT ![r] = fresh]
      /\ requestChains' = [requestChains EXCEPT ![k] = r] /\ UNCHANGED <<moment, nextRequestAt>>
  BY DEF Request, Asked
<1>2. all' = all \cup {r} /\ r \notin all /\ IsFiniteSet(all)
  <2>1. IsFiniteSet(all) BY WaxumRequestConstants, FS_Subset
  <2>2. \A q \in Requests : request'[q].state # "new" <=> request[q].state # "new" \/ q = r
    <3>1. fresh.state = "queued" OBVIOUS
    <3> HIDE DEF fresh
    <3> QED BY <1>1, <3>1 DEF RequestIInv, RequestsTyped
  <2> QED BY <1>1, <2>1, <2>2 DEF Asked
<1>3. MadeSoFar \in Nat /\ MadeSoFar' = MadeSoFar + 1
  <2>1. Cardinality(all) \in Nat /\ Cardinality(all \cup {r}) = Cardinality(all) + 1
    BY <1>2, FS_CardinalityType, FS_AddElement
  <2> QED BY <1>2, <2>1 DEF MadeSoFar
<1>4. /\ fresh \in RequestRows /\ fresh.chain = k /\ fresh.previous = requestChains[k]
      /\ fresh.state = "queued" /\ fresh.seq = MadeSoFar + 1 /\ fresh.attempt = 0
  <2>1. /\ MadeSoFar + 1 \in Nat /\ requestChains[k] \in Requests \cup {NoRequest}
        /\ 0 \in 0..MaxAttempts
    BY <1>3, WaxumRequestConstants DEF RequestIInv, RequestsTyped
  <2> QED BY <2>1 DEF RequestRows, RequestStates
<1> HIDE DEF fresh
<1>5. /\ request' \in [Requests -> RequestRows] /\ request'[r] = fresh
      /\ \A q \in Requests : q # r => request'[q] = request[q]
  BY <1>1, <1>4 DEF RequestIInv, RequestsTyped
<1>6. /\ requestChains' \in [Chains -> Requests \cup {NoRequest}] /\ requestChains'[k] = r
      /\ \A j \in Chains : j # k => requestChains'[j] = requestChains[j]
  BY <1>1 DEF RequestIInv, RequestsTyped
<1>7. RequestsTyped' BY <1>1, <1>5, <1>6 DEF RequestIInv, RequestsTyped
<1>8. /\ \A q \in Requests : q # r => (Asked(q)' <=> Asked(q)) /\ (IsSettled(q)' <=> IsSettled(q))
      /\ Asked(r)' /\ ~IsSettled(r)'
  BY <1>4, <1>5 DEF Asked, IsSettled
<1>9. \A q \in Requests : /\ request[q].seq \in Nat
                          /\ request[q].previous \in Requests \cup {NoRequest}
                          /\ Asked(q) => request[q].seq <= MadeSoFar /\ request[q].seq < MadeSoFar + 1
  BY <1>3 DEF RequestIInv, RequestsTyped, RequestRows, Numbered
<1>10. Numbered'
  <2>1. \A q \in Requests : Asked(q)' => request'[q].chain \in Chains /\ request'[q].seq <= MadeSoFar'
    BY <1>3, <1>4, <1>5, <1>8, <1>9 DEF RequestIInv, Numbered
  <2>2. \A q \in Requests : ~Asked(q)' => request'[q].chain = NoRequest
    BY <1>5, <1>8 DEF RequestIInv, Numbered
  <2>3. \A p, q \in Requests : Asked(p)' /\ Asked(q)' /\ request'[p].seq = request'[q].seq => p = q
    BY <1>3, <1>4, <1>5, <1>8, <1>9 DEF RequestIInv, Numbered
  <2> QED BY <2>1, <2>2, <2>3 DEF Numbered
<1>11. \A p, q \in Requests : EarlierThan(p, q)' =>
         /\ p # r /\ Asked(p)
         /\ q # r => EarlierThan(p, q)
         /\ q = r => request[p].chain = k
  <2>1. \A q \in Requests : ~(request'[r].seq < request'[q].seq /\ Asked(q)')
    BY <1>3, <1>4, <1>5, <1>8, <1>9
  <2> QED BY <1>4, <1>5, <1>8, <2>1 DEF EarlierThan
<1>12. \A p, q \in Requests : EarlierThan(p, q) => p # r /\ q # r /\ EarlierThan(p, q)'
  BY <1>1, <1>5, <1>8 DEF EarlierThan
<1>13. Queued'
  <2>1. ASSUME NEW p \in Requests, NEW q \in Requests, EarlierThan(p, q)'
        PROVE  \/ IsSettled(p)'
               \/ /\ request'[q].state = "queued" /\ request'[q].previous \in Requests
                  /\ request'[p].seq <= request'[request'[q].previous].seq
    <3>1. CASE q # r
      <4>1. EarlierThan(p, q) /\ p # r BY <1>11, <2>1, <3>1
      <4>2. IsSettled(p) \/ /\ request[q].state = "queued" /\ request[q].previous \in Requests
                            /\ request[p].seq <= request[request[q].previous].seq
        BY <4>1 DEF RequestIInv, Queued
      <4>3. request[q].previous \in Requests => request[q].previous # r
        BY <1>12, <3>1, <4>1, WaxumRequestConstants DEF RequestIInv, Queued, EarlierThan
      <4> QED BY <1>5, <1>8, <3>1, <4>1, <4>2, <4>3
    <3>2. CASE q = r
      <4>1. p # r /\ Asked(p) /\ request[p].chain = k BY <1>11, <2>1, <3>2
      <4>2. IsSettled(p) \/ /\ requestChains[k] \in Requests
                            /\ request[p].seq <= request[requestChains[k]].seq
        BY <4>1 DEF RequestIInv, LastKnown
      <4>3. requestChains[k] # NoRequest => requestChains[k] # r
        BY <1>1 DEF RequestIInv, LastKnown
      <4> QED BY <1>4, <1>5, <1>8, <3>2, <4>1, <4>2, <4>3, WaxumRequestConstants
    <3> QED BY <3>1, <3>2
  <2>2. ASSUME NEW q \in Requests, Asked(q)', request'[q].previous # NoRequest
        PROVE  /\ request'[q].previous \in Requests
               /\ \A p \in Requests : p = request'[q].previous => EarlierThan(p, q)'
    <3>1. CASE q # r
      <4>1. Asked(q) /\ request[q].previous # NoRequest /\ request[q].previous \in Requests
        BY <1>5, <1>8, <1>9, <2>2, <3>1
      <4>2. EarlierThan(request[q].previous, q) BY <4>1 DEF RequestIInv, Queued
      <4>3. \A p \in Requests : p = request[q].previous => EarlierThan(p, q)' BY <1>12, <4>2
      <4>4. request'[q].previous = request[q].previous BY <1>5, <3>1
      <4> QED BY <4>1, <4>3, <4>4
    <3>2. CASE q = r
      <4>1. request'[q].previous = requestChains[k] /\ requestChains[k] # NoRequest
        BY <1>4, <1>5, <2>2, <3>2
      <4>2. requestChains[k] \in Requests BY <4>1 DEF RequestIInv, RequestsTyped
      <4>3. request[requestChains[k]].chain = k /\ Asked(requestChains[k])
        BY <4>1 DEF RequestIInv, LastKnown
      <4>4. requestChains[k] # r BY <1>1, <4>3
      <4>5. \A p \in Requests : p = requestChains[k] => EarlierThan(p, q)'
        BY <1>4, <1>5, <1>8, <1>9, <3>2, <4>2, <4>3, <4>4 DEF EarlierThan
      <4> QED BY <4>1, <4>2, <4>5
    <3> QED BY <3>1, <3>2
  <2> QED BY <2>1, <2>2 DEF Queued, EarlierThan, Asked, IsSettled
<1>14. LastKnown'
  <2>1. ASSUME NEW j \in Chains, NEW q \in Requests, request'[q].chain = j, Asked(q)'
        PROVE  \/ IsSettled(q)'
               \/ /\ requestChains'[j] \in Requests
                  /\ request'[q].seq <= request'[requestChains'[j]].seq
    <3>1. CASE j = k BY <1>3, <1>4, <1>5, <1>6, <1>8, <1>9, <2>1, <3>1
    <3>2. CASE j # k
      <4>1. q # r /\ Asked(q) /\ request[q].chain = j BY <1>4, <1>5, <1>8, <2>1, <3>2
      <4>2. requestChains[j] \in Requests => requestChains[j] # r
        BY <1>1, WaxumRequestConstants DEF RequestIInv, LastKnown
      <4> QED BY <1>5, <1>6, <1>8, <3>2, <4>1, <4>2 DEF RequestIInv, LastKnown
    <3> QED BY <3>1, <3>2
  <2>2. ASSUME NEW j \in Chains, requestChains'[j] # NoRequest
        PROVE  \A q \in Requests : q = requestChains'[j] =>
                 request'[q].chain = j /\ Asked(q)' /\ ~IsSettled(q)'
    <3>1. CASE j = k BY <1>4, <1>5, <1>6, <1>8, <3>1
    <3>2. CASE j # k BY <1>1, <1>5, <1>6, <1>8, <2>2, <3>2 DEF RequestIInv, LastKnown
    <3> QED BY <3>1, <3>2
  <2>3. \A j \in Chains : requestChains'[j] # NoRequest => requestChains'[j] \in Requests
    BY <1>6 DEF RequestIInv, RequestsTyped
  <2> QED BY <2>1, <2>2, <2>3 DEF LastKnown, Asked, IsSettled
<1>15. SlotsFit'
  <2>1. \A q \in Requests : /\ request'[q].state = "slot" => q # r
                            /\ request[q].state = "slot" => q # r
    BY <1>1, <1>4, <1>5 DEF Asked
  <2> QED BY <1>1, <1>5, <2>1 DEF RequestIInv, SlotsFit
<1>16. TriesLeft' BY <1>4, <1>5 DEF RequestIInv, TriesLeft
<1> QED BY <1>7, <1>10, <1>13, <1>14, <1>15, <1>16 DEF RequestIInv

\* A slot is taken by one of a chain at a time, and the one before it has started by then.
LEMMA SlotTaken ==
  ASSUME RequestIInv, NEW r \in Requests, TakesSlot(r), Asked(r), ~IsSettled(r),
         \A q \in Requests : request[q].state = "slot" => request[q].chain # request[r].chain,
         \A q \in Requests : EarlierThan(q, r) => IsSettled(q)
  PROVE  /\ request' \in [Requests -> RequestRows] /\ SlotsFit'
         /\ nextRequestAt' \in [Chains -> 0..(LastMoment + 2 * Interval)]
         /\ request'[r].state = "slot" /\ request'[r].chain = request[r].chain
         /\ request'[r].seq = request[r].seq /\ request'[r].previous = request[r].previous
         /\ request'[r].attempt = request[r].attempt
         /\ \A q \in Requests : q # r => request'[q] = request[q]
         /\ UNCHANGED <<moment, requestChains>>
<1> DEFINE k == request[r].chain
           start == IF nextRequestAt[k] > moment THEN nextRequestAt[k] ELSE moment
           taken == [request[r] EXCEPT !.state = "slot", !.at = start]
           following == start + Interval
<1>1. /\ nextRequestAt' = [nextRequestAt EXCEPT ![k] = following]
      /\ request' = [request EXCEPT ![r] = taken] /\ UNCHANGED <<moment, requestChains>>
  BY DEF TakesSlot
<1>2. k \in Chains /\ request[r] \in RequestRows BY DEF RequestIInv, RequestsTyped, Numbered
<1>3. /\ start \in Nat /\ start <= LastMoment + Interval /\ following = start + Interval
      /\ following \in 0..(LastMoment + 2 * Interval)
  <2>1. /\ nextRequestAt[k] \in Nat /\ moment \in 0..LastMoment /\ Interval \in Nat
        /\ LastMoment \in Nat
    BY <1>2, WaxumRequestConstants DEF RequestIInv, RequestsTyped
  <2>2. nextRequestAt[k] <= LastMoment + Interval BY <1>2, <2>1 DEF RequestIInv, SlotsFit
  <2> QED BY <2>1, <2>2
<1> HIDE DEF start, following
<1>4. /\ taken \in RequestRows /\ taken.state = "slot" /\ taken.at = start /\ taken.chain = k
      /\ taken.seq = request[r].seq /\ taken.previous = request[r].previous
      /\ taken.attempt = request[r].attempt
  BY <1>2, <1>3 DEF RequestRows, RequestStates
<1> HIDE DEF taken
<1>5. /\ request' \in [Requests -> RequestRows] /\ request'[r] = taken
      /\ \A q \in Requests : q # r => request'[q] = request[q]
  BY <1>1, <1>4 DEF RequestIInv, RequestsTyped
<1>6. /\ nextRequestAt' \in [Chains -> 0..(LastMoment + 2 * Interval)]
      /\ nextRequestAt'[k] = following /\ \A j \in Chains : j # k => nextRequestAt'[j] = nextRequestAt[j]
  BY <1>1, <1>2, <1>3 DEF RequestIInv, RequestsTyped
<1>7. SlotsFit'
  <2>1. ASSUME NEW q \in Requests, request'[q].state = "slot"
        PROVE  nextRequestAt'[request'[q].chain] = request'[q].at + Interval
    <3>1. CASE q = r BY <1>3, <1>4, <1>5, <1>6, <3>1
    <3>2. CASE q # r
      <4>1. request[q].state = "slot" /\ request[q].chain \in Chains /\ request[q].chain # k
        BY <1>5, <2>1, <3>2 DEF RequestIInv, Numbered, Asked
      <4> QED BY <1>5, <1>6, <3>2, <4>1 DEF RequestIInv, SlotsFit
    <3> QED BY <3>1, <3>2
  <2>2. ASSUME NEW j \in Chains, nextRequestAt'[j] > LastMoment + Interval
        PROVE  \E q \in Requests : request'[q].state = "slot" /\ request'[q].chain = j
    <3>1. CASE j = k BY <1>4, <1>5, <3>1
    <3>2. CASE j # k
      <4>1. PICK q \in Requests : request[q].state = "slot" /\ request[q].chain = j
        BY <1>6, <2>2, <3>2 DEF RequestIInv, SlotsFit
      <4>2. q # r BY <3>2, <4>1
      <4> QED BY <1>5, <4>1, <4>2
    <3> QED BY <3>1, <3>2
  <2> QED BY <1>1, <2>1, <2>2 DEF SlotsFit
<1> QED BY <1>1, <1>4, <1>5, <1>6, <1>7

LEMMA SameLast ==
  ASSUME RequestIInv, requestChains' = requestChains,
         \A r \in Requests : /\ request'[r].chain = request[r].chain
                             /\ request'[r].seq = request[r].seq
                             /\ Asked(r)' <=> Asked(r)
                             /\ IsSettled(r)' <=> IsSettled(r)
  PROVE  LastKnown'
<1>1. \A k \in Chains : requestChains[k] \in Requests \cup {NoRequest}
  BY DEF RequestIInv, RequestsTyped
<1>2. \A k \in Chains, r \in Requests : request'[r].chain = k /\ Asked(r)' =>
        \/ IsSettled(r)'
        \/ /\ requestChains[k] \in Requests
           /\ request'[r].seq <= request'[requestChains[k]].seq
  BY DEF RequestIInv, LastKnown
<1>3. \A k \in Chains, r \in Requests : r = requestChains[k] =>
        request'[r].chain = k /\ Asked(r)' /\ ~IsSettled(r)'
  BY WaxumRequestConstants DEF RequestIInv, LastKnown
<1> QED BY <1>1, <1>2, <1>3 DEF LastKnown, Asked, IsSettled

LEMMA StepRunsRequest ==
  ASSUME RequestIInv, NEW r \in Requests, RunsRequest(r) PROVE RequestIInv'
<1>1. /\ request[r].state = "queued" /\ TakesSlot(r) /\ Asked(r) /\ ~IsSettled(r)
      /\ request[r].previous # NoRequest => request[request[r].previous].state = "settled"
  BY DEF RunsRequest, Asked, IsSettled
<1>2. \A q \in Requests : EarlierThan(q, r) => IsSettled(q)
  <2> SUFFICES ASSUME NEW q \in Requests, EarlierThan(q, r), ~IsSettled(q) PROVE FALSE OBVIOUS
  <2> DEFINE p == request[r].previous
  <2>1. p \in Requests /\ request[q].seq <= request[p].seq BY DEF RequestIInv, Queued
  <2>2. EarlierThan(p, r) /\ IsSettled(p) BY <1>1, <2>1, WaxumRequestConstants DEF RequestIInv, Queued, IsSettled
  <2>3. q # p /\ Asked(q) /\ Asked(p) /\ request[q].chain = request[p].chain
    BY <2>2 DEF EarlierThan
  <2>4. request[q].seq \in Nat /\ request[p].seq \in Nat
    BY <2>1 DEF RequestIInv, RequestsTyped, RequestRows
  <2>5. request[q].seq # request[p].seq BY <2>1, <2>3 DEF RequestIInv, Numbered
  <2>6. EarlierThan(q, p) BY <2>1, <2>3, <2>4, <2>5 DEF EarlierThan
  <2>7. request[p].state # "queued" BY <2>2 DEF IsSettled
  <2> QED BY <2>1, <2>6, <2>7 DEF RequestIInv, Queued
<1>3. \A q \in Requests : request[q].state = "slot" => request[q].chain # request[r].chain
  <2> SUFFICES ASSUME NEW q \in Requests, request[q].state = "slot",
                      request[q].chain = request[r].chain
               PROVE  FALSE
    OBVIOUS
  <2>1. UnderWay(q) /\ Asked(q) /\ ~IsSettled(q) /\ q # r BY <1>1 DEF UnderWay, Asked, IsSettled
  <2>2. request[q].seq < request[r].seq BY <1>1, <2>1, InTurn
  <2>3. EarlierThan(q, r) BY <1>1, <2>1, <2>2 DEF EarlierThan
  <2> QED BY <1>2, <2>1, <2>3
<1>4. /\ request' \in [Requests -> RequestRows] /\ SlotsFit'
      /\ nextRequestAt' \in [Chains -> 0..(LastMoment + 2 * Interval)]
      /\ request'[r].state = "slot" /\ request'[r].chain = request[r].chain
      /\ request'[r].seq = request[r].seq /\ request'[r].previous = request[r].previous
      /\ request'[r].attempt = request[r].attempt
      /\ \A q \in Requests : q # r => request'[q] = request[q]
      /\ UNCHANGED <<moment, requestChains>>
  BY <1>1, <1>2, <1>3, SlotTaken
<1>5. RequestsTyped' BY <1>4 DEF RequestIInv, RequestsTyped
<1>6. \A q \in Requests : /\ request'[q].chain = request[q].chain
                          /\ request'[q].seq = request[q].seq
                          /\ request'[q].previous = request[q].previous
                          /\ Asked(q)' <=> Asked(q)
                          /\ IsSettled(q)' <=> IsSettled(q)
  BY <1>1, <1>4 DEF Asked, IsSettled
<1>7. LastKnown' BY <1>4, <1>6, SameLast
<1>8. MadeSoFar' = MadeSoFar
  <2>1. {q \in Requests : request[q].state # "new"} = {q \in Requests : request'[q].state # "new"}
    BY <1>6 DEF Asked
  <2> QED BY <2>1 DEF MadeSoFar
<1>9. Numbered' BY <1>6, <1>8 DEF RequestIInv, Numbered
<1>10. Queued'
  <2>1. \A p, q \in Requests : EarlierThan(p, q)' <=> EarlierThan(p, q) BY <1>6 DEF EarlierThan
  <2>2. ASSUME NEW p \in Requests, NEW q \in Requests, EarlierThan(p, q)
        PROVE  \/ IsSettled(p)'
               \/ /\ request'[q].state = "queued" /\ request'[q].previous \in Requests
                  /\ request'[p].seq <= request'[request'[q].previous].seq
    BY <1>2, <1>4, <1>6, <2>2 DEF RequestIInv, Queued
  <2>3. ASSUME NEW q \in Requests, Asked(q), request[q].previous # NoRequest
        PROVE  /\ request'[q].previous \in Requests
               /\ \A p \in Requests : p = request'[q].previous => EarlierThan(p, q)'
    BY <1>6, <2>1, <2>3 DEF RequestIInv, RequestsTyped, RequestRows, Queued
  <2> QED BY <1>6, <2>1, <2>2, <2>3 DEF Queued, EarlierThan, Asked, IsSettled
<1>11. TriesLeft' BY <1>1, <1>4, WaxumRequestConstants DEF RequestIInv, TriesLeft
<1> QED BY <1>4, <1>5, <1>7, <1>9, <1>10, <1>11 DEF RequestIInv

\* A request past its turn goes on: its place in the chain stays.
LEMMA RunsOn ==
  ASSUME RequestIInv, NEW r \in Requests, NEW to \in RequestRows,
         request' = [request EXCEPT ![r] = to], to.chain = request[r].chain,
         to.seq = request[r].seq, to.previous = request[r].previous,
         Asked(r), request[r].state \notin {"queued", "settled"}, to.state \notin {"new", "queued"}
  PROVE  /\ request' \in [Requests -> RequestRows] /\ request'[r] = to
         /\ \A q \in Requests : q # r => request'[q] = request[q]
         /\ Numbered' /\ Queued'
<1>1. /\ request' \in [Requests -> RequestRows] /\ request'[r] = to
      /\ \A q \in Requests : q # r => request'[q] = request[q]
  BY DEF RequestIInv, RequestsTyped
<1>2. \A q \in Requests : /\ request'[q].chain = request[q].chain
                          /\ request'[q].seq = request[q].seq
                          /\ request'[q].previous = request[q].previous
                          /\ Asked(q)' <=> Asked(q)
                          /\ IsSettled(q) => IsSettled(q)'
                          /\ request'[q].state = "queued" <=> request[q].state = "queued"
  BY <1>1 DEF Asked, IsSettled
<1> QED BY <1>1, <1>2, SameNumbers

LEMMA StepFetches ==
  ASSUME RequestIInv, NEW r \in Requests, Fetches(r) PROVE RequestIInv'
<1> DEFINE to == [request[r] EXCEPT !.state = "fetching", !.attempt = @ + 1]
           k == request[r].chain
<1>1. /\ request[r].state = "slot" /\ moment >= request[r].at /\ request' = [request EXCEPT ![r] = to]
      /\ UNCHANGED <<moment, requestChains, nextRequestAt>>
  BY DEF Fetches
<1>2. /\ request[r] \in RequestRows /\ Asked(r) /\ ~IsSettled(r) /\ k \in Chains
      /\ request[r].attempt + 1 \in 0..MaxAttempts
  <2>1. request[r] \in RequestRows /\ Asked(r) /\ ~IsSettled(r)
    BY <1>1 DEF Asked, IsSettled, RequestIInv, RequestsTyped
  <2>2. request[r].attempt \in 0..MaxAttempts /\ request[r].attempt < MaxAttempts
    BY <1>1, <2>1 DEF RequestRows, RequestIInv, TriesLeft
  <2> QED BY <2>1, <2>2, WaxumRequestConstants DEF RequestIInv, Numbered
<1>3. /\ to \in RequestRows /\ to.chain = k /\ to.seq = request[r].seq
      /\ to.previous = request[r].previous /\ to.state = "fetching"
  BY <1>2 DEF RequestRows, RequestStates
<1> HIDE DEF to
<1>4. /\ request' \in [Requests -> RequestRows] /\ request'[r] = to
      /\ \A q \in Requests : q # r => request'[q] = request[q]
      /\ Numbered' /\ Queued'
  BY <1>1, <1>2, <1>3, RunsOn
<1>5. RequestsTyped' BY <1>1, <1>4 DEF RequestIInv, RequestsTyped
<1>6. LastKnown' BY <1>1, <1>2, <1>3, <1>4, SameLast DEF Asked, IsSettled
<1>7. SlotsFit'
  <2>1. nextRequestAt[k] <= LastMoment + Interval
    <3>1. nextRequestAt[k] = request[r].at + Interval BY <1>1 DEF RequestIInv, SlotsFit
    <3>2. moment \in 0..LastMoment /\ request[r].at \in Nat /\ Interval \in Nat /\ LastMoment \in Nat
      BY <1>2, WaxumRequestConstants DEF RequestIInv, RequestsTyped, RequestRows
    <3> QED BY <1>1, <3>1, <3>2
  <2>2. ASSUME NEW j \in Chains, nextRequestAt[j] > LastMoment + Interval
        PROVE  \E q \in Requests : request'[q].state = "slot" /\ request'[q].chain = j
    <3>1. PICK q \in Requests : request[q].state = "slot" /\ request[q].chain = j
      BY <2>2 DEF RequestIInv, SlotsFit
    <3>2. nextRequestAt[k] \in Nat /\ LastMoment + Interval \in Nat
      BY <1>2, WaxumRequestConstants DEF RequestIInv, RequestsTyped
    <3>3. q # r BY <2>1, <2>2, <3>1, <3>2
    <3> QED BY <1>4, <3>1, <3>3
  <2>3. \A q \in Requests : request'[q].state = "slot" =>
          q # r /\ request'[q] = request[q]
    BY <1>3, <1>4
  <2> QED BY <1>1, <2>2, <2>3 DEF RequestIInv, SlotsFit
<1>8. TriesLeft' BY <1>3, <1>4 DEF RequestIInv, TriesLeft
<1> QED BY <1>4, <1>5, <1>6, <1>7, <1>8 DEF RequestIInv

LEMMA StepAnswered ==
  ASSUME RequestIInv, NEW r \in Requests, RequestAnswered(r) PROVE RequestIInv'
<1> DEFINE to == [request[r] EXCEPT !.state = "ended"]
<1>1. /\ request[r].state = "fetching" /\ request' = [request EXCEPT ![r] = to]
      /\ UNCHANGED <<moment, requestChains, nextRequestAt>>
  BY DEF RequestAnswered, SetTo
<1>2. request[r] \in RequestRows /\ Asked(r) /\ ~IsSettled(r)
  BY <1>1 DEF Asked, IsSettled, RequestIInv, RequestsTyped
<1>3. /\ to \in RequestRows /\ to.chain = request[r].chain /\ to.seq = request[r].seq
      /\ to.previous = request[r].previous /\ to.state = "ended"
  BY <1>2 DEF RequestRows, RequestStates
<1> HIDE DEF to
<1>4. /\ request' \in [Requests -> RequestRows] /\ request'[r] = to
      /\ \A q \in Requests : q # r => request'[q] = request[q]
      /\ Numbered' /\ Queued'
  BY <1>1, <1>2, <1>3, RunsOn
<1>5. RequestsTyped' BY <1>1, <1>4 DEF RequestIInv, RequestsTyped
<1>6. LastKnown' BY <1>1, <1>2, <1>3, <1>4, SameLast DEF Asked, IsSettled
<1>7. \A q \in Requests : /\ request'[q].state = "slot" <=> request[q].state = "slot"
                          /\ request[q].state = "slot" => request'[q] = request[q]
  BY <1>1, <1>3, <1>4
<1>8. SlotsFit' BY <1>1, <1>7 DEF RequestIInv, SlotsFit
<1>9. TriesLeft' BY <1>3, <1>4 DEF RequestIInv, TriesLeft
<1> QED BY <1>4, <1>5, <1>6, <1>8, <1>9 DEF RequestIInv

LEMMA StepGatewayFails ==
  ASSUME RequestIInv, NEW r \in Requests, GatewayFails(r) PROVE RequestIInv'
<1>1. /\ request[r].state = "fetching" /\ request[r].attempt < MaxAttempts /\ TakesSlot(r)
      /\ Asked(r) /\ ~IsSettled(r) /\ UnderWay(r)
  BY DEF GatewayFails, Asked, IsSettled, UnderWay
<1>2. \A q \in Requests : EarlierThan(q, r) => IsSettled(q)
  BY <1>1 DEF RequestIInv, Queued
<1>3. \A q \in Requests : request[q].state = "slot" => request[q].chain # request[r].chain
  <2> SUFFICES ASSUME NEW q \in Requests, request[q].state = "slot",
                      request[q].chain = request[r].chain
               PROVE  FALSE
    OBVIOUS
  <2>1. q # r /\ Asked(q) /\ ~IsSettled(q) BY <1>1 DEF Asked, IsSettled
  <2> QED BY <1>1, <2>1, InTurn
<1>4. /\ request' \in [Requests -> RequestRows] /\ SlotsFit'
      /\ nextRequestAt' \in [Chains -> 0..(LastMoment + 2 * Interval)]
      /\ request'[r].state = "slot" /\ request'[r].chain = request[r].chain
      /\ request'[r].seq = request[r].seq /\ request'[r].previous = request[r].previous
      /\ request'[r].attempt = request[r].attempt
      /\ \A q \in Requests : q # r => request'[q] = request[q]
      /\ UNCHANGED <<moment, requestChains>>
  BY <1>1, <1>2, <1>3, SlotTaken
<1>5. RequestsTyped' BY <1>4 DEF RequestIInv, RequestsTyped
<1>6. \A q \in Requests : /\ request'[q].chain = request[q].chain
                          /\ request'[q].seq = request[q].seq
                          /\ request'[q].previous = request[q].previous
                          /\ Asked(q)' <=> Asked(q)
                          /\ IsSettled(q)' <=> IsSettled(q)
                          /\ request'[q].state = "queued" <=> request[q].state = "queued"
  BY <1>1, <1>4 DEF Asked, IsSettled
<1>7. LastKnown' BY <1>4, <1>6, SameLast
<1>8. Numbered' /\ Queued' BY <1>4, <1>6, SameNumbers
<1>9. TriesLeft' BY <1>1, <1>4 DEF RequestIInv, TriesLeft
<1> QED BY <1>4, <1>5, <1>7, <1>8, <1>9 DEF RequestIInv

LEMMA StepSettles ==
  ASSUME RequestIInv, NEW r \in Requests, Settles(r) PROVE RequestIInv'
<1> DEFINE to == [request[r] EXCEPT !.state = "settled"]
           k == request[r].chain
<1>1. /\ request[r].state = "ended" /\ request' = [request EXCEPT ![r] = to]
      /\ requestChains' = IF requestChains[k] = r
                          THEN [requestChains EXCEPT ![k] = NoRequest] ELSE requestChains
      /\ UNCHANGED <<moment, nextRequestAt>>
  BY DEF Settles, SetTo
<1>2. request[r] \in RequestRows /\ Asked(r) /\ ~IsSettled(r) /\ k \in Chains
  BY <1>1 DEF Asked, IsSettled, RequestIInv, RequestsTyped, Numbered
<1>3. /\ to \in RequestRows /\ to.chain = k /\ to.seq = request[r].seq
      /\ to.previous = request[r].previous /\ to.state = "settled"
  BY <1>2 DEF RequestRows, RequestStates
<1> HIDE DEF to
<1>4. /\ request' \in [Requests -> RequestRows] /\ request'[r] = to
      /\ \A q \in Requests : q # r => request'[q] = request[q]
      /\ Numbered' /\ Queued'
  BY <1>1, <1>2, <1>3, RunsOn
<1>5. /\ requestChains' \in [Chains -> Requests \cup {NoRequest}]
      /\ \A j \in Chains : requestChains'[j] = IF j = k /\ requestChains[k] = r THEN NoRequest
                                               ELSE requestChains[j]
  BY <1>1, <1>2 DEF RequestIInv, RequestsTyped
<1>6. RequestsTyped' BY <1>1, <1>4, <1>5 DEF RequestIInv, RequestsTyped
<1>7. \A q \in Requests : /\ request'[q].chain = request[q].chain /\ request'[q].seq = request[q].seq
                          /\ Asked(q)' <=> Asked(q)
                          /\ IsSettled(q)' <=> IsSettled(q) \/ q = r
  BY <1>1, <1>3, <1>4 DEF Asked, IsSettled
<1>8. LastKnown'
  <2>1. ASSUME NEW j \in Chains, NEW q \in Requests, request[q].chain = j, Asked(q),
               ~IsSettled(q), q # r
        PROVE  /\ requestChains'[j] \in Requests
               /\ request'[q].seq <= request'[requestChains'[j]].seq
    <3>1. requestChains[j] \in Requests /\ request[q].seq <= request[requestChains[j]].seq
      BY <2>1 DEF RequestIInv, LastKnown
    <3>2. ~(j = k /\ requestChains[k] = r)
      <4> SUFFICES ASSUME j = k, requestChains[k] = r PROVE FALSE OBVIOUS
      <4>1. request[q].seq \in Nat /\ request[r].seq \in Nat
        BY DEF RequestIInv, RequestsTyped, RequestRows
      <4>2. request[q].seq <= request[r].seq /\ request[q].seq # request[r].seq
        BY <1>2, <2>1, <3>1 DEF RequestIInv, Numbered
      <4>3. EarlierThan(q, r) BY <1>2, <2>1, <4>1, <4>2 DEF EarlierThan
      <4> QED BY <1>1, <2>1, <4>3 DEF RequestIInv, Queued
    <3> QED BY <1>5, <1>7, <3>1, <3>2
  <2>2. ASSUME NEW j \in Chains, requestChains'[j] # NoRequest
        PROVE  /\ requestChains'[j] \in Requests
               /\ \A q \in Requests : q = requestChains'[j] =>
                    request'[q].chain = j /\ Asked(q)' /\ ~IsSettled(q)'
    <3>1. requestChains'[j] = requestChains[j] /\ requestChains[j] \in Requests
      BY <1>5, <2>2 DEF RequestIInv, RequestsTyped
    <3>2. \A q \in Requests : q = requestChains[j] => request[q].chain = j /\ Asked(q) /\ ~IsSettled(q)
      BY <2>2, <3>1 DEF RequestIInv, LastKnown
    <3>3. requestChains[j] # r
      BY <1>5, <2>2, <3>1, <3>2
    <3> QED BY <1>7, <3>1, <3>2, <3>3
  <2> QED BY <1>7, <2>1, <2>2 DEF LastKnown, Asked, IsSettled
<1>9. \A q \in Requests : /\ request'[q].state = "slot" <=> request[q].state = "slot"
                          /\ request[q].state = "slot" => request'[q] = request[q]
  BY <1>1, <1>3, <1>4
<1>10. SlotsFit' BY <1>1, <1>9 DEF RequestIInv, SlotsFit
<1>11. TriesLeft' BY <1>3, <1>4 DEF RequestIInv, TriesLeft
<1> QED BY <1>4, <1>6, <1>8, <1>10, <1>11 DEF RequestIInv

LEMMA StepRequests == RequestIInv /\ [RequestNext]_requestVars => RequestIInv'
<1> SUFFICES ASSUME RequestIInv, [RequestNext]_requestVars PROVE RequestIInv' OBVIOUS
<1>1. ASSUME request' = request, requestChains' = requestChains, nextRequestAt' = nextRequestAt,
             moment' \in 0..LastMoment
      PROVE  RequestIInv'
  <2>1. \A r \in Requests : (Asked(r)' <=> Asked(r)) /\ (IsSettled(r)' <=> IsSettled(r))
    BY <1>1 DEF Asked, IsSettled
  <2>2. RequestsTyped' /\ SlotsFit' /\ TriesLeft'
    BY <1>1 DEF RequestIInv, RequestsTyped, SlotsFit, TriesLeft
  <2>3. LastKnown' BY <1>1, <2>1, SameLast
  <2>4. request' \in [Requests -> RequestRows] BY <1>1 DEF RequestIInv, RequestsTyped
  <2>5. Numbered' /\ Queued' BY <1>1, <2>1, <2>4, SameNumbers
  <2> QED BY <2>2, <2>3, <2>5 DEF RequestIInv
<1>2. CASE MomentPasses
  <2>1. moment' \in 0..LastMoment
    BY <1>2, WaxumRequestConstants DEF MomentPasses, RequestIInv, RequestsTyped
  <2> QED BY <1>1, <1>2, <2>1 DEF MomentPasses
<1>3. CASE UNCHANGED requestVars
  BY <1>1, <1>3 DEF requestVars, RequestIInv, RequestsTyped
<1>4. ASSUME NEW r \in Requests,
             \/ \E k \in Chains : Request(r, k)
             \/ RunsRequest(r) \/ Fetches(r) \/ RequestAnswered(r) \/ GatewayFails(r) \/ Settles(r)
      PROVE  RequestIInv'
  BY <1>4, StepRequest, StepRunsRequest, StepFetches, StepAnswered, StepGatewayFails, StepSettles
<1> QED BY <1>2, <1>3, <1>4 DEF RequestNext

LEMMA InitRequests == RequestInit => RequestIInv
<1> SUFFICES ASSUME RequestInit PROVE RequestIInv OBVIOUS
<1> DEFINE first == [chain |-> NoRequest, previous |-> NoRequest, state |-> "new",
                     attempt |-> 0, at |-> 0, seq |-> 0]
<1>1. 0 \in 0..MaxAttempts /\ 0 \in 0..LastMoment /\ 0 \in 0..(LastMoment + 2 * Interval)
      /\ ~(0 > LastMoment + Interval)
  BY WaxumRequestConstants
<1>2. first \in RequestRows /\ first.state = "new" /\ first.chain = NoRequest /\ first.attempt = 0
  BY <1>1 DEF RequestRows, RequestStates
<1> HIDE DEF first
<1>3. /\ moment = 0 /\ requestChains = [k \in Chains |-> NoRequest]
      /\ nextRequestAt = [k \in Chains |-> 0] /\ request = [r \in Requests |-> first]
  BY DEF RequestInit, first
<1>4. RequestsTyped BY <1>1, <1>2, <1>3 DEF RequestsTyped
<1>5. \A r \in Requests : ~Asked(r) /\ request[r] = first BY <1>2, <1>3 DEF Asked
<1>6. Numbered /\ Queued /\ LastKnown BY <1>2, <1>3, <1>5 DEF Numbered, Queued, LastKnown, EarlierThan
<1>7. SlotsFit /\ TriesLeft BY <1>1, <1>2, <1>3, <1>5 DEF SlotsFit, TriesLeft
<1> QED BY <1>4, <1>6, <1>7 DEF RequestIInv

-----------------------------------------------------------------------------
(* LineSessions: a row without a line has no session and one creation at   *)
(* most; who is between the lock and the answer of Waxum holds the lock,   *)
(* unless it ran out; a session in hand is in no row and in no other hand. *)
NumberRows == [status : LineStatus, session : WaxSessions \cup {NoSession}]
WorkerRows == [op : Operations, row : Rows \cup {NoSession}, step : Steps,
               session : WaxSessions \cup {NoSession}]
AskSteps == {"asks", "queues", "locked", "posts", "made"}

WorkersFit ==
  \A w \in Workers :
    /\ worker[w].step # "idle" => worker[w].row \in Rows /\ worker[w].op # "none"
    /\ worker[w].step = "idle" => worker[w].op = "none"
    /\ worker[w].op = "create" => worker[w].step \in AskSteps \cup {"undo"}
    /\ worker[w].step \in AskSteps => worker[w].op \in {"create", "qr", "reconnect"}
    /\ worker[w].step = "undo" => worker[w].op = "create"
    /\ worker[w].op = "create" =>
         /\ number[worker[w].row].status = "none"
         /\ \A v \in Workers : worker[v].row = worker[w].row => v = w
    /\ worker[w].op \notin {"none", "create"} => number[worker[w].row].status # "none"
RowsFit ==
  /\ \A r \in Rows : number[r].status = "none" => number[r].session = NoSession
  /\ \A r \in Rows : number[r].session # NoSession => waxum[number[r].session] # "unborn"
  /\ OwnSession
Holding(w) == worker[w].step \in {"made", "undo"}
HandsFit ==
  \A w \in Workers : Holding(w) =>
    /\ worker[w].session \in WaxSessions /\ waxum[worker[w].session] # "unborn"
    /\ \A r \in Rows : number[r].session # worker[w].session
    /\ \A v \in Workers : Holding(v) /\ worker[v].session = worker[w].session => v = w
LockFits ==
  ~overrun => \A w \in Workers : /\ worker[w].step \in {"locked", "posts"} => createLock = w
                                 /\ worker[w].step = "posts" => ~cooling

SessionIInv ==
  LineSessionTypeOK /\ WorkersFit /\ RowsFit /\ HandsFit /\ LockFits /\ NoSessionForgotten

LEMMA SessionsInTurn == SessionIInv => LineSessionsInv
<1> SUFFICES ASSUME SessionIInv PROVE LineSessionsInv OBVIOUS
<1>1. CreationsInTurn
  <2> SUFFICES ASSUME ~overrun PROVE Cardinality(Posting) <= 1 /\ (cooling => Posting = {})
    BY DEF CreationsInTurn
  <2>1. \A w \in Posting : createLock = w /\ ~cooling
    BY DEF Posting, Does, SessionIInv, LockFits
  <2>2. CASE Posting = {} BY <2>2, FS_EmptySet
  <2>3. CASE Posting # {}
    <3>1. Posting = {createLock} BY <2>1, <2>3
    <3> QED BY <2>1, <2>3, <3>1, FS_Singleton
  <2> QED BY <2>2, <2>3
<1> QED BY <1>1 DEF SessionIInv, LineSessionsInv, RowsFit

LEMMA WorkerOf ==
  ASSUME SessionIInv
  PROVE  /\ number \in [Rows -> NumberRows] /\ worker \in [Workers -> WorkerRows]
         /\ waxum \in [WaxSessions -> {"unborn", "there", "gone"}] /\ NoSession \notin WaxSessions
         /\ NoWorker \notin Workers
BY LineSessionConstants DEF SessionIInv, LineSessionTypeOK, NumberRows, WorkerRows

\* What a worker goes on to: to rest, further in what it does, or to something new.
StepFits(to) ==
  /\ to.step # "idle" => to.row \in Rows /\ to.op # "none"
  /\ to.step = "idle" => to.op = "none"
  /\ to.op = "create" => to.step \in AskSteps \cup {"undo"}
  /\ to.step \in AskSteps => to.op \in {"create", "qr", "reconnect"}
  /\ to.step = "undo" => to.op = "create"

GoesOnTo(w, to) ==
  /\ to \in WorkerRows /\ worker' = [worker EXCEPT ![w] = to] /\ StepFits(to)
  /\ \/ to = Rest
     \/ to.op = worker[w].op /\ to.row = worker[w].row
     \/ /\ to.op = "create" /\ number[to.row].status = "none"
        /\ \A v \in Workers : worker[v].row # to.row
     \/ to.op \notin {"none", "create"} /\ number[to.row].status # "none"

LEMMA WorkersAfter ==
  ASSUME SessionIInv, NEW w \in Workers, NEW to, GoesOnTo(w, to),
         \A r \in Rows : number'[r].status = "none" => number[r].status = "none",
         \A r \in Rows : number[r].status = "none" /\ number'[r].status # "none" =>
           worker[w].op = "create" /\ worker[w].row = r /\ to = Rest
  PROVE  /\ worker' \in [Workers -> WorkerRows] /\ worker'[w] = to
         /\ \A v \in Workers : v # w => worker'[v] = worker[v]
         /\ WorkersFit'
<1>1. /\ worker' \in [Workers -> WorkerRows] /\ worker'[w] = to
      /\ \A v \in Workers : v # w => worker'[v] = worker[v]
  BY WorkerOf DEF GoesOnTo
<1>2. Rest.op = "none" /\ Rest.row = NoSession /\ NoSession \notin Rows /\ Rest.step = "idle"
  BY LineSessionConstants DEF Rest
<1>3. \A v \in Workers : /\ StepFits(worker[v])
                         /\ worker[v].op # "none" => worker[v].row \in Rows
  BY DEF SessionIInv, WorkersFit, StepFits
<1>4. StepFits(to) /\ (to.op # "none" => to.row \in Rows) BY DEF GoesOnTo, StepFits
<1>5. ASSUME NEW v \in Workers, worker'[v].op = "create"
      PROVE  /\ number'[worker'[v].row].status = "none"
             /\ \A u \in Workers : worker'[u].row = worker'[v].row => u = v
  <2>1. CASE v = w
    <3>1. to.op = "create" /\ to # Rest /\ to.row \in Rows BY <1>1, <1>2, <1>4, <1>5, <2>1
    <3>2. /\ number[to.row].status = "none"
          /\ \A u \in Workers : worker[u].row = to.row => u = w
      BY <3>1 DEF GoesOnTo, SessionIInv, WorkersFit
    <3> QED BY <1>1, <2>1, <3>1, <3>2
  <2>2. CASE v # w
    <3>1. worker'[v] = worker[v] /\ worker[v].op = "create" /\ worker[v].row \in Rows
      BY <1>1, <1>3, <1>5, <2>2
    <3>2. /\ number[worker[v].row].status = "none"
          /\ \A u \in Workers : worker[u].row = worker[v].row => u = v
      BY <3>1 DEF SessionIInv, WorkersFit
    <3>3. number'[worker[v].row].status = "none" BY <2>2, <3>1, <3>2
    <3>4. to.row # worker[v].row
      <4>1. CASE to = Rest BY <1>2, <3>1, <4>1
      <4>2. CASE to.op = worker[w].op /\ to.row = worker[w].row BY <2>2, <3>2, <4>2
      <4>3. CASE \A u \in Workers : worker[u].row # to.row BY <4>3
      <4>4. CASE number[to.row].status # "none" BY <3>2, <4>4
      <4> QED BY <4>1, <4>2, <4>3, <4>4 DEF GoesOnTo
    <3> QED BY <1>1, <2>2, <3>1, <3>2, <3>3, <3>4
  <2> QED BY <2>1, <2>2
<1>6. ASSUME NEW v \in Workers, worker'[v].op \notin {"none", "create"}
      PROVE  number'[worker'[v].row].status # "none"
  <2>1. worker'[v].row \in Rows BY <1>1, <1>3, <1>4, <1>6
  <2>2. number[worker'[v].row].status # "none"
    <3>1. CASE v = w BY <1>1, <1>2, <1>6, <3>1 DEF GoesOnTo, SessionIInv, WorkersFit
    <3>2. CASE v # w BY <1>1, <1>6, <3>2 DEF SessionIInv, WorkersFit
    <3> QED BY <3>1, <3>2
  <2> QED BY <2>1, <2>2
<1>7. \A v \in Workers : StepFits(worker'[v]) BY <1>1, <1>3, <1>4
<1>8. WorkersFit' BY <1>5, <1>6, <1>7 DEF WorkersFit, StepFits
<1> QED BY <1>1, <1>8

\* Rows keep their sessions, nobody takes a session in hand, and what is let go of is gone or
\* named lost.
LEMMA HandsAfter ==
  ASSUME SessionIInv, lost \subseteq lost',
         \A r \in Rows : /\ number'[r].session = number[r].session
                         /\ number'[r].status = "none" => number[r].status = "none"
                         /\ number'[r].status = "removed" /\ number[r].status # "removed" =>
                              ~Exists(number[r].session) \/ number[r].session \in lost',
         \A s \in WaxSessions : \/ waxum'[s] \in {waxum[s], "gone"}
                                \/ waxum[s] = "unborn" /\ s \in lost',
         \A w \in Workers : /\ Holding(w)' => Holding(w) /\ worker'[w].session = worker[w].session
                            /\ Holding(w) /\ ~Holding(w)' =>
                                 \/ waxum'[worker[w].session] = "gone"
                                 \/ worker[w].session \in lost'
  PROVE  RowsFit' /\ HandsFit' /\ NoSessionForgotten'
<1>1. \A r \in Rows : number[r].session \in WaxSessions \cup {NoSession} BY WorkerOf DEF NumberRows
<1>2. \A s \in WaxSessions : waxum[s] # "unborn" => waxum'[s] # "unborn" OBVIOUS
<1>3. RowsFit'
  <2>1. OwnSession' BY DEF SessionIInv, RowsFit, OwnSession
  <2>2. \A r \in Rows : number'[r].status = "none" => number'[r].session = NoSession
    BY DEF SessionIInv, RowsFit
  <2>3. \A r \in Rows : number'[r].session # NoSession => waxum'[number'[r].session] # "unborn"
    BY <1>1, <1>2 DEF SessionIInv, RowsFit
  <2> QED BY <2>1, <2>2, <2>3 DEF RowsFit
<1>4. HandsFit' BY <1>2 DEF SessionIInv, HandsFit
<1>5. NoSessionForgotten'
  <2> SUFFICES ASSUME NEW s \in WaxSessions, waxum'[s] = "there", s \notin lost'
               PROVE  \/ \E w \in Workers : worker'[w].session = s /\ Holding(w)'
                      \/ \E r \in Rows : number'[r].session = s /\ number'[r].status # "removed"
    BY DEF NoSessionForgotten, Exists, InHand, Holding
  <2>1. waxum[s] = "there" /\ s \notin lost /\ s # NoSession BY LineSessionConstants
  <2>2. CASE InHand(s)
    <3>1. PICK w \in Workers : worker[w].session = s /\ Holding(w) BY <2>2 DEF InHand, Holding
    <3> QED BY <3>1
  <2>3. CASE ~InHand(s)
    <3>1. PICK r \in Rows : number[r].session = s /\ number[r].status # "removed"
      BY <2>1, <2>3 DEF SessionIInv, NoSessionForgotten, Exists
    <3> QED BY <2>1, <3>1 DEF Exists
  <2> QED BY <2>2, <2>3
<1> QED BY <1>3, <1>4, <1>5

\* The lock is taken by one when it is free, and let go of by whom it belongs to.
LEMMA LockAfter ==
  ASSUME SessionIInv, NEW w \in Workers, NEW to, worker'[w] = to, overrun' = overrun,
         \A v \in Workers : v # w => worker'[v] = worker[v],
         ~overrun /\ to.step \in {"locked", "posts"} => createLock' = w,
         ~overrun /\ to.step = "posts" => ~cooling',
         createLock' \in {createLock, Freed(w)} \/ createLock = NoWorker,
         cooling' = cooling \/ worker[w].step = "posts" \/ ~cooling'
  PROVE  LockFits'
<1> SUFFICES ASSUME ~overrun, NEW v \in Workers
             PROVE  /\ worker'[v].step \in {"locked", "posts"} => createLock' = v
                    /\ worker'[v].step = "posts" => ~cooling'
  BY DEF LockFits
<1>1. CASE v = w BY <1>1
<1>2. CASE v # w
  <2> SUFFICES ASSUME worker[v].step \in {"locked", "posts"}
               PROVE  createLock' = v /\ (worker[v].step = "posts" => ~cooling')
    BY <1>2
  <2>1. createLock = v /\ (worker[v].step = "posts" => ~cooling) BY DEF SessionIInv, LockFits
  <2>2. createLock' = v BY <1>2, <2>1, WorkerOf DEF Freed
  <2>3. worker[w].step # "posts" BY <1>2, <2>1 DEF SessionIInv, LockFits
  <2> QED BY <2>1, <2>2, <2>3
<1> QED BY <1>1, <1>2

\* Any step of a worker but those that put a session into its hand or into a row.
LEMMA StepMoves ==
  ASSUME SessionIInv, NEW w \in Workers, NEW to, GoesOnTo(w, to), overrun' = overrun,
         number' \in [Rows -> NumberRows], waxum' \in [WaxSessions -> {"unborn", "there", "gone"}],
         lost \subseteq lost', lost' \subseteq WaxSessions,
         createLock' \in Workers \cup {NoWorker}, cooling' \in BOOLEAN,
         \A r \in Rows : /\ number'[r].session = number[r].session
                         /\ number'[r].status = "none" <=> number[r].status = "none"
                         /\ number'[r].status = "removed" /\ number[r].status # "removed" =>
                              ~Exists(number[r].session) \/ number[r].session \in lost',
         \A s \in WaxSessions : \/ waxum'[s] \in {waxum[s], "gone"}
                                \/ waxum[s] = "unborn" /\ s \in lost',
         to.step \in {"made", "undo"} => Holding(w) /\ to.session = worker[w].session,
         Holding(w) /\ to.step \notin {"made", "undo"} =>
           waxum'[worker[w].session] = "gone" \/ worker[w].session \in lost',
         ~overrun /\ to.step \in {"locked", "posts"} => createLock' = w,
         ~overrun /\ to.step = "posts" => ~cooling',
         createLock' \in {createLock, Freed(w)} \/ createLock = NoWorker,
         cooling' = cooling \/ worker[w].step = "posts" \/ ~cooling'
  PROVE  SessionIInv'
<1>1. /\ worker' \in [Workers -> WorkerRows] /\ worker'[w] = to
      /\ \A v \in Workers : v # w => worker'[v] = worker[v]
      /\ WorkersFit'
  BY WorkersAfter
<1>2. \A v \in Workers : /\ Holding(v)' => Holding(v) /\ worker'[v].session = worker[v].session
                         /\ Holding(v) /\ ~Holding(v)' =>
                              \/ waxum'[worker[v].session] = "gone"
                              \/ worker[v].session \in lost'
  BY <1>1 DEF Holding
<1>3. RowsFit' /\ HandsFit' /\ NoSessionForgotten' BY <1>2, HandsAfter
<1>4. LockFits' BY <1>1, LockAfter
<1>5. LineSessionTypeOK'
  <2>1. overrun' \in BOOLEAN BY DEF SessionIInv, LineSessionTypeOK
  <2> QED BY <1>1, <2>1 DEF LineSessionTypeOK, NumberRows, WorkerRows
<1> QED BY <1>1, <1>3, <1>4, <1>5 DEF SessionIInv

LEMMA SessionParts ==
  ASSUME SessionIInv
  PROVE  /\ number \in [Rows -> NumberRows] /\ worker \in [Workers -> WorkerRows]
         /\ waxum \in [WaxSessions -> {"unborn", "there", "gone"}] /\ lost \subseteq WaxSessions
         /\ createLock \in Workers \cup {NoWorker} /\ cooling \in BOOLEAN /\ overrun \in BOOLEAN
         /\ \A w \in Workers : /\ worker[w] \in WorkerRows /\ StepFits(worker[w])
                               /\ Freed(w) \in Workers \cup {NoWorker}
         /\ \A r \in Rows : /\ number[r] \in NumberRows
                            /\ number[r].session \in WaxSessions \cup {NoSession}
         /\ Rest \in WorkerRows /\ StepFits(Rest) /\ Rest.step = "idle"
<1>1. /\ number \in [Rows -> NumberRows] /\ worker \in [Workers -> WorkerRows]
      /\ waxum \in [WaxSessions -> {"unborn", "there", "gone"}] /\ lost \subseteq WaxSessions
      /\ createLock \in Workers \cup {NoWorker} /\ cooling \in BOOLEAN /\ overrun \in BOOLEAN
  BY WorkerOf DEF SessionIInv, LineSessionTypeOK
<1>2. \A w \in Workers : worker[w] \in WorkerRows /\ StepFits(worker[w])
  BY <1>1 DEF SessionIInv, WorkersFit, StepFits
<1>3. \A w \in Workers : Freed(w) \in Workers \cup {NoWorker} BY <1>1 DEF Freed
<1>4. Rest \in WorkerRows /\ StepFits(Rest) /\ Rest.step = "idle"
  BY DEF Rest, WorkerRows, StepFits, Operations, Steps, AskSteps
<1>5. \A r \in Rows : number[r] \in NumberRows /\ number[r].session \in WaxSessions \cup {NoSession}
  BY <1>1 DEF NumberRows
<1> QED BY <1>1, <1>2, <1>3, <1>4, <1>5

\* What begins: a creation of a row that nobody has, or something about a row that is there.
LEMMA StepCreate ==
  ASSUME SessionIInv, NEW w \in Workers, NEW r \in Rows, Create(w, r) PROVE SessionIInv'
<1> DEFINE to == [Rest EXCEPT !.op = "create", !.row = r, !.step = "asks"]
<1>1. /\ worker[w].step = "idle" /\ number[r].status = "none" /\ \A v \in Workers : worker[v].row # r
      /\ worker' = [worker EXCEPT ![w] = to]
      /\ UNCHANGED <<number, waxum, cooling, createLock, overrun, lost>>
  BY DEF Create, Does
<1>2. to \in WorkerRows /\ to.op = "create" /\ to.row = r /\ to.step = "asks"
  BY DEF Rest, WorkerRows, Operations, Steps
<1> HIDE DEF to
<1>3. GoesOnTo(w, to) BY <1>1, <1>2 DEF GoesOnTo, StepFits, AskSteps
<1> QED BY <1>1, <1>2, <1>3, SessionParts, StepMoves DEF Holding

LEMMA StepBegins ==
  ASSUME SessionIInv, NEW w \in Workers, NEW r \in Rows,
         NEW op \in {"qr", "reconnect", "sync", "recover", "remove"}, NEW step \in {"looks", "deletes"},
         worker[w].step = "idle", number[r].status # "none",
         worker' = [worker EXCEPT ![w] = [op |-> op, row |-> r, step |-> step,
                                          session |-> number[r].session]],
         number' = number \/ number' = [number EXCEPT ![r].status = "listed"],
         UNCHANGED <<waxum, cooling, createLock, overrun, lost>>
  PROVE  SessionIInv'
<1> DEFINE to == [op |-> op, row |-> r, step |-> step, session |-> number[r].session]
           listed == [number[r] EXCEPT !.status = "listed"]
<1>1. number[r] \in NumberRows /\ number[r].session \in WaxSessions \cup {NoSession} BY SessionParts
<1>2. to \in WorkerRows /\ to.op = op /\ to.row = r /\ to.step = step
  BY <1>1 DEF WorkerRows, Operations, Steps
<1>3. listed \in NumberRows /\ listed.status = "listed" /\ listed.session = number[r].session
  BY <1>1 DEF NumberRows, LineStatus
<1>4. number' = number \/ number' = [number EXCEPT ![r] = listed] OBVIOUS
<1>5. worker' = [worker EXCEPT ![w] = to] OBVIOUS
<1> HIDE DEF to, listed
<1>6. GoesOnTo(w, to) BY <1>2, <1>5 DEF GoesOnTo, StepFits, AskSteps
<1>7. /\ number' \in [Rows -> NumberRows]
      /\ \A q \in Rows : number'[q] = number[q] \/ (q = r /\ number'[q] = listed)
  BY <1>3, <1>4, SessionParts
<1>8. \A q \in Rows : /\ number'[q].session = number[q].session
                      /\ number'[q].status = "none" <=> number[q].status = "none"
                      /\ ~(number'[q].status = "removed" /\ number[q].status # "removed")
  BY <1>3, <1>7
<1> QED BY <1>2, <1>6, <1>7, <1>8, SessionParts, StepMoves DEF Holding

LEMMA StepStarts ==
  ASSUME SessionIInv, NEW w \in Workers, NEW r \in Rows,
         \/ Create(w, r) \/ Sync(w, r) \/ Recover(w, r) \/ RemoveLine(w, r)
         \/ \E op \in {"qr", "reconnect"} : Open(w, r, op)
  PROVE  SessionIInv'
<1>1. CASE Create(w, r) BY <1>1, StepCreate
<1>2. CASE Sync(w, r) BY <1>2, StepBegins DEF Sync, Does
<1>3. CASE Recover(w, r) BY <1>3, StepBegins DEF Recover, Does
<1>4. CASE RemoveLine(w, r) BY <1>4, StepBegins DEF RemoveLine, Does
<1>5. ASSUME NEW op \in {"qr", "reconnect"}, Open(w, r, op) PROVE SessionIInv'
  BY <1>5, StepBegins DEF Open, Does
<1> QED BY <1>1, <1>2, <1>3, <1>4, <1>5

-----------------------------------------------------------------------------
\* A step further in what a worker does, or its end: where the operation and the row stay.
LEMMA GoesOn ==
  ASSUME SessionIInv, NEW w \in Workers, NEW step \in Steps, worker[w].step # "idle",
         worker[w].op = "create" => step \in AskSteps \cup {"undo"},
         step \in AskSteps => worker[w].op \in {"create", "qr", "reconnect"},
         step = "undo" => worker[w].op = "create", step # "idle", Goes(w, step)
  PROVE  \E to : GoesOnTo(w, to) /\ to.step = step /\ to.session = worker[w].session
<1> DEFINE to == [worker[w] EXCEPT !.step = step]
<1>1. worker[w] \in WorkerRows /\ StepFits(worker[w]) BY SessionParts
<1>2. /\ to \in WorkerRows /\ to.step = step /\ to.op = worker[w].op /\ to.row = worker[w].row
      /\ to.session = worker[w].session
  BY <1>1 DEF WorkerRows
<1>3. worker' = [worker EXCEPT ![w] = to] BY DEF Goes
<1> HIDE DEF to
<1>4. GoesOnTo(w, to) BY <1>1, <1>2, <1>3 DEF GoesOnTo, StepFits
<1> QED BY <1>2, <1>4

LEMMA ComesToRest ==
  ASSUME SessionIInv, NEW w \in Workers, Done(w)
  PROVE  GoesOnTo(w, Rest) /\ Rest.step = "idle"
BY SessionParts DEF Done, GoesOnTo

LEMMA StepAsks ==
  ASSUME SessionIInv, NEW w \in Workers,
         AsksCooldown(w) \/ acquireLock(w) \/ LooksAgain(w) \/ Limited(w) \/ Refused(w)
  PROVE  SessionIInv'
<1>1. number \in [Rows -> NumberRows] /\ waxum \in [WaxSessions -> {"unborn", "there", "gone"}]
      /\ lost \subseteq WaxSessions /\ createLock \in Workers \cup {NoWorker} /\ cooling \in BOOLEAN
      /\ Freed(w) \in Workers \cup {NoWorker} /\ StepFits(worker[w])
  BY SessionParts
<1>2. ~overrun /\ worker[w].step = "locked" => createLock = w BY DEF SessionIInv, LockFits
<1>3. CASE AsksCooldown(w)
  <2>1. worker[w].step = "asks" /\ UNCHANGED <<number, waxum, cooling, createLock, overrun, lost>>
    BY <1>3 DEF AsksCooldown, Does
  <2>2. \E to : GoesOnTo(w, to) /\ to.step \in {"idle", "queues"}
    <3>1. CASE Done(w) BY <3>1, ComesToRest
    <3>2. CASE Goes(w, "queues") BY <1>1, <2>1, <3>2, GoesOn DEF StepFits, AskSteps, Steps
    <3> QED BY <1>3, <3>1, <3>2 DEF AsksCooldown
  <2> QED BY <1>1, <2>1, <2>2, StepMoves DEF Holding
<1>4. CASE acquireLock(w)
  <2>1. worker[w].step = "queues" /\ UNCHANGED <<number, waxum, cooling, overrun, lost>>
    BY <1>4 DEF acquireLock, Does
  <2>2. \E to : /\ GoesOnTo(w, to)
                /\ \/ to.step = "idle" /\ createLock' = createLock
                   \/ to.step = "locked" /\ createLock = NoWorker /\ createLock' = w
    <3>1. CASE Done(w) /\ UNCHANGED createLock BY <3>1, ComesToRest
    <3>2. CASE createLock = NoWorker /\ createLock' = w /\ Goes(w, "locked")
      BY <1>1, <2>1, <3>2, GoesOn DEF StepFits, AskSteps, Steps
    <3> QED BY <1>4, <3>1, <3>2 DEF acquireLock
  <2> QED BY <1>1, <2>1, <2>2, StepMoves DEF Holding
<1>5. CASE LooksAgain(w)
  <2>1. worker[w].step = "locked" /\ UNCHANGED <<number, waxum, cooling, overrun, lost>>
    BY <1>5 DEF LooksAgain, Does
  <2>2. \E to : /\ GoesOnTo(w, to)
                /\ \/ to.step = "idle" /\ createLock' = Freed(w)
                   \/ to.step = "posts" /\ ~cooling /\ createLock' = createLock
    <3>1. CASE Done(w) /\ createLock' = Freed(w) BY <3>1, ComesToRest
    <3>2. CASE ~cooling /\ Goes(w, "posts") /\ UNCHANGED createLock
      BY <1>1, <2>1, <3>2, GoesOn DEF StepFits, AskSteps, Steps
    <3> QED BY <1>5, <3>1, <3>2 DEF LooksAgain
  <2> QED BY <1>1, <1>2, <2>1, <2>2, StepMoves DEF Holding
<1>6. CASE Limited(w)
  <2>1. /\ worker[w].step = "posts" /\ cooling' = TRUE /\ createLock' = Freed(w)
        /\ UNCHANGED <<number, waxum, overrun, lost>> /\ Done(w)
    BY <1>6 DEF Limited, Does
  <2> QED BY <1>1, <2>1, ComesToRest, StepMoves DEF Holding
<1>7. CASE Refused(w)
  <2>1. /\ worker[w].step = "made" /\ worker[w].op = "create" /\ Goes(w, "undo")
        /\ UNCHANGED <<number, waxum, cooling, createLock, overrun, lost>>
    BY <1>7 DEF Refused, Does
  <2>2. \E to : GoesOnTo(w, to) /\ to.step = "undo" /\ to.session = worker[w].session
    BY <2>1, GoesOn DEF AskSteps, Steps
  <2> QED BY <1>1, <2>1, <2>2, StepMoves DEF Holding
<1> QED BY <1>3, <1>4, <1>5, <1>6, <1>7

LEMMA StepLooks ==
  ASSUME SessionIInv, NEW w \in Workers, Looks(w) \/ NoAnswer(w) \/ Writes(w) PROVE SessionIInv'
<1> DEFINE r == worker[w].row
           listed == [number[r] EXCEPT !.status = "listed"]
<1>1. /\ worker[w].step \in {"looks", "writes"} /\ UNCHANGED <<waxum, cooling, createLock, overrun, lost>>
      /\ number' = number \/ number' = [number EXCEPT ![r].status = "listed"]
  BY DEF Looks, NoAnswer, Writes, Does
<1>2. /\ r \in Rows /\ worker[w].op \notin {"none", "create"} /\ number[r].status # "none"
      /\ worker[w] \in WorkerRows
  <2>1. StepFits(worker[w]) /\ worker[w] \in WorkerRows BY SessionParts
  <2>2. worker[w].op \notin {"none", "create"} /\ r \in Rows BY <1>1, <2>1 DEF StepFits, AskSteps
  <2> QED BY <2>1, <2>2 DEF SessionIInv, WorkersFit
<1>3. listed \in NumberRows /\ listed.status = "listed" /\ listed.session = number[r].session
  BY <1>2, SessionParts DEF NumberRows, LineStatus
<1>4. number' = number \/ number' = [number EXCEPT ![r] = listed] BY <1>1
<1> HIDE DEF listed
<1>5. /\ number' \in [Rows -> NumberRows]
      /\ \A q \in Rows : number'[q] = number[q] \/ (q = r /\ number'[q] = listed)
  BY <1>2, <1>3, <1>4, SessionParts
<1>6. \A q \in Rows : /\ number'[q].session = number[q].session
                      /\ number'[q].status = "none" <=> number[q].status = "none"
                      /\ ~(number'[q].status = "removed" /\ number[q].status # "removed")
  BY <1>2, <1>3, <1>5
<1>7. \E to : GoesOnTo(w, to) /\ to.step \in {"idle", "asks", "writes"}
  <2>1. CASE Done(w) BY <2>1, ComesToRest
  <2>2. CASE Looks(w)
    <3> DEFINE asks == [worker[w] EXCEPT !.step = "asks", !.session = NoSession]
               writes == [worker[w] EXCEPT !.step = "writes"]
               missing == worker[w].op \in {"qr", "reconnect"} /\ ~Exists(worker[w].session)
               to == IF missing THEN asks ELSE IF worker[w].op = "reconnect" THEN Rest ELSE writes
    <3>1. worker' = [worker EXCEPT ![w] = to] BY <2>2 DEF Looks, WorkerOf, SessionIInv, LineSessionTypeOK
    <3>2. /\ asks \in WorkerRows /\ asks.step = "asks" /\ asks.op = worker[w].op /\ asks.row = r
          /\ writes \in WorkerRows /\ writes.step = "writes" /\ writes.op = worker[w].op /\ writes.row = r
      BY <1>2 DEF WorkerRows, Steps
    <3> HIDE DEF asks, writes
    <3>3. to = Rest \/ (to = asks /\ worker[w].op \in {"qr", "reconnect"}) \/ to = writes OBVIOUS
    <3> HIDE DEF to
    <3>4. to \in WorkerRows /\ StepFits(to) /\ to.step \in {"idle", "asks", "writes"}
          /\ (to = Rest \/ (to.op = worker[w].op /\ to.row = worker[w].row))
      BY <1>2, <3>2, <3>3, SessionParts DEF StepFits, AskSteps
    <3> QED BY <3>1, <3>4 DEF GoesOnTo
  <2> QED BY <2>1, <2>2 DEF NoAnswer, Writes
<1>8. worker[w].step \notin {"made", "undo"} BY <1>1
<1> QED BY <1>1, <1>5, <1>6, <1>7, <1>8, SessionParts, StepMoves DEF Holding

LEMMA StepPostFails ==
  ASSUME SessionIInv, NEW w \in Workers, PostFails(w) \/ \E s \in WaxSessions : PostsAgain(w, s)
  PROVE  SessionIInv'
<1>1. /\ number \in [Rows -> NumberRows] /\ waxum \in [WaxSessions -> {"unborn", "there", "gone"}]
      /\ lost \subseteq WaxSessions /\ createLock \in Workers \cup {NoWorker} /\ cooling \in BOOLEAN
      /\ Freed(w) \in Workers \cup {NoWorker} /\ StepFits(worker[w]) /\ worker[w] \in WorkerRows
      /\ worker \in [Workers -> WorkerRows]
  BY SessionParts
<1>2. /\ worker[w].step = "posts" /\ UNCHANGED <<number, cooling, overrun>>
      /\ \/ UNCHANGED <<waxum, lost>>
         \/ \E s \in WaxSessions : Newborn(s) /\ lost' = lost \cup {s}
  BY DEF PostFails, PostsAgain, Does
<1>3. /\ waxum' \in [WaxSessions -> {"unborn", "there", "gone"}] /\ lost \subseteq lost'
      /\ lost' \subseteq WaxSessions
      /\ \A s \in WaxSessions : waxum'[s] \in {waxum[s], "gone"} \/ (waxum[s] = "unborn" /\ s \in lost')
  BY <1>1, <1>2 DEF Newborn
<1>4. \E to : /\ GoesOnTo(w, to)
              /\ \/ to.step = "idle" /\ createLock' = Freed(w)
                 \/ to.step = "posts" /\ createLock' = createLock
  <2>1. CASE PostFails(w) BY <2>1, ComesToRest DEF PostFails
  <2>2. CASE \E s \in WaxSessions : PostsAgain(w, s)
    <3>1. worker' = worker /\ createLock' = createLock BY <2>2 DEF PostsAgain
    <3>2. worker' = [worker EXCEPT ![w] = worker[w]] BY <1>1, <3>1
    <3>3. GoesOnTo(w, worker[w]) BY <1>1, <3>2 DEF GoesOnTo
    <3> QED BY <1>2, <3>1, <3>3
  <2> QED BY <2>1, <2>2
<1>5. ~overrun => createLock = w /\ ~cooling BY <1>2 DEF SessionIInv, LockFits
<1> QED BY <1>1, <1>2, <1>3, <1>4, <1>5, StepMoves DEF Holding

LEMMA StepLetsGo ==
  ASSUME SessionIInv, NEW w \in Workers,
         Undoes(w, TRUE) \/ Undoes(w, FALSE) \/ Deletes(w) \/ Removes(w) \/ Dies(w)
  PROVE  SessionIInv'
<1>1. /\ number \in [Rows -> NumberRows] /\ waxum \in [WaxSessions -> {"unborn", "there", "gone"}]
      /\ lost \subseteq WaxSessions /\ createLock \in Workers \cup {NoWorker} /\ cooling \in BOOLEAN
      /\ StepFits(worker[w]) /\ worker[w] \in WorkerRows
  BY SessionParts
<1>2. Holding(w) => worker[w].session \in WaxSessions BY DEF SessionIInv, HandsFit
<1>3. CASE Undoes(w, TRUE) \/ Undoes(w, FALSE)
  <2>1. /\ worker[w].step = "undo" /\ Done(w) /\ UNCHANGED <<number, cooling, createLock, overrun>>
        /\ \/ waxum' = [waxum EXCEPT ![worker[w].session] = "gone"] /\ lost' = lost
           \/ waxum' = waxum /\ lost' = lost \cup {worker[w].session}
    BY <1>3 DEF Undoes, Does
  <2>2. worker[w].session \in WaxSessions BY <1>2, <2>1 DEF Holding
  <2>3. /\ waxum' \in [WaxSessions -> {"unborn", "there", "gone"}] /\ lost \subseteq lost'
        /\ lost' \subseteq WaxSessions /\ \A s \in WaxSessions : waxum'[s] \in {waxum[s], "gone"}
        /\ waxum'[worker[w].session] = "gone" \/ worker[w].session \in lost'
    BY <1>1, <2>1, <2>2
  <2> QED BY <1>1, <2>1, <2>3, SessionParts, ComesToRest, StepMoves
<1>4. CASE Deletes(w)
  <2>1. /\ worker[w].step = "deletes" /\ UNCHANGED <<number, cooling, createLock, overrun, lost>>
        /\ waxum' = waxum \/ waxum' = [waxum EXCEPT ![worker[w].session] = "gone"]
    BY <1>4 DEF Deletes, Does
  <2>2. /\ waxum' \in [WaxSessions -> {"unborn", "there", "gone"}]
        /\ \A s \in WaxSessions : waxum'[s] \in {waxum[s], "gone"}
    BY <1>1, <2>1
  <2>3. \E to : GoesOnTo(w, to) /\ to.step \in {"idle", "removes"}
    <3>1. CASE Done(w) BY <3>1, ComesToRest
    <3>2. CASE Goes(w, "removes") BY <1>1, <2>1, <3>2, GoesOn DEF StepFits, AskSteps, Steps
    <3> QED BY <1>4, <3>1, <3>2 DEF Deletes
  <2> QED BY <1>1, <2>1, <2>2, <2>3, StepMoves DEF Holding
<1>5. CASE Removes(w)
  <2> DEFINE r == worker[w].row
             gone == [number[r] EXCEPT !.status = "removed"]
             old == number[r].session
  <2>1. /\ worker[w].step = "removes" /\ Done(w) /\ UNCHANGED <<waxum, cooling, createLock, overrun>>
        /\ number' = [number EXCEPT ![r] = gone]
        /\ lost' = IF Exists(old) THEN lost \cup {old} ELSE lost
    BY <1>5 DEF Removes, Does, RowOf
  <2>2. worker[w].op \notin {"none", "create"} /\ r \in Rows
    BY <1>1, <2>1 DEF StepFits, AskSteps
  <2>3. number[r].status # "none" /\ number[r] \in NumberRows
    BY <1>1, <2>2 DEF SessionIInv, WorkersFit
  <2>4. gone \in NumberRows /\ gone.status = "removed" /\ gone.session = old
    BY <2>3 DEF NumberRows, LineStatus
  <2> HIDE DEF gone
  <2>5. /\ number' \in [Rows -> NumberRows] /\ number'[r] = gone
        /\ \A q \in Rows : q # r => number'[q] = number[q]
    BY <1>1, <2>1, <2>2, <2>4
  <2>6. lost \subseteq lost' /\ lost' \subseteq WaxSessions /\ (Exists(old) => old \in lost')
    <3>1. old \in WaxSessions \cup {NoSession} BY <2>2, SessionParts
    <3> QED BY <1>1, <2>1, <3>1 DEF Exists
  <2>7. \A q \in Rows : /\ number'[q].session = number[q].session
                        /\ number'[q].status = "none" <=> number[q].status = "none"
                        /\ number'[q].status = "removed" /\ number[q].status # "removed" =>
                             ~Exists(number[q].session) \/ number[q].session \in lost'
    BY <2>3, <2>4, <2>5, <2>6
  <2> QED BY <1>1, <2>1, <2>5, <2>6, <2>7, SessionParts, ComesToRest, StepMoves DEF Holding
<1>6. CASE Dies(w)
  <2>1. /\ Done(w) /\ UNCHANGED <<number, waxum, cooling, createLock, overrun>>
        /\ lost' = IF Holding(w) THEN lost \cup {worker[w].session} ELSE lost
    BY <1>6 DEF Dies, Does, Holding
  <2> QED BY <1>1, <1>2, <2>1, SessionParts, ComesToRest, StepMoves
<1> QED BY <1>3, <1>4, <1>5, <1>6

\* A session is born into the hand of who asked for it.
LEMMA StepMade ==
  ASSUME SessionIInv, NEW w \in Workers, NEW s \in WaxSessions, Made(w, s) PROVE SessionIInv'
<1> DEFINE to == [worker[w] EXCEPT !.step = "made", !.session = s]
<1>1. /\ worker[w].step = "posts" /\ waxum[s] = "unborn" /\ waxum' = [waxum EXCEPT ![s] = "there"]
      /\ worker' = [worker EXCEPT ![w] = to] /\ createLock' = Freed(w)
      /\ UNCHANGED <<number, cooling, overrun, lost>>
  BY DEF Made, Does, Newborn
<1>2. worker[w] \in WorkerRows /\ StepFits(worker[w]) BY SessionParts
<1>3. /\ to \in WorkerRows /\ to.step = "made" /\ to.op = worker[w].op /\ to.row = worker[w].row
      /\ to.session = s
  BY <1>2 DEF WorkerRows, Steps
<1> HIDE DEF to
<1>4. GoesOnTo(w, to) BY <1>1, <1>2, <1>3 DEF GoesOnTo, StepFits, AskSteps
<1>5. /\ worker' \in [Workers -> WorkerRows] /\ worker'[w] = to
      /\ \A v \in Workers : v # w => worker'[v] = worker[v]
      /\ WorkersFit'
  BY <1>1, <1>4, WorkersAfter
<1>6. /\ waxum' \in [WaxSessions -> {"unborn", "there", "gone"}] /\ waxum'[s] = "there"
      /\ \A x \in WaxSessions : x # s => waxum'[x] = waxum[x]
  BY <1>1, SessionParts
<1>7. LineSessionTypeOK'
  BY <1>1, <1>5, <1>6, SessionParts DEF LineSessionTypeOK, NumberRows, WorkerRows
<1>8. /\ \A r \in Rows : number[r].session # s
      /\ \A v \in Workers : Holding(v) => worker[v].session # s
      /\ ~Holding(w)
  BY <1>1, LineSessionConstants DEF SessionIInv, RowsFit, HandsFit, Holding
<1>9. RowsFit'
  <2>1. OwnSession' BY <1>1 DEF SessionIInv, RowsFit, OwnSession
  <2>2. \A r \in Rows : number[r].session # NoSession => waxum'[number[r].session] # "unborn"
    BY <1>6, SessionParts DEF SessionIInv, RowsFit
  <2> QED BY <1>1, <2>1, <2>2 DEF SessionIInv, RowsFit
<1>10. HandsFit'
  <2> SUFFICES ASSUME NEW v \in Workers, Holding(v)'
               PROVE  /\ worker'[v].session \in WaxSessions /\ waxum'[worker'[v].session] # "unborn"
                      /\ \A r \in Rows : number[r].session # worker'[v].session
                      /\ \A u \in Workers : Holding(u)' /\ worker'[u].session = worker'[v].session => u = v
    BY <1>1 DEF HandsFit
  <2>1. \A u \in Workers : u # w => (Holding(u)' <=> Holding(u)) BY <1>5 DEF Holding
  <2>2. CASE v = w BY <1>3, <1>5, <1>6, <1>8, <2>1, <2>2
  <2>3. CASE v # w
    <3>1. Holding(v) /\ worker'[v] = worker[v] /\ worker[v].session # s BY <1>5, <1>8, <2>1, <2>3
    <3>2. /\ worker[v].session \in WaxSessions /\ waxum[worker[v].session] # "unborn"
          /\ \A r \in Rows : number[r].session # worker[v].session
          /\ \A u \in Workers : Holding(u) /\ worker[u].session = worker[v].session => u = v
      BY <3>1 DEF SessionIInv, HandsFit
    <3> QED BY <1>3, <1>5, <1>6, <2>1, <3>1, <3>2
  <2> QED BY <2>2, <2>3
<1>11. NoSessionForgotten'
  <2> SUFFICES ASSUME NEW x \in WaxSessions, waxum'[x] = "there", x \notin lost
               PROVE  \/ \E v \in Workers : worker'[v].session = x /\ worker'[v].step \in {"made", "undo"}
                      \/ \E r \in Rows : number[r].session = x /\ number[r].status # "removed"
    BY <1>1 DEF NoSessionForgotten, Exists, InHand
  <2>1. CASE x = s BY <1>3, <1>5, <2>1
  <2>2. CASE x # s
    <3>1. Exists(x) BY <1>6, <2>2, LineSessionConstants DEF Exists
    <3>2. CASE \E r \in Rows : number[r].session = x /\ number[r].status # "removed" BY <3>2
    <3>3. CASE InHand(x)
      <4>1. PICK v \in Workers : worker[v].session = x /\ worker[v].step \in {"made", "undo"}
        BY <3>3 DEF InHand
      <4>2. v # w BY <1>8, <4>1 DEF Holding
      <4> QED BY <1>5, <4>1, <4>2
    <3> QED BY <3>1, <3>2, <3>3 DEF SessionIInv, NoSessionForgotten
  <2> QED BY <2>1, <2>2
<1>12. LockFits' BY <1>1, <1>3, <1>5, LockAfter
<1> QED BY <1>5, <1>7, <1>9, <1>10, <1>11, <1>12 DEF SessionIInv

\* From the hand into the row, new or replaced.
LEMMA StepRowTakes ==
  ASSUME SessionIInv, NEW w \in Workers, Inserts(w) \/ Replaces(w) PROVE SessionIInv'
<1> DEFINE r == worker[w].row
           s == worker[w].session
           old == number[r].session
           new == [status |-> "listed", session |-> s]
<1>1. /\ worker[w].step = "made" /\ number' = [number EXCEPT ![r] = new]
      /\ UNCHANGED <<waxum, cooling, createLock, overrun>>
  BY DEF Inserts, Replaces, Does
<1>2. /\ Holding(w) /\ s \in WaxSessions /\ waxum[s] # "unborn" /\ s # NoSession
      /\ \A q \in Rows : number[q].session # s
      /\ \A v \in Workers : Holding(v) /\ worker[v].session = s => v = w
  BY <1>1, LineSessionConstants DEF SessionIInv, HandsFit, Holding
<1>3. /\ worker[w] \in WorkerRows /\ StepFits(worker[w]) /\ r \in Rows
      /\ old \in WaxSessions \cup {NoSession}
  BY <1>1, SessionParts DEF StepFits
<1>4. /\ lost \subseteq lost' /\ lost' \subseteq WaxSessions
      /\ Exists(old) => old \in lost'
  <2>1. CASE Inserts(w)
    <3>1. number[r].status = "none" BY <2>1 DEF Inserts, SessionIInv, WorkersFit
    <3>2. old = NoSession BY <1>3, <3>1 DEF SessionIInv, RowsFit
    <3> QED BY <2>1, <3>2, SessionParts DEF Inserts, Exists
  <2>2. CASE Replaces(w)
    <3>1. lost' = IF Exists(old) THEN lost \cup {old} ELSE lost BY <2>2 DEF Replaces, RowOf
    <3> QED BY <1>3, <3>1, SessionParts DEF Exists
  <2> QED BY <2>1, <2>2
<1>5. new \in NumberRows /\ new.status = "listed" /\ new.session = s
  BY <1>2 DEF NumberRows, LineStatus
<1> HIDE DEF new
<1>6. /\ number' \in [Rows -> NumberRows] /\ number'[r] = new
      /\ \A q \in Rows : q # r => number'[q] = number[q]
  BY <1>1, <1>3, <1>5, SessionParts
<1>7. \E to : GoesOnTo(w, to) /\ to.step \in {"idle", "looks"} /\ (worker[w].op = "create" => to = Rest)
  <2>1. CASE Done(w) BY <2>1, ComesToRest
  <2>2. CASE worker[w].op = "qr" /\ Goes(w, "looks")
    BY <1>1, <2>2, GoesOn DEF AskSteps, Steps
  <2> QED BY <2>1, <2>2 DEF Inserts, Replaces
<1>8. PICK to : GoesOnTo(w, to) /\ to.step \in {"idle", "looks"} /\ (worker[w].op = "create" => to = Rest)
  BY <1>7
<1>9. /\ \A q \in Rows : number'[q].status = "none" => number[q].status = "none"
      /\ \A q \in Rows : number[q].status = "none" /\ number'[q].status # "none" =>
           worker[w].op = "create" /\ worker[w].row = q /\ to = Rest
  <2>1. number[r].status = "none" => worker[w].op = "create"
    BY <1>1, <1>3 DEF StepFits, SessionIInv, WorkersFit
  <2> QED BY <1>5, <1>6, <1>8, <2>1
<1>10. /\ worker' \in [Workers -> WorkerRows] /\ worker'[w] = to
       /\ \A v \in Workers : v # w => worker'[v] = worker[v]
       /\ WorkersFit'
  BY <1>8, <1>9, WorkersAfter
<1>11. LineSessionTypeOK'
  BY <1>1, <1>4, <1>6, <1>10, SessionParts DEF LineSessionTypeOK, NumberRows, WorkerRows
<1>12. RowsFit'
  <2>1. OwnSession' BY <1>2, <1>5, <1>6 DEF SessionIInv, RowsFit, OwnSession
  <2>2. \A q \in Rows : number'[q].status = "none" => number'[q].session = NoSession
    BY <1>5, <1>6 DEF SessionIInv, RowsFit
  <2>3. \A q \in Rows : number'[q].session # NoSession => waxum[number'[q].session] # "unborn"
    BY <1>2, <1>5, <1>6 DEF SessionIInv, RowsFit
  <2> QED BY <1>1, <2>1, <2>2, <2>3 DEF RowsFit
<1>13. \A v \in Workers : /\ Holding(v)' => Holding(v) /\ v # w /\ worker'[v] = worker[v]
                          /\ Holding(v) /\ v # w => Holding(v)'
  BY <1>8, <1>10 DEF Holding
<1>14. HandsFit'
  <2> SUFFICES ASSUME NEW v \in Workers, Holding(v)'
               PROVE  /\ worker'[v].session \in WaxSessions /\ waxum[worker'[v].session] # "unborn"
                      /\ \A q \in Rows : number'[q].session # worker'[v].session
                      /\ \A u \in Workers : Holding(u)' /\ worker'[u].session = worker'[v].session => u = v
    BY <1>1 DEF HandsFit
  <2>1. Holding(v) /\ worker'[v] = worker[v] /\ worker[v].session # s BY <1>2, <1>13
  <2>2. /\ worker[v].session \in WaxSessions /\ waxum[worker[v].session] # "unborn"
        /\ \A q \in Rows : number[q].session # worker[v].session
        /\ \A u \in Workers : Holding(u) /\ worker[u].session = worker[v].session => u = v
    BY <2>1 DEF SessionIInv, HandsFit
  <2> QED BY <1>5, <1>6, <1>13, <2>1, <2>2
<1>15. NoSessionForgotten'
  <2> SUFFICES ASSUME NEW x \in WaxSessions, waxum[x] = "there", x \notin lost'
               PROVE  \/ \E v \in Workers : worker'[v].session = x /\ worker'[v].step \in {"made", "undo"}
                      \/ \E q \in Rows : number'[q].session = x /\ number'[q].status # "removed"
    BY <1>1 DEF NoSessionForgotten, Exists, InHand
  <2>1. CASE x = s BY <1>3, <1>5, <1>6, <2>1
  <2>2. CASE x # s
    <3>1. Exists(x) /\ x \notin lost BY <1>4, LineSessionConstants DEF Exists
    <3>2. CASE InHand(x)
      <4>1. PICK v \in Workers : worker[v].session = x /\ Holding(v) BY <3>2 DEF InHand, Holding
      <4>2. v # w BY <2>2, <4>1
      <4> QED BY <1>10, <4>1, <4>2 DEF Holding
    <3>3. CASE \E q \in Rows : number[q].session = x /\ number[q].status # "removed"
      <4>1. PICK q \in Rows : number[q].session = x /\ number[q].status # "removed" BY <3>3
      <4>2. q # r BY <1>4, <3>1, <4>1
      <4> QED BY <1>6, <4>1, <4>2
    <3> QED BY <3>1, <3>2, <3>3 DEF SessionIInv, NoSessionForgotten
  <2> QED BY <2>1, <2>2
<1>16. LockFits'
  <2>1. to.step \notin {"locked", "posts"} BY <1>8
  <2> QED BY <1>1, <1>10, <2>1, LockAfter
<1> QED BY <1>10, <1>11, <1>12, <1>14, <1>15, <1>16 DEF SessionIInv

\* What time and Waxum do by themselves.
LEMMA StepOfItself ==
  ASSUME SessionIInv, LockRunsOut \/ CooldownEnds \/ (\E s \in WaxSessions : Forgets(s)) \/ UNCHANGED sessionVars
  PROVE  SessionIInv'
<1>1. /\ UNCHANGED <<number, worker, lost>>
      /\ waxum' = waxum \/ \E s \in WaxSessions : waxum' = [waxum EXCEPT ![s] = "gone"]
      /\ cooling' \in BOOLEAN /\ (cooling' => cooling) /\ createLock' \in {createLock, NoWorker}
      /\ overrun' \in BOOLEAN /\ (overrun => overrun')
  <2>1. CASE LockRunsOut
    <3>1. overrun' = (overrun \/ Does(createLock, "posts") \/ Does(createLock, "locked"))
      BY <2>1 DEF LockRunsOut
    <3>2. overrun' \in BOOLEAN /\ (overrun => overrun') BY <3>1
    <3>3. UNCHANGED <<number, worker, lost, waxum, cooling>> /\ createLock' = NoWorker
      BY <2>1 DEF LockRunsOut
    <3>4. cooling' \in BOOLEAN /\ (cooling' => cooling) BY <3>3, SessionParts
    <3> QED BY <3>2, <3>3, <3>4
  <2>2. CASE CooldownEnds
    <3>1. UNCHANGED <<number, worker, lost, waxum, createLock, overrun>> /\ cooling' = FALSE
      BY <2>2 DEF CooldownEnds
    <3>2. cooling' \in BOOLEAN /\ (cooling' => cooling) BY <3>1
    <3>3. overrun' \in BOOLEAN /\ (overrun => overrun') BY <3>1, SessionParts
    <3> QED BY <3>1, <3>2, <3>3
  <2>3. CASE (\E s \in WaxSessions : Forgets(s)) \/ UNCHANGED sessionVars
    <3>1. /\ UNCHANGED <<number, worker, lost, cooling, createLock, overrun>>
          /\ waxum' = waxum \/ \E s \in WaxSessions : waxum' = [waxum EXCEPT ![s] = "gone"]
      BY <2>3 DEF Forgets, sessionVars
    <3>2. cooling' \in BOOLEAN /\ (cooling' => cooling) BY <3>1, SessionParts
    <3>3. overrun' \in BOOLEAN /\ (overrun => overrun') BY <3>1, SessionParts
    <3> QED BY <3>1, <3>2, <3>3
  <2> QED BY <2>1, <2>2, <2>3
<1>2. /\ waxum' \in [WaxSessions -> {"unborn", "there", "gone"}]
      /\ \A s \in WaxSessions : waxum'[s] \in {waxum[s], "gone"}
  BY <1>1, SessionParts
<1>3. LineSessionTypeOK'
  BY <1>1, <1>2, SessionParts DEF LineSessionTypeOK, NumberRows, WorkerRows
<1>4. WorkersFit' BY <1>1 DEF SessionIInv, WorkersFit
<1>5. \A w \in Workers : Holding(w)' <=> Holding(w) BY <1>1 DEF Holding
<1>6. RowsFit' /\ HandsFit' /\ NoSessionForgotten' BY <1>1, <1>2, <1>5, HandsAfter
<1>7. LockFits'
  <2> SUFFICES ASSUME ~overrun', NEW w \in Workers, worker[w].step \in {"locked", "posts"}
               PROVE  createLock' = w /\ (worker[w].step = "posts" => ~cooling')
    BY <1>1 DEF LockFits
  <2>1. createLock = w /\ (worker[w].step = "posts" => ~cooling)
    BY <1>1 DEF SessionIInv, LockFits
  <2>2. createLock' = createLock
    <3>1. CASE LockRunsOut BY <2>1, <3>1 DEF LockRunsOut, Does
    <3>2. CASE ~LockRunsOut BY <3>2 DEF CooldownEnds, Forgets, sessionVars
    <3> QED BY <3>1, <3>2
  <2>3. worker[w].step = "posts" => ~cooling' BY <1>1, <2>1
  <2> QED BY <2>1, <2>2, <2>3
<1> QED BY <1>3, <1>4, <1>6, <1>7 DEF SessionIInv

LEMMA StepSessions == SessionIInv /\ [SessionNext]_sessionVars => SessionIInv'
<1> SUFFICES ASSUME SessionIInv, [SessionNext]_sessionVars PROVE SessionIInv' OBVIOUS
<1>1. ASSUME NEW w \in Workers, NEW r \in Rows,
             \/ Create(w, r) \/ Sync(w, r) \/ Recover(w, r) \/ RemoveLine(w, r)
             \/ \E op \in {"qr", "reconnect"} : Open(w, r, op)
      PROVE  SessionIInv'
  BY <1>1, StepStarts
<1>2. ASSUME NEW w \in Workers,
             \/ Looks(w) \/ NoAnswer(w) \/ Writes(w)
             \/ AsksCooldown(w) \/ acquireLock(w) \/ LooksAgain(w) \/ Limited(w) \/ PostFails(w)
             \/ \E s \in WaxSessions : Made(w, s) \/ PostsAgain(w, s)
             \/ Inserts(w) \/ Refused(w) \/ Undoes(w, TRUE) \/ Undoes(w, FALSE) \/ Replaces(w)
             \/ Deletes(w) \/ Removes(w) \/ Dies(w)
      PROVE  SessionIInv'
  BY <1>2, StepLooks, StepAsks, StepPostFails, StepMade, StepRowTakes, StepLetsGo
<1> QED BY <1>1, <1>2, StepOfItself DEF SessionNext

LEMMA InitSessions == SessionInit => SessionIInv
<1> SUFFICES ASSUME SessionInit PROVE SessionIInv OBVIOUS
<1> DEFINE unlisted == [status |-> "none", session |-> NoSession]
<1>1. /\ unlisted \in NumberRows /\ unlisted.status = "none" /\ unlisted.session = NoSession
      /\ Rest \in WorkerRows /\ Rest.op = "none" /\ Rest.step = "idle"
  BY DEF NumberRows, LineStatus, Rest, WorkerRows, Operations, Steps
<1> HIDE DEF unlisted
<1>2. /\ number = [r \in Rows |-> unlisted] /\ waxum = [s \in WaxSessions |-> "unborn"]
      /\ worker = [w \in Workers |-> Rest]
      /\ cooling = FALSE /\ createLock = NoWorker /\ overrun = FALSE /\ lost = {}
  BY DEF SessionInit, unlisted
<1>3. /\ \A r \in Rows : number[r].status = "none" /\ number[r].session = NoSession
      /\ \A w \in Workers : worker[w].op = "none" /\ worker[w].step = "idle"
      /\ number \in [Rows -> NumberRows] /\ worker \in [Workers -> WorkerRows]
  BY <1>1, <1>2
<1>4. LineSessionTypeOK BY <1>2, <1>3 DEF LineSessionTypeOK, NumberRows, WorkerRows
<1>5. WorkersFit BY <1>3 DEF WorkersFit, AskSteps
<1>6. RowsFit /\ HandsFit /\ LockFits BY <1>3 DEF RowsFit, OwnSession, HandsFit, Holding, LockFits
<1>7. NoSessionForgotten BY <1>2 DEF NoSessionForgotten, Exists
<1> QED BY <1>4, <1>5, <1>6, <1>7 DEF SessionIInv

\* Sessions are asked for one at a time by all processes together and not while a 429 is
\* remembered, unless a creation outlived its lock; none is left at Waxum without a line but by the
\* failures and races that name it lost, and no two lines share one (createWaxumSession and what
\* creates, replaces and removes lines around it).
THEOREM SessionsKept == SessionSpec => []LineSessionsInv
BY InitSessions, StepSessions, SessionsInTurn, PTL DEF SessionSpec

\* The requests of a session run one at a time and in their order, whatever became of the one
\* before and however often one is tried again, and its chain is forgotten when nothing waits in it.
THEOREM RequestsKept == RequestSpec => []RequestsInv
BY InitRequests, StepRequests, RequestsAreInTurn, PTL DEF RequestSpec

LEMMA FloorOfGateway == FloorInit => SessionInit /\ RequestInit
BY DEF FloorInit

LEMMA FloorStepsSessions == [FloorNext]_floorVars => [SessionNext]_sessionVars
BY DEF FloorNext, floorVars, others

LEMMA FloorStepsRequests == [FloorNext]_floorVars => [RequestNext]_requestVars
BY DEF FloorNext, floorVars, others

\* The gateway of the lines: both of the above, of a floor.
THEOREM GatewayIsKept == FloorSpec => []GatewayInv
<1>1. LineSessionsInv /\ RequestsInv => GatewayInv BY DEF GatewayInv
<1> QED BY FloorOfGateway, FloorStepsSessions, FloorStepsRequests, InitSessions, StepSessions,
           SessionsInTurn, InitRequests, StepRequests, RequestsAreInTurn, <1>1, PTL DEF FloorSpec
-----------------------------------------------------------------------------
(* AudioBridge: a bridge that was stopped has let go of its microphone, and *)
(* a call that has begun while a stop was under way is a crossed one.      *)
MadeRows == [mics : 0..MaxMics, contexts : 0..MaxContexts, stops : Nat, calls : SUBSET AudioCalls]
GhostRows == [met : BOOLEAN, crossed : SUBSET AudioCalls]
WaitsForContext == [pc : {"context"}, mic : 1..MaxMics, context : Contexts]

AudioTyped ==
  /\ context \in 0..MaxContexts /\ closed \subseteq Contexts
  /\ stream \in 0..MaxMics /\ live \subseteq 1..MaxMics
  /\ wired \in [1..MaxMics -> 0..MaxContexts]
  /\ starting \in {NoStart, [pc |-> "mic"], [pc |-> "sink"]} \cup WaitsForContext
  /\ restarts \in [1..2 -> 0..MaxContexts] /\ toning \in 0..MaxContexts
  /\ stopping \in -1..MaxContexts /\ stopRequested \in BOOLEAN
  /\ callId \in AudioCalls \cup {NoAudioCall} /\ audioCall \in AudioCalls \cup {NoAudioCall}
  /\ made \in MadeRows /\ audioGhost \in GhostRows
OnlyHeld == audioGhost.met \/ live \subseteq ({stream} \cup Held)
StoppedLetsGo == stopRequested => stream = 0
BegunInAStop ==
  stopping # -1 /\ audioCall # NoAudioCall => audioCall \in audioGhost.crossed

AudioIInv == AudioTyped /\ OnlyHeld /\ StoppedLetsGo /\ BegunInAStop /\ CallKeepsSocket

LEMMA AudioFacts ==
  ASSUME AudioIInv
  PROVE  /\ MaxMics \in Nat /\ MaxContexts \in Nat /\ MaxStops \in Nat
         /\ made.mics \in 0..MaxMics /\ made.contexts \in 0..MaxContexts /\ made.calls \subseteq AudioCalls
         /\ audioGhost.met \in BOOLEAN /\ audioGhost.crossed \subseteq AudioCalls
         /\ starting.pc \in {"none", "mic", "sink", "context"}
         /\ starting.pc = "none" <=> starting = NoStart
         /\ starting.pc # "context" => Held = {}
         /\ starting.pc = "context" =>
              /\ Held = {starting.mic} /\ starting.mic \in 1..MaxMics /\ starting.context \in Contexts
<1>1. MaxMics \in Nat /\ MaxContexts \in Nat /\ MaxStops \in Nat BY AudioConstants
<1>2. /\ made.mics \in 0..MaxMics /\ made.contexts \in 0..MaxContexts /\ made.calls \subseteq AudioCalls
      /\ audioGhost.met \in BOOLEAN /\ audioGhost.crossed \subseteq AudioCalls
  BY DEF AudioIInv, AudioTyped, MadeRows, GhostRows
<1>3. /\ starting.pc \in {"none", "mic", "sink", "context"}
      /\ starting.pc = "none" <=> starting = NoStart
      /\ starting.pc = "context" => starting.mic \in 1..MaxMics /\ starting.context \in Contexts
  <2>1. NoStart.pc = "none" /\ [pc |-> "mic"].pc = "mic" /\ [pc |-> "sink"].pc = "sink" BY DEF NoStart
  <2>2. starting \in WaitsForContext => /\ starting.pc = "context" /\ starting.mic \in 1..MaxMics
                                        /\ starting.context \in Contexts
    BY DEF WaitsForContext
  <2> QED BY <2>1, <2>2 DEF AudioIInv, AudioTyped
<1> QED BY <1>1, <1>2, <1>3 DEF Held

LEMMA AudioIsHeld == AudioIInv => AudioInv
<1> SUFFICES ASSUME AudioIInv PROVE AudioInv OBVIOUS
<1>1. AudioTypeOK BY AudioFacts DEF AudioIInv, AudioTyped, AudioTypeOK
<1>2. NoMicLeft
  <2> SUFFICES ASSUME ~audioGhost.met
               PROVE  /\ live \subseteq ({stream} \cup Held)
                      /\ stopRequested /\ ~Opening => live = {}
    BY DEF NoMicLeft
  <2>1. live \subseteq ({stream} \cup Held) BY DEF AudioIInv, OnlyHeld
  <2>2. ASSUME stopRequested, ~Opening PROVE live = {}
    <3>1. Held = {} /\ stream = 0 BY <2>2, AudioFacts DEF AudioIInv, StoppedLetsGo, Opening
    <3>2. live \subseteq 1..MaxMics BY DEF AudioIInv, AudioTyped
    <3> QED BY <2>1, <3>1, <3>2
  <2> QED BY <2>1, <2>2
<1> QED BY <1>1, <1>2 DEF AudioIInv, AudioInv

\* What prepare() may do to an opening.
LEMMA Prepared ==
  ASSUME AudioIInv, NEW microphone, NEW stop \in BOOLEAN, Prepare(microphone, stop)
  PROVE  /\ starting' \in {NoStart, [pc |-> "mic"], [pc |-> "sink"]} \cup WaitsForContext
         /\ Held' = Held
         /\ stopRequested' = stop \/ stopRequested' = FALSE
<1>1. CASE starting' = starting /\ stopRequested' = stop
  BY <1>1 DEF Held, AudioIInv, AudioTyped
<1>2. CASE starting = NoStart /\ starting' = [pc |-> "mic"] /\ stopRequested' = FALSE
  <2>1. starting'.pc = "mic" /\ starting.pc = "none" BY <1>2, AudioFacts
  <2>2. Held' = {} /\ Held = {} BY <2>1 DEF Held
  <2> QED BY <1>2, <2>2
<1> QED BY <1>1, <1>2 DEF Prepare

\* A microphone that is attached over another one, or into a context that closes, is a meeting;
\* otherwise it is the only one, but for one that waits.
LEMMA Attached ==
  ASSUME AudioIInv, NEW c \in 0..MaxContexts, NEW m \in 1..MaxMics, Attach(c, m)
  PROVE  /\ stream' \in 0..MaxMics /\ wired' \in [1..MaxMics -> 0..MaxContexts] /\ stream' = m
         /\ audioGhost' \in GhostRows /\ audioGhost'.crossed = audioGhost.crossed
         /\ ~audioGhost'.met => ~audioGhost.met /\ stream = 0 /\ live \subseteq Held
<1> DEFINE met == audioGhost.met \/ stream # 0 \/ c = stopping \/ c \in closed
           ghost == [audioGhost EXCEPT !.met = met]
<1>1. stream' = m /\ wired' = [wired EXCEPT ![m] = c] /\ audioGhost' = ghost BY DEF Attach
<1>2. met \in BOOLEAN BY AudioFacts
<1>3. ~met => ~audioGhost.met /\ stream = 0 OBVIOUS
<1> HIDE DEF met
<1>4. ghost \in GhostRows /\ ghost.met = met /\ ghost.crossed = audioGhost.crossed
  BY <1>2 DEF AudioIInv, AudioTyped, GhostRows
<1> HIDE DEF ghost
<1>5. ~met => live \subseteq Held
  <2>1. live \subseteq 1..MaxMics BY DEF AudioIInv, AudioTyped
  <2> QED BY <1>3, <2>1 DEF AudioIInv, OnlyHeld
<1> QED BY <1>1, <1>3, <1>4, <1>5 DEF AudioIInv, AudioTyped

\* What becomes of the counts of what was made.
LEMMA MadeMore ==
  ASSUME AudioIInv
  PROVE  /\ made.mics < MaxMics => made.mics + 1 \in 1..MaxMics /\ [made EXCEPT !.mics = made.mics + 1] \in MadeRows
         /\ made.contexts < MaxContexts =>
              /\ made.contexts + 1 \in Contexts /\ [made EXCEPT !.contexts = @ + 1] \in MadeRows
              /\ made.mics < MaxMics =>
                   [made EXCEPT !.mics = made.mics + 1, !.contexts = @ + 1] \in MadeRows
         /\ [made EXCEPT !.stops = @ + 1] \in MadeRows
         /\ \A c \in AudioCalls : [made EXCEPT !.calls = @ \cup {c}] \in MadeRows
<1>1. /\ made \in MadeRows /\ made.mics \in 0..MaxMics /\ made.contexts \in 0..MaxContexts
      /\ made.stops \in Nat /\ made.calls \subseteq AudioCalls /\ MaxMics \in Nat /\ MaxContexts \in Nat
  BY AudioFacts DEF AudioIInv, AudioTyped, MadeRows
<1>2. made.mics < MaxMics => made.mics + 1 \in 1..MaxMics /\ made.mics + 1 \in 0..MaxMics BY <1>1
<1>3. made.contexts < MaxContexts => made.contexts + 1 \in 1..MaxContexts /\ made.contexts + 1 \in 0..MaxContexts
  BY <1>1
<1>4. made.stops + 1 \in Nat BY <1>1
<1> QED BY <1>1, <1>2, <1>3, <1>4 DEF MadeRows, Contexts

LEMMA StepOpening ==
  ASSUME AudioIInv, MicGranted \/ ContextRuns \/ \E r \in 1..2 : RestartGranted(r)
  PROVE  AudioIInv'
<1> DEFINE m == made.mics + 1
<1>1. CASE MicGranted
  <2>1. /\ starting.pc = "mic" /\ made.mics < MaxMics /\ m \in 1..MaxMics /\ Held = {}
        /\ UNCHANGED <<context, closed, restarts, toning, stopping, stopRequested, callId, audioCall>>
    BY <1>1, AudioFacts, MadeMore DEF MicGranted
  <2>2. CASE stopRequested /\ starting' = NoStart /\ made' = [made EXCEPT !.mics = m]
             /\ UNCHANGED <<stream, wired, live, audioGhost>>
    <3>1. Held' = {} BY <2>2 DEF Held, NoStart
    <3>2. AudioTyped' BY <2>1, <2>2, MadeMore DEF AudioIInv, AudioTyped
    <3> QED BY <2>1, <2>2, <3>1, <3>2 DEF AudioIInv, OnlyHeld, StoppedLetsGo, BegunInAStop, CallKeepsSocket
  <2>3. CASE ~stopRequested /\ starting' = [pc |-> "sink"] /\ live' = live \cup {m}
             /\ Attach(context, m) /\ made' = [made EXCEPT !.mics = m]
    <3>1. Held' = {} BY <2>3 DEF Held
    <3>2. context \in 0..MaxContexts BY DEF AudioIInv, AudioTyped
    <3>3. /\ stream' \in 0..MaxMics /\ wired' \in [1..MaxMics -> 0..MaxContexts] /\ stream' = m
          /\ audioGhost' \in GhostRows /\ audioGhost'.crossed = audioGhost.crossed
          /\ ~audioGhost'.met => ~audioGhost.met /\ stream = 0 /\ live \subseteq Held
      BY <2>1, <2>3, <3>2, Attached
    <3>4. live' \subseteq 1..MaxMics BY <2>1, <2>3 DEF AudioIInv, AudioTyped
    <3>5. AudioTyped' BY <2>1, <2>3, <3>3, <3>4, MadeMore DEF AudioIInv, AudioTyped
    <3>6. OnlyHeld' BY <2>1, <2>3, <3>1, <3>3 DEF OnlyHeld
    <3> QED BY <2>1, <2>3, <3>3, <3>5, <3>6 DEF AudioIInv, StoppedLetsGo, BegunInAStop, CallKeepsSocket
  <2>4. CASE /\ ~stopRequested /\ made.contexts < MaxContexts /\ live' = live \cup {m}
             /\ starting' = [pc |-> "context", mic |-> m, context |-> made.contexts + 1]
             /\ made' = [made EXCEPT !.mics = m, !.contexts = @ + 1]
             /\ UNCHANGED <<stream, wired, audioGhost>>
    <3>1. starting' \in WaitsForContext /\ starting'.mic = m /\ starting'.pc = "context"
      BY <2>1, <2>4, MadeMore DEF WaitsForContext
    <3>2. Held' = {m} BY <3>1 DEF Held
    <3>3. live' \subseteq 1..MaxMics BY <2>1, <2>4 DEF AudioIInv, AudioTyped
    <3>4. made' \in MadeRows BY <2>1, <2>4, MadeMore
    <3>5. AudioTyped' BY <2>1, <2>4, <3>1, <3>3, <3>4 DEF AudioIInv, AudioTyped
    <3>6. OnlyHeld' BY <2>1, <2>4, <3>2 DEF AudioIInv, OnlyHeld
    <3> QED BY <2>1, <2>4, <3>5, <3>6 DEF AudioIInv, StoppedLetsGo, BegunInAStop, CallKeepsSocket
  <2> QED BY <1>1, <2>2, <2>3, <2>4 DEF MicGranted, Stopped
<1>2. CASE ContextRuns
  <2> DEFINE mic == starting.mic
  <2>1. /\ starting.pc = "context" /\ context' = starting.context /\ mic \in 1..MaxMics
        /\ Held = {mic} /\ starting.context \in 0..MaxContexts
        /\ UNCHANGED <<closed, restarts, toning, stopping, stopRequested, callId, audioCall, made>>
    BY <1>2, AudioFacts DEF ContextRuns, Contexts
  <2>2. CASE stopRequested /\ starting' = NoStart /\ live' = live \ {mic}
             /\ UNCHANGED <<stream, wired, audioGhost>>
    <3>1. Held' = {} BY <2>2 DEF Held, NoStart
    <3>2. AudioTyped' BY <2>1, <2>2 DEF AudioIInv, AudioTyped
    <3>3. OnlyHeld' BY <2>1, <2>2, <3>1 DEF AudioIInv, OnlyHeld
    <3> QED BY <2>1, <2>2, <3>2, <3>3 DEF AudioIInv, StoppedLetsGo, BegunInAStop, CallKeepsSocket
  <2>3. CASE ~stopRequested /\ starting' = [pc |-> "sink"] /\ Attach(starting.context, mic)
             /\ UNCHANGED live
    <3>1. Held' = {} BY <2>3 DEF Held
    <3>2. /\ stream' \in 0..MaxMics /\ wired' \in [1..MaxMics -> 0..MaxContexts] /\ stream' = mic
          /\ audioGhost' \in GhostRows /\ audioGhost'.crossed = audioGhost.crossed
          /\ ~audioGhost'.met => ~audioGhost.met /\ stream = 0 /\ live \subseteq Held
      BY <2>1, <2>3, Attached
    <3>3. AudioTyped' BY <2>1, <2>3, <3>2 DEF AudioIInv, AudioTyped
    <3>4. OnlyHeld' BY <2>1, <2>3, <3>1, <3>2 DEF OnlyHeld
    <3> QED BY <2>1, <2>3, <3>2, <3>3, <3>4 DEF AudioIInv, StoppedLetsGo, BegunInAStop, CallKeepsSocket
  <2> QED BY <1>2, <2>2, <2>3 DEF ContextRuns, Stopped
<1>3. ASSUME NEW r \in 1..2, RestartGranted(r) PROVE AudioIInv'
  <2>1. /\ made.mics < MaxMics /\ m \in 1..MaxMics /\ restarts' = [restarts EXCEPT ![r] = 0]
        /\ made' = [made EXCEPT !.mics = m]
        /\ UNCHANGED <<context, closed, starting, toning, stopping, stopRequested, callId, audioCall>>
    BY <1>3, MadeMore DEF RestartGranted
  <2>2. restarts' \in [1..2 -> 0..MaxContexts] /\ restarts[r] \in 0..MaxContexts
    <3>1. restarts \in [1..2 -> 0..MaxContexts] BY DEF AudioIInv, AudioTyped
    <3>2. MaxContexts \in Nat BY AudioConstants
    <3>3. 0 \in 0..MaxContexts BY <3>2
    <3> QED BY <1>3, <2>1, <3>1, <3>3
  <2>3. Held' = Held BY <2>1 DEF Held
  <2>4. CASE UNCHANGED <<stream, wired, live, audioGhost>>
    <3>1. AudioTyped' BY <2>1, <2>2, <2>4, MadeMore DEF AudioIInv, AudioTyped
    <3> QED BY <2>1, <2>3, <2>4, <3>1 DEF AudioIInv, OnlyHeld, StoppedLetsGo, BegunInAStop, CallKeepsSocket
  <2>5. CASE ~stopRequested /\ live' = live \cup {m} /\ Attach(restarts[r], m)
    <3>1. /\ stream' \in 0..MaxMics /\ wired' \in [1..MaxMics -> 0..MaxContexts] /\ stream' = m
          /\ audioGhost' \in GhostRows /\ audioGhost'.crossed = audioGhost.crossed
          /\ ~audioGhost'.met => ~audioGhost.met /\ stream = 0 /\ live \subseteq Held
      BY <2>1, <2>2, <2>5, Attached
    <3>2. live' \subseteq 1..MaxMics BY <2>1, <2>5 DEF AudioIInv, AudioTyped
    <3>3. AudioTyped' BY <2>1, <2>2, <2>5, <3>1, <3>2, MadeMore DEF AudioIInv, AudioTyped
    <3>4. OnlyHeld' BY <2>3, <2>5, <3>1 DEF OnlyHeld
    <3> QED BY <2>1, <2>5, <3>1, <3>3, <3>4 DEF AudioIInv, StoppedLetsGo, BegunInAStop, CallKeepsSocket
  <2> QED BY <1>3, <2>4, <2>5 DEF RestartGranted, Stopped
<1> QED BY <1>1, <1>2, <1>3

\* Steps that open nothing.
LEMMA StepWithout ==
  ASSUME AudioIInv,
         \/ PrepareStation \/ MicRefused \/ ContextBlocked \/ StartEnds \/ ToneBegins \/ ToneRuns
         \/ \E r \in 1..2 : SetInputDevice(r) \/ RestartRefused(r)
         \/ UNCHANGED audioVars
  PROVE  AudioIInv'
<1>1. CASE PrepareStation
  <2>1. /\ starting' \in {NoStart, [pc |-> "mic"], [pc |-> "sink"]} \cup WaitsForContext
        /\ Held' = Held /\ (stopRequested' = stopRequested \/ stopRequested' = FALSE)
    BY <1>1, Prepared DEF PrepareStation, AudioIInv, AudioTyped
  <2>2. UNCHANGED <<context, closed, stream, wired, live, restarts, toning, stopping, callId,
                    audioCall, made, audioGhost>>
    BY <1>1 DEF PrepareStation
  <2>3. stopRequested' \in BOOLEAN BY <2>1 DEF AudioIInv, AudioTyped
  <2>4. AudioTyped' BY <2>1, <2>2, <2>3 DEF AudioIInv, AudioTyped
  <2> QED BY <2>1, <2>2, <2>4 DEF AudioIInv, OnlyHeld, StoppedLetsGo, BegunInAStop, CallKeepsSocket
<1>2. CASE MicRefused \/ StartEnds \/ ContextBlocked
  <2>1. /\ starting' = NoStart /\ live' = live \ Held
        /\ \/ closed' = closed
           \/ starting.pc = "context" /\ closed' = closed \cup {starting.context}
        /\ UNCHANGED <<context, stream, wired, restarts, toning, stopping, stopRequested, callId,
                       audioCall, made, audioGhost>>
    BY <1>2, AudioFacts DEF MicRefused, StartEnds, ContextBlocked
  <2>2. Held' = {} BY <2>1 DEF Held, NoStart
  <2>3. AudioTyped' BY <2>1, AudioFacts DEF AudioIInv, AudioTyped
  <2>4. OnlyHeld' BY <2>1, <2>2 DEF AudioIInv, OnlyHeld
  <2> QED BY <2>1, <2>3, <2>4 DEF AudioIInv, StoppedLetsGo, BegunInAStop, CallKeepsSocket
<1>3. CASE ToneBegins \/ ToneRuns
  <2>1. UNCHANGED <<stream, wired, live, starting, restarts, stopping, stopRequested, callId,
                    audioCall, audioGhost>>
    BY <1>3 DEF ToneBegins, ToneRuns
  <2>2. /\ made' \in MadeRows /\ context' \in 0..MaxContexts /\ toning' \in 0..MaxContexts
        /\ closed' \subseteq Contexts
    <3>1. 0 \in 0..MaxContexts /\ \A x \in Contexts : x \in 0..MaxContexts
      BY AudioConstants DEF Contexts
    <3>2. /\ made \in MadeRows /\ context \in 0..MaxContexts /\ toning \in 0..MaxContexts
          /\ closed \subseteq Contexts
      BY DEF AudioIInv, AudioTyped
    <3>3. toning # 0 => toning \in Contexts BY <3>2, AudioConstants DEF Contexts
    <3>4. CASE ToneBegins BY <3>1, <3>2, <3>4, MadeMore DEF ToneBegins
    <3>5. CASE ToneRuns BY <3>1, <3>2, <3>3, <3>5 DEF ToneRuns
    <3> QED BY <1>3, <3>4, <3>5
  <2>3. AudioTyped' BY <2>1, <2>2 DEF AudioIInv, AudioTyped
  <2>4. OnlyHeld' BY <2>1 DEF AudioIInv, OnlyHeld, Held
  <2> QED BY <2>1, <2>3, <2>4 DEF AudioIInv, StoppedLetsGo, BegunInAStop, CallKeepsSocket
<1>4. ASSUME NEW r \in 1..2, SetInputDevice(r) PROVE AudioIInv'
  <2>1. /\ restarts' = [restarts EXCEPT ![r] = context] /\ stream' = 0 /\ live' = live \ {stream}
        /\ made' = [made EXCEPT !.stops = @ + 1]
        /\ UNCHANGED <<context, closed, wired, starting, toning, stopping, stopRequested, callId,
                       audioCall, audioGhost>>
    BY <1>4 DEF SetInputDevice
  <2>2. AudioTyped'
    <3>1. 0 \in 0..MaxMics BY AudioConstants
    <3>2. restarts' \in [1..2 -> 0..MaxContexts] BY <2>1 DEF AudioIInv, AudioTyped
    <3>3. made' \in MadeRows BY <2>1, MadeMore
    <3> QED BY <2>1, <3>1, <3>2, <3>3 DEF AudioIInv, AudioTyped
  <2>3. OnlyHeld' BY <2>1 DEF AudioIInv, OnlyHeld, Held
  <2> QED BY <2>1, <2>2, <2>3 DEF AudioIInv, StoppedLetsGo, BegunInAStop, CallKeepsSocket
<1>5. ASSUME NEW r \in 1..2, RestartRefused(r) PROVE AudioIInv'
  <2>1. /\ restarts' = [restarts EXCEPT ![r] = 0]
        /\ UNCHANGED <<context, closed, stream, wired, live, starting, toning, stopping, stopRequested,
                       callId, audioCall, made, audioGhost>>
    BY <1>5 DEF RestartRefused
  <2>2. AudioTyped' BY <2>1, AudioFacts DEF AudioIInv, AudioTyped
  <2>3. OnlyHeld' BY <2>1 DEF AudioIInv, OnlyHeld, Held
  <2> QED BY <2>1, <2>2, <2>3 DEF AudioIInv, StoppedLetsGo, BegunInAStop, CallKeepsSocket
<1>6. CASE UNCHANGED audioVars
  BY <1>6 DEF audioVars, AudioIInv, AudioTyped, OnlyHeld, Held, StoppedLetsGo, BegunInAStop,
              CallKeepsSocket
<1> QED BY <1>1, <1>2, <1>3, <1>4, <1>5, <1>6

LEMMA StepCalls ==
  ASSUME AudioIInv,
         \/ \E c \in AudioCalls : StartAudio(c)
         \/ \E restored \in BOOLEAN : CallFinished(restored)
         \/ StopStation \/ StopEnds
  PROVE  AudioIInv'
<1>1. ASSUME NEW c \in AudioCalls, StartAudio(c) PROVE AudioIInv'
  <2> DEFINE all == IF stopping # -1 THEN audioGhost.crossed \cup {c} ELSE audioGhost.crossed
             ghost == [audioGhost EXCEPT !.crossed = all]
  <2>1. /\ audioCall' = c /\ callId' = c /\ made' = [made EXCEPT !.calls = @ \cup {c}]
        /\ Prepare(stream, stopRequested)
        /\ UNCHANGED <<context, closed, stream, wired, live, restarts, toning, stopping>>
    BY <1>1 DEF StartAudio
  <2>2. audioGhost' = ghost BY <1>1 DEF StartAudio
  <2>3. all \subseteq AudioCalls /\ audioGhost.crossed \subseteq all /\ (stopping # -1 => c \in all)
    BY AudioFacts
  <2> HIDE DEF all
  <2>4. ghost \in GhostRows /\ ghost.met = audioGhost.met /\ ghost.crossed = all
    BY <2>3 DEF AudioIInv, AudioTyped, GhostRows
  <2> HIDE DEF ghost
  <2>5. /\ starting' \in {NoStart, [pc |-> "mic"], [pc |-> "sink"]} \cup WaitsForContext
        /\ Held' = Held /\ (stopRequested' = stopRequested \/ stopRequested' = FALSE)
    BY <2>1, Prepared DEF AudioIInv, AudioTyped
  <2>6. stopRequested' \in BOOLEAN BY <2>5 DEF AudioIInv, AudioTyped
  <2>7. AudioTyped' BY <2>1, <2>2, <2>4, <2>5, <2>6, MadeMore DEF AudioIInv, AudioTyped
  <2>8. OnlyHeld' BY <2>1, <2>2, <2>4, <2>5 DEF AudioIInv, OnlyHeld
  <2>9. StoppedLetsGo' BY <2>1, <2>5 DEF AudioIInv, StoppedLetsGo
  <2>10. BegunInAStop' /\ CallKeepsSocket' BY <2>1, <2>2, <2>3, <2>4 DEF BegunInAStop, CallKeepsSocket
  <2> QED BY <2>7, <2>8, <2>9, <2>10 DEF AudioIInv
<1>2. ASSUME StopBegins, made' \in MadeRows, audioGhost' = audioGhost, audioCall' = NoAudioCall,
             starting' \in {NoStart, [pc |-> "mic"], [pc |-> "sink"]} \cup WaitsForContext,
             Held' = Held, stopRequested' \in BOOLEAN
      PROVE  AudioIInv'
  <2>1. /\ stopping' = context /\ stream' = 0 /\ live' = live \ {stream}
        /\ UNCHANGED <<context, closed, wired, restarts, toning, callId>>
    BY <1>2 DEF StopBegins
  <2>2. context \in 0..MaxContexts => context \in -1..MaxContexts BY AudioFacts
  <2>3. AudioTyped' BY <1>2, <2>1, <2>2, AudioFacts DEF AudioIInv, AudioTyped
  <2>4. OnlyHeld' BY <1>2, <2>1 DEF AudioIInv, OnlyHeld
  <2> QED BY <1>2, <2>1, <2>3, <2>4 DEF AudioIInv, StoppedLetsGo, BegunInAStop, CallKeepsSocket
<1>3. ASSUME NEW restored \in BOOLEAN, CallFinished(restored) PROVE AudioIInv'
  <2>1. /\ audioCall' = NoAudioCall /\ StopBegins /\ made' = made /\ audioGhost' = audioGhost
        /\ \/ Prepare(0, TRUE)
           \/ stopRequested' = TRUE /\ UNCHANGED starting
    BY <1>3 DEF CallFinished
  <2>2. /\ starting' \in {NoStart, [pc |-> "mic"], [pc |-> "sink"]} \cup WaitsForContext
        /\ Held' = Held /\ stopRequested' \in BOOLEAN
    <3>1. CASE Prepare(0, TRUE) BY <3>1, Prepared
    <3>2. CASE stopRequested' = TRUE /\ UNCHANGED starting BY <3>2 DEF Held, AudioIInv, AudioTyped
    <3> QED BY <2>1, <3>1, <3>2
  <2>3. made' \in MadeRows BY <2>1 DEF AudioIInv, AudioTyped
  <2> QED BY <1>2, <2>1, <2>2, <2>3
<1>4. CASE StopStation
  <2>1. /\ audioCall' = NoAudioCall /\ StopBegins /\ audioGhost' = audioGhost /\ starting' = starting
        /\ stopRequested' = TRUE /\ made' = [made EXCEPT !.stops = @ + 1]
    BY <1>4 DEF StopStation
  <2>2. Held' = Held /\ made' \in MadeRows BY <2>1, MadeMore DEF Held
  <2>3. starting' \in {NoStart, [pc |-> "mic"], [pc |-> "sink"]} \cup WaitsForContext
    BY <2>1 DEF AudioIInv, AudioTyped
  <2> QED BY <1>2, <2>1, <2>2, <2>3
<1>5. CASE StopEnds
  <2>1. /\ stopping # -1 /\ closed' = closed \cup ({stopping} \ {0}) /\ context' = 0
        /\ callId' = NoAudioCall /\ stopping' = -1
        /\ UNCHANGED <<stream, wired, live, starting, restarts, toning, stopRequested, audioCall, made,
                       audioGhost>>
    BY <1>5 DEF StopEnds
  <2>2. ({stopping} \ {0}) \subseteq Contexts /\ 0 \in 0..MaxContexts /\ -1 \in -1..MaxContexts
    BY <2>1, AudioFacts DEF AudioIInv, AudioTyped, Contexts
  <2>3. AudioTyped' BY <2>1, <2>2 DEF AudioIInv, AudioTyped
  <2>4. OnlyHeld' BY <2>1 DEF AudioIInv, OnlyHeld, Held
  <2> QED BY <2>1, <2>3, <2>4 DEF AudioIInv, StoppedLetsGo, BegunInAStop, CallKeepsSocket
<1> QED BY <1>1, <1>3, <1>4, <1>5

LEMMA StepAudio == AudioIInv /\ [AudioNext]_audioVars => AudioIInv'
BY StepOpening, StepWithout, StepCalls DEF AudioNext

LEMMA InitAudio == AudioInit => AudioIInv
<1> SUFFICES ASSUME AudioInit PROVE AudioIInv OBVIOUS
<1> DEFINE nothing == [mics |-> 0, contexts |-> 0, stops |-> 0, calls |-> {}]
           never == [met |-> FALSE, crossed |-> {}]
<1>1. MaxMics \in Nat /\ MaxContexts \in Nat BY AudioConstants
<1>2. nothing \in MadeRows BY <1>1 DEF MadeRows
<1>3. never \in GhostRows BY DEF GhostRows
<1>4. made = nothing /\ audioGhost = never BY DEF AudioInit
<1> HIDE DEF nothing, never
<1>5. AudioTyped
  <2>1. 0 \in 0..MaxContexts /\ 0 \in 0..MaxMics /\ -1 \in -1..MaxContexts BY <1>1
  <2>2. /\ wired \in [1..MaxMics -> 0..MaxContexts] /\ restarts \in [1..2 -> 0..MaxContexts]
    BY <2>1 DEF AudioInit
  <2>3. stopRequested \in BOOLEAN /\ closed \subseteq Contexts /\ live \subseteq 1..MaxMics
    BY DEF AudioInit
  <2>4. /\ starting = NoStart /\ context = 0 /\ stream = 0 /\ toning = 0 /\ stopping = -1
        /\ callId = NoAudioCall /\ audioCall = NoAudioCall
    BY DEF AudioInit
  <2> QED BY <1>2, <1>3, <1>4, <2>1, <2>2, <2>3, <2>4 DEF AudioTyped
<1>6. OnlyHeld BY DEF AudioInit, OnlyHeld
<1> QED BY <1>5, <1>6 DEF AudioInit, AudioIInv, StoppedLetsGo, BegunInAStop, CallKeepsSocket

\* A microphone that runs is the bridge's, and none runs once it was stopped, unless an opening
\* ended over another or into a closing context; the frames of a call go to its socket until it is
\* finished, unless it began while a stop was closing: whatever the browser does in between.
THEOREM MicAndSocket == AudioSpec => []AudioInv
BY InitAudio, StepAudio, AudioIsHeld, PTL DEF AudioSpec
-----------------------------------------------------------------------------
(* Stations: until a step crosses another, the row names the last station  *)
(* that claimed it, or nobody; the process of that station reaches it or   *)
(* none; and who is available is reached, or is being seen off.            *)
DeskRows == [available : BOOLEAN, paused : BOOLEAN, at : Processes \cup {Nowhere}, mode : Kinds]
SocketRows == [at : Processes \cup {Nowhere}, kind : Kinds, state : {"new", "open", "shut"}]

StationTyped ==
  /\ desk \in DeskRows /\ socket \in [Sockets -> SocketRows]
  /\ controls \in [Processes -> Sockets \cup {NoSocket}]
  /\ latest \in Sockets \cup {NoSocket}
  /\ identified \subseteq Sockets /\ claiming \subseteq Sockets /\ asking \subseteq Sockets
  /\ leaving \subseteq Sockets /\ parting \subseteq Sockets
  /\ manualOnly \subseteq Processes /\ picked \subseteq Processes /\ alive \subseteq Processes
  /\ beats \subseteq Processes /\ started \subseteq Processes
  /\ talking \in BOOLEAN /\ resetting \in BOOLEAN /\ crossed \in BOOLEAN

SocketsFit ==
  /\ \A s \in Sockets : socket[s].state # "new" => socket[s].at \in Processes
  /\ \A s \in claiming \cup identified : socket[s].state # "new"
  /\ latest # NoSocket => socket[latest].state # "new"
  /\ claiming \cap identified = {}
ControlsFit ==
  \A p \in Processes : controls[p] # NoSocket =>
    controls[p] \in identified /\ socket[controls[p]].at = p
ClaimsAlone == ~crossed => claiming \subseteq {latest} /\ (claiming = {} \/ picked = {})
RowIsLatest ==
  ~crossed => /\ desk.at # Nowhere => latest # NoSocket /\ desk.at = socket[latest].at
              /\ latest # NoSocket => desk.mode = socket[latest].kind
LatestIn == latest \in claiming \/ (latest \in identified /\ IsOpen(latest))
LatestHolds ==
  /\ ~crossed /\ LatestIn => desk.at = socket[latest].at
  /\ ~crossed /\ latest \in identified /\ IsOpen(latest) => Current(latest)
LatestOrNone ==
  ~crossed /\ latest # NoSocket /\ latest \notin claiming =>
    controls[socket[latest].at] \in {latest, NoSocket}
SeenOff ==
  ~crossed /\ started \subseteq alive /\ desk.available =>
    \/ \E p \in Processes : controls[p] # NoSocket
    \/ leaving # {} \/ parting # {}

StationIInv ==
  /\ StationTyped /\ alive \subseteq started
  /\ SocketsFit /\ ControlsFit /\ ClaimsAlone /\ RowIsLatest /\ LatestHolds /\ LatestOrNone
  /\ SeenOff /\ ManualStaysOut

LEMMA StationsFollow == StationIInv => StationsInv
<1> SUFFICES ASSUME StationIInv PROVE StationsInv OBVIOUS
<1>1. StationTypeOK
  BY DEF StationIInv, StationTyped, StationTypeOK, DeskRows, SocketRows
<1>2. LatestKeepsTheRow
  <2> SUFFICES ASSUME Settled, ~crossed, latest \in identified
               PROVE  Current(latest) /\ desk.at = socket[latest].at /\ desk.mode = socket[latest].kind
    BY DEF LatestKeepsTheRow
  <2>1. IsOpen(latest) /\ latest # NoSocket
    BY StationConstants DEF Settled, StationIInv, StationTyped
  <2> QED BY <2>1 DEF StationIInv, LatestHolds, LatestIn, RowIsLatest
<1>3. NobodyBehind
  <2> SUFFICES ASSUME Settled, ~crossed, desk.available, started \subseteq alive PROVE Reached # {}
    BY DEF NobodyBehind
  <2>1. PICK p \in Processes : controls[p] # NoSocket
    BY DEF Settled, StationIInv, SeenOff
  <2>2. isConnected(p) BY <2>1 DEF isConnected, Settled, StationIInv, ControlsFit
  <2> QED BY <2>2 DEF Reached
<1> QED BY <1>1, <1>2, <1>3 DEF StationsInv, StationIInv

\* Steps that leave sockets, stations and the name on the row alone.
StationCalm ==
  /\ UNCHANGED <<socket, controls, identified, latest, claiming>>
  /\ desk'.at = desk.at /\ desk'.mode = desk.mode
  /\ picked' \subseteq picked /\ (crossed => crossed')

LEMMA CalmKeeps ==
  ASSUME StationIInv, StationTyped', alive' \subseteq started', StationCalm, SeenOff'
  PROVE  StationIInv'
<1>1. SocketsFit' /\ ControlsFit'
  BY DEF StationIInv, StationCalm, SocketsFit, ControlsFit
<1>2. ClaimsAlone' /\ RowIsLatest' BY DEF StationIInv, StationCalm, ClaimsAlone, RowIsLatest
<1>3. LatestHolds' /\ LatestOrNone'
  BY DEF StationIInv, StationCalm, LatestHolds, LatestOrNone, LatestIn, IsOpen, Current
<1>4. ManualStaysOut'
  BY DEF StationIInv, StationCalm, ManualStaysOut, isConnected, IsOpen
<1> QED BY <1>1, <1>2, <1>3, <1>4 DEF StationIInv

LEMMA SocketFacts ==
  ASSUME StationIInv, NEW s \in Sockets
  PROVE  /\ s # NoSocket /\ socket[s] \in SocketRows /\ socket[s].kind \in Kinds
         /\ socket[s].state \in {"new", "open", "shut"} /\ socket[s].at \in Processes \cup {Nowhere}
         /\ IsOpen(s) <=> socket[s].state = "open"
         /\ socket[s].state # "new" => socket[s].at \in Processes
BY StationConstants DEF StationIInv, StationTyped, SocketRows, SocketsFit, IsOpen

\* What asks, answers and ends at the desk of the agent.
LEMMA StepDesk ==
  ASSUME StationIInv,
         \/ \E s \in Sockets : \/ AskAvailable(s) \/ BecomesAvailable(s) \/ GoesOffline(s)
                               \/ handleSdrDisconnected(s) \/ PlaceManual(s)
         \/ \E p \in Processes : TickPlaces(p) \/ PauseOver(p, TRUE) \/ PauseOver(p, FALSE)
         \/ CallOver
  PROVE  StationIInv'
<1> USE DEF hosts, maps, handlers, calls
<1>0. /\ StationTyped /\ alive \subseteq started /\ desk \in DeskRows /\ SeenOff
      /\ TRUE \in BOOLEAN /\ FALSE \in BOOLEAN
  BY DEF StationIInv, StationTyped
<1>1. ASSUME NEW s \in Sockets, AskAvailable(s) PROVE StationIInv'
  <2>1. StationCalm /\ UNCHANGED <<desk, leaving, parting, alive, started, crossed, controls>>
    BY <1>1 DEF AskAvailable, StationCalm
  <2>2. StationTyped' BY <1>0, <1>1 DEF AskAvailable, StationTyped
  <2>3. SeenOff' BY <1>0, <2>1 DEF SeenOff
  <2> QED BY <1>0, <2>1, <2>2, <2>3, CalmKeeps
<1>2. ASSUME NEW s \in Sockets, BecomesAvailable(s) PROVE StationIInv'
  <2>1. /\ desk' = [desk EXCEPT !.available = TRUE] /\ asking' = asking \ {s}
        /\ crossed' = (crossed \/ ~(IsOpen(s) /\ Current(s)) \/ desk.paused \/ talking)
        /\ UNCHANGED <<socket, claiming, leaving, parting, hosts, maps, calls>>
    BY <1>2 DEF BecomesAvailable
  <2>2. desk' \in DeskRows /\ desk'.at = desk.at /\ desk'.mode = desk.mode
    BY <1>0, <2>1 DEF DeskRows
  <2>3. crossed' \in BOOLEAN /\ (crossed => crossed') BY <2>1
  <2>4. StationTyped' BY <1>0, <2>1, <2>2, <2>3 DEF StationTyped
  <2>5. StationCalm BY <2>1, <2>2, <2>3 DEF StationCalm
  <2>6. ~crossed' => \E p \in Processes : controls'[p] # NoSocket
    <3> SUFFICES ASSUME ~crossed' PROVE \E p \in Processes : controls[p] # NoSocket BY <2>1
    <3>1. IsOpen(s) /\ Current(s) BY <2>1
    <3>2. socket[s].at \in Processes /\ s # NoSocket BY <3>1, SocketFacts
    <3> QED BY <3>1, <3>2 DEF Current
  <2>7. SeenOff' BY <2>6 DEF SeenOff
  <2>8. alive' \subseteq started' BY <1>0, <2>1
  <2> QED BY <2>4, <2>5, <2>7, <2>8, CalmKeeps
<1>3. ASSUME NEW s \in Sockets, GoesOffline(s) \/ handleSdrDisconnected(s) PROVE StationIInv'
  <2>1. /\ desk' = [desk EXCEPT !.available = FALSE] /\ parting' \subseteq parting
        /\ UNCHANGED <<socket, claiming, asking, leaving, hosts, maps, calls, crossed>>
    BY <1>3 DEF GoesOffline, handleSdrDisconnected
  <2>2. /\ desk' \in DeskRows /\ desk'.at = desk.at /\ desk'.mode = desk.mode /\ ~desk'.available
    BY <1>0, <2>1 DEF DeskRows
  <2>3. StationTyped' BY <1>0, <2>1, <2>2 DEF StationTyped
  <2>4. StationCalm BY <2>1, <2>2 DEF StationCalm
  <2>5. SeenOff' BY <2>2 DEF SeenOff
  <2>6. alive' \subseteq started' BY <1>0, <2>1
  <2> QED BY <2>3, <2>4, <2>5, <2>6, CalmKeeps
<1>4. ASSUME NEW s \in Sockets, PlaceManual(s) PROVE StationIInv'
  <2>1. talking' = TRUE /\ UNCHANGED <<desk, socket, picked, crossed, hosts, maps, handlers>>
    BY <1>4 DEF PlaceManual
  <2>2. StationTyped' /\ SeenOff' /\ StationCalm BY <1>0, <2>1 DEF StationTyped, SeenOff, StationCalm
  <2>3. alive' \subseteq started' BY <1>0, <2>1
  <2> QED BY <2>2, <2>3, CalmKeeps
<1>5. ASSUME NEW p \in Processes, TickPlaces(p) PROVE StationIInv'
  <2>1. /\ picked' = picked \ {p} /\ talking' = (talking \/ isConnected(p))
        /\ UNCHANGED <<desk, socket, crossed, hosts, maps, handlers>>
    BY <1>5 DEF TickPlaces
  <2>2. talking' \in BOOLEAN BY <2>1
  <2>3. StationTyped' /\ SeenOff' /\ StationCalm
    BY <1>0, <2>1, <2>2 DEF StationTyped, SeenOff, StationCalm
  <2>4. alive' \subseteq started' BY <1>0, <2>1
  <2> QED BY <2>3, <2>4, CalmKeeps
<1>6. ASSUME NEW p \in Processes, NEW continue \in BOOLEAN, PauseOver(p, continue) PROVE StationIInv'
  <2>1. /\ continue => isConnected(p)
        /\ desk' = [desk EXCEPT !.paused = FALSE, !.available = continue]
        /\ UNCHANGED <<socket, crossed, hosts, maps, handlers, calls>>
    BY <1>6 DEF PauseOver
  <2>2. /\ desk' \in DeskRows /\ desk'.at = desk.at /\ desk'.mode = desk.mode
        /\ desk'.available = continue
    BY <1>0, <2>1 DEF DeskRows
  <2>3. StationTyped' BY <1>0, <2>1, <2>2 DEF StationTyped
  <2>4. StationCalm BY <2>1, <2>2 DEF StationCalm
  <2>5. SeenOff' BY <2>1, <2>2 DEF SeenOff, isConnected, IsOpen
  <2>6. alive' \subseteq started' BY <1>0, <2>1
  <2> QED BY <2>3, <2>4, <2>5, <2>6, CalmKeeps
<1>7. CASE CallOver
  <2>1. /\ desk' = [desk EXCEPT !.available = FALSE, !.paused = TRUE] /\ talking' = FALSE
        /\ UNCHANGED <<socket, picked, crossed, hosts, maps, handlers>>
    BY <1>7 DEF CallOver
  <2>2. /\ desk' \in DeskRows /\ desk'.at = desk.at /\ desk'.mode = desk.mode /\ ~desk'.available
    BY <1>0, <2>1 DEF DeskRows
  <2>3. StationTyped' BY <1>0, <2>1, <2>2 DEF StationTyped
  <2>4. StationCalm BY <2>1, <2>2 DEF StationCalm
  <2>5. SeenOff' BY <2>2 DEF SeenOff
  <2>6. alive' \subseteq started' BY <1>0, <2>1
  <2> QED BY <2>3, <2>4, <2>5, <2>6, CalmKeeps
<1> QED BY <1>0, <1>1, <1>2, <1>3, <1>4, <1>5, <1>6, <1>7

\* What becomes of a socket that is shut.
LEMMA SocketChanges ==
  ASSUME StationIInv, NEW s \in Sockets
  PROVE  LET next == [socket EXCEPT ![s].state = "shut"]
         IN  /\ next \in [Sockets -> SocketRows] /\ next[s].state = "shut"
             /\ next[s].at = socket[s].at /\ next[s].kind = socket[s].kind
             /\ \A r \in Sockets \ {s} : next[r] = socket[r]
<1>1. socket \in [Sockets -> SocketRows] /\ socket[s] \in SocketRows
  BY DEF StationIInv, StationTyped
<1>2. [socket[s] EXCEPT !.state = "shut"] \in SocketRows BY <1>1 DEF SocketRows
<1> QED BY <1>1, <1>2 DEF SocketRows

LEMMA StepSockets ==
  ASSUME StationIInv,
         \E s \in Sockets : Shut(s) \/ \E p \in Processes, kind \in Kinds : Upgrade(s, p, kind)
  PROVE  StationIInv'
<1> USE DEF hosts, maps, handlers, calls
<1>0. StationTyped /\ alive \subseteq started BY DEF StationIInv
<1>1. ASSUME NEW s \in Sockets, NEW p \in Processes, NEW kind \in Kinds, Upgrade(s, p, kind)
      PROVE  StationIInv'
  <2>1. /\ socket[s].state = "new"
        /\ socket' = [socket EXCEPT ![s] = [at |-> p, kind |-> kind, state |-> "open"]]
        /\ UNCHANGED <<desk, crossed, hosts, maps, handlers, calls>>
    BY <1>1 DEF Upgrade
  <2>2. /\ socket' \in [Sockets -> SocketRows] /\ socket'[s].state = "open" /\ socket'[s].at = p
        /\ \A r \in Sockets \ {s} : socket'[r] = socket[r]
    <3> DEFINE opened == [at |-> p, kind |-> kind, state |-> "open"]
    <3>1. opened \in SocketRows /\ opened.state = "open" /\ opened.at = p BY DEF SocketRows
    <3> HIDE DEF opened
    <3>2. socket' = [socket EXCEPT ![s] = opened] BY <2>1 DEF opened
    <3> QED BY <1>0, <3>1, <3>2 DEF StationTyped
  <2>3. s \notin claiming \cup identified /\ latest # s /\ \A q \in Processes : controls[q] # s
    BY <2>1, SocketFacts DEF StationIInv, SocketsFit, ControlsFit
  <2>4. \A r \in claiming \cup identified : r \in Sockets \ {s} BY <2>3, <1>0 DEF StationTyped
  <2>5. latest # NoSocket => latest \in Sockets \ {s} BY <2>3, <1>0 DEF StationTyped
  <2>6. \A q \in Processes : controls[q] # NoSocket => controls[q] \in Sockets \ {s}
    BY <2>3, <1>0 DEF StationTyped
  <2>7. StationTyped' BY <1>0, <2>1, <2>2 DEF StationTyped
  <2>8. SocketsFit'
    BY <2>1, <2>2, <2>4, <2>5, SocketFacts DEF StationIInv, SocketsFit
  <2>9. ControlsFit' BY <2>1, <2>2, <2>6 DEF StationIInv, ControlsFit
  <2>10. ClaimsAlone' /\ RowIsLatest' /\ SeenOff' /\ LatestOrNone'
    BY <2>1, <2>2, <2>5 DEF StationIInv, ClaimsAlone, RowIsLatest, SeenOff, LatestOrNone
  <2>11. LatestHolds'
    <3>1. NoSocket \notin claiming \cup identified
      BY <1>0, StationConstants DEF StationTyped
    <3> QED BY <2>1, <2>2, <2>5, <3>1 DEF StationIInv, LatestHolds, LatestIn, IsOpen, Current
  <2>12. ManualStaysOut'
    BY <1>0, <2>1, <2>2, <2>6 DEF StationIInv, ManualStaysOut, isConnected, IsOpen, StationTyped
  <2> QED BY <1>0, <2>1, <2>7, <2>8, <2>9, <2>10, <2>11, <2>12 DEF StationIInv
<1>2. ASSUME NEW s \in Sockets, Shut(s) PROVE StationIInv'
  <2>1. /\ IsOpen(s) /\ socket' = [socket EXCEPT ![s].state = "shut"]
        /\ UNCHANGED <<desk, crossed, hosts, maps, handlers, calls>>
    BY <1>2 DEF Shut
  <2>2. /\ socket' \in [Sockets -> SocketRows]
        /\ \A r \in Sockets : socket'[r].at = socket[r].at /\ socket'[r].kind = socket[r].kind
        /\ socket[s].state = "open" /\ socket'[s].state = "shut"
        /\ \A r \in Sockets : r # s => socket'[r].state = socket[r].state
    BY <2>1, SocketChanges, SocketFacts
  <2>3. claiming \cup identified \subseteq Sockets BY <1>0 DEF StationTyped
  <2>4. latest # NoSocket => latest \in Sockets BY <1>0 DEF StationTyped
  <2>5. \A q \in Processes : controls[q] # NoSocket => controls[q] \in Sockets
    BY <1>0 DEF StationTyped
  <2>6. NoSocket \notin claiming \cup identified BY <2>3, StationConstants
  <2>7. StationTyped' BY <1>0, <2>1, <2>2 DEF StationTyped
  <2>8. SocketsFit'
    BY <2>1, <2>2, <2>3, <2>4 DEF StationIInv, SocketsFit
  <2>9. ControlsFit' BY <2>1, <2>2, <2>5 DEF StationIInv, ControlsFit
  <2>10. ClaimsAlone' /\ RowIsLatest' /\ SeenOff' /\ LatestOrNone'
    BY <2>1, <2>2, <2>4 DEF StationIInv, ClaimsAlone, RowIsLatest, SeenOff, LatestOrNone
  <2>11. LatestHolds'
    BY <2>1, <2>2, <2>3, <2>4, <2>6 DEF StationIInv, LatestHolds, LatestIn, IsOpen, Current
  <2>12. ManualStaysOut'
    BY <1>0, <2>1, <2>2, <2>5 DEF StationIInv, ManualStaysOut, isConnected, IsOpen, StationTyped
  <2> QED BY <1>0, <2>1, <2>7, <2>8, <2>9, <2>10, <2>11, <2>12 DEF StationIInv
<1> QED BY <1>1, <1>2

\* The station moves: a claim, its registration, and the close of the one that is reached.
LEMMA StepStation ==
  ASSUME StationIInv, \E s \in Sockets : Claim(s) \/ Identified(s) \/ controlClosed(s) \/ ReleaseRow(s)
  PROVE  StationIInv'
<1> USE DEF hosts, maps, handlers, calls
<1>0. StationTyped /\ alive \subseteq started /\ desk \in DeskRows BY DEF StationIInv, StationTyped
<1>1. ASSUME NEW s \in Sockets, Claim(s) PROVE StationIInv'
  <2> DEFINE stays == desk.available /\ socket[s].kind = "standard"
  <2>1. /\ IsOpen(s) /\ s \notin identified \cup claiming
        /\ desk' = [desk EXCEPT !.at = socket[s].at, !.mode = socket[s].kind, !.available = stays]
        /\ claiming' = claiming \cup {s} /\ latest' = s
        /\ crossed' = (crossed \/ claiming \cup picked # {})
        /\ UNCHANGED <<socket, controls, manualOnly, identified, asking, leaving, parting, hosts, calls>>
    BY <1>1 DEF Claim
  <2>2. /\ socket[s].state = "open" /\ socket[s].at \in Processes /\ socket[s].kind \in Kinds
        /\ s # NoSocket
    BY <2>1, SocketFacts
  <2>3. stays \in BOOLEAN /\ (stays => desk.available) BY <1>0 DEF DeskRows
  <2> HIDE DEF stays
  <2>4. /\ desk' \in DeskRows /\ desk'.at = socket[s].at /\ desk'.mode = socket[s].kind
        /\ desk'.available => desk.available
    BY <1>0, <2>1, <2>2, <2>3 DEF DeskRows
  <2>5. crossed' \in BOOLEAN /\ (~crossed' => ~crossed /\ claiming = {} /\ picked = {}) BY <2>1
  <2>6. StationTyped' BY <1>0, <2>1, <2>4, <2>5 DEF StationTyped
  <2>7. SocketsFit' /\ ControlsFit'
    BY <2>1, <2>2 DEF StationIInv, SocketsFit, ControlsFit
  <2>8. ClaimsAlone' /\ RowIsLatest' BY <2>1, <2>2, <2>4, <2>5 DEF ClaimsAlone, RowIsLatest
  <2>9. LatestHolds' /\ LatestOrNone'
    BY <2>1, <2>2, <2>4 DEF LatestHolds, LatestIn, LatestOrNone
  <2>10. SeenOff' BY <2>1, <2>4, <2>5 DEF StationIInv, SeenOff
  <2>11. ManualStaysOut' BY <2>1, <2>5 DEF ManualStaysOut
  <2> QED BY <1>0, <2>1, <2>6, <2>7, <2>8, <2>9, <2>10, <2>11 DEF StationIInv
<1>2. ASSUME NEW s \in Sockets, Identified(s) PROVE StationIInv'
  <2> DEFINE p == socket[s].at
             previous == controls[p]
  <2>1. /\ s \in claiming
        /\ claiming' = claiming \ {s} /\ identified' = identified \cup {s}
        /\ controls' = [controls EXCEPT ![p] = s]
        /\ manualOnly' = IF socket[s].kind = "manual_only" THEN manualOnly \cup {p}
                         ELSE manualOnly \ {p}
        /\ socket' = IF IsOpen(previous) THEN [socket EXCEPT ![previous].state = "shut"] ELSE socket
        /\ crossed' = (crossed \/ ~IsOpen(s) \/ p \in picked)
        /\ UNCHANGED <<latest, desk, asking, leaving, parting, hosts, calls>>
    BY <1>2 DEF Identified
  <2>2. p \in Processes /\ s # NoSocket /\ s \notin identified
    BY <2>1, SocketFacts DEF StationIInv, SocketsFit
  <2>3. previous # s /\ (IsOpen(previous) => previous \in Sockets)
    BY <1>0, <2>2 DEF StationIInv, ControlsFit, StationTyped, IsOpen
  <2>4. /\ socket' \in [Sockets -> SocketRows] /\ socket'[s] = socket[s]
        /\ \A r \in Sockets : /\ socket'[r].at = socket[r].at /\ socket'[r].kind = socket[r].kind
                              /\ socket'[r].state = "new" => socket[r].state = "new"
                              /\ r # previous => socket'[r].state = socket[r].state
                              /\ socket'[r].state = "open" => socket[r].state = "open"
    <3>1. CASE IsOpen(previous)
      <4>1. /\ socket' = [socket EXCEPT ![previous].state = "shut"] /\ previous \in Sockets
            /\ s \in Sockets \ {previous}
        BY <2>1, <2>3, <3>1
      <4> HIDE DEF previous
      <4>2. /\ socket' \in [Sockets -> SocketRows] /\ socket'[previous].state = "shut"
            /\ socket'[previous].at = socket[previous].at
            /\ socket'[previous].kind = socket[previous].kind
            /\ \A r \in Sockets \ {previous} : socket'[r] = socket[r]
        BY <4>1, SocketChanges
      <4> QED BY <4>1, <4>2
    <3>2. CASE ~IsOpen(previous) BY <1>0, <2>1, <3>2 DEF StationTyped
    <3> QED BY <3>1, <3>2
  <2>5. crossed' \in BOOLEAN /\ (~crossed' => ~crossed /\ IsOpen(s) /\ p \notin picked) BY <2>1
  <2>6. controls' \in [Processes -> Sockets \cup {NoSocket}] /\ controls'[p] = s
        /\ \A q \in Processes : q # p => controls'[q] = controls[q]
    BY <1>0, <2>1, <2>2 DEF StationTyped
  <2> HIDE DEF previous
  <2>7. manualOnly' \subseteq Processes BY <1>0, <2>1, <2>2 DEF StationTyped
  <2>8. StationTyped' BY <1>0, <2>1, <2>4, <2>5, <2>6, <2>7 DEF StationTyped
  <2>9. claiming \cup identified \subseteq Sockets /\ (latest # NoSocket => latest \in Sockets)
    BY <1>0 DEF StationTyped
  <2>10. SocketsFit'
    <3>1. \A r \in Sockets : socket'[r].state # "new" => socket'[r].at \in Processes
      <4> SUFFICES ASSUME NEW r \in Sockets, socket'[r].state # "new"
                   PROVE  socket'[r].at \in Processes
        OBVIOUS
      <4>1. socket[r].state \in {"open", "shut"}
        <5>1. socket'[r] \in SocketRows BY <2>4
        <5>2. socket'[r].state \in {"open", "shut"} BY <5>1 DEF SocketRows
        <5>3. CASE socket'[r].state = "open" BY <2>4, <5>3
        <5>4. CASE socket'[r].state = "shut" /\ r = previous
          <6>1. r \in identified
            BY <2>2, <5>4, SocketFacts DEF StationIInv, ControlsFit, previous
          <6> QED BY <6>1, SocketFacts DEF StationIInv, SocketsFit
        <5>5. CASE socket'[r].state = "shut" /\ r # previous BY <2>4, <5>5
        <5> QED BY <5>2, <5>3, <5>4, <5>5
      <4>2. socket[r].at \in Processes BY <4>1, SocketFacts
      <4> QED BY <2>4, <4>2
    <3>2. \A r \in claiming' \cup identified' : r \in claiming \cup identified BY <2>1
    <3>3. \A r \in Sockets : socket[r].state # "new" => socket'[r].state # "new" BY <2>4
    <3> QED BY <2>1, <2>9, <3>1, <3>2, <3>3 DEF StationIInv, SocketsFit
  <2>11. ControlsFit'
    BY <2>1, <2>4, <2>6, <2>9 DEF StationIInv, ControlsFit
  <2>12. ~crossed' => latest = s /\ claiming' = {}
    BY <2>1, <2>5 DEF StationIInv, ClaimsAlone
  <2>13. ClaimsAlone' /\ RowIsLatest'
    BY <2>1, <2>4, <2>5, <2>9, <2>12 DEF StationIInv, ClaimsAlone, RowIsLatest
  <2>14. LatestHolds' /\ LatestOrNone'
    <3> SUFFICES ASSUME ~crossed'
                 PROVE  desk'.at = socket'[s].at /\ controls'[socket'[s].at] = s
      BY <2>1, <2>12 DEF LatestHolds, LatestOrNone, Current
    <3> QED BY <2>1, <2>4, <2>5, <2>6, <2>12 DEF StationIInv, LatestHolds, LatestIn
  <2>15. SeenOff' BY <2>2, <2>6 DEF SeenOff
  <2>16. ManualStaysOut'
    <3> SUFFICES ASSUME ~crossed', NEW q \in picked, IsOpen(controls[q])', desk.at = q
                 PROVE  socket'[controls'[q]].kind = "standard"
      BY <2>1 DEF ManualStaysOut, isConnected
    <3>1. q \in Processes /\ q # p BY <1>0, <2>5 DEF StationTyped
    <3>2. controls'[q] = controls[q] BY <2>6, <3>1
    <3>3. controls[q] \in Sockets /\ controls[q] # NoSocket /\ socket'[controls[q]].state = "open"
      BY <1>0, <3>1, <3>2 DEF IsOpen, StationTyped
    <3>4. isConnected(q) BY <2>4, <3>3 DEF isConnected, IsOpen
    <3> QED BY <2>4, <2>5, <3>2, <3>3, <3>4 DEF StationIInv, ManualStaysOut
  <2> QED BY <1>0, <2>1, <2>8, <2>10, <2>11, <2>13, <2>14, <2>15, <2>16 DEF StationIInv
<1>3. ASSUME NEW s \in Sockets, controlClosed(s) PROVE StationIInv'
  <2> DEFINE p == socket[s].at
  <2>1. /\ socket[s].state = "shut" /\ s \in identified /\ identified' = identified \ {s}
        /\ UNCHANGED <<latest, desk, socket, claiming, asking, parting, crossed, hosts, calls>>
        /\ \/ /\ controls[p] = s /\ controls' = [controls EXCEPT ![p] = NoSocket]
              /\ manualOnly' = manualOnly \ {p} /\ leaving' = leaving \cup {s}
           \/ controls[p] # s /\ UNCHANGED <<controls, manualOnly, leaving>>
    BY <1>3 DEF controlClosed, Current
  <2>2. p \in Processes /\ s # NoSocket /\ ~IsOpen(s) BY <2>1, SocketFacts
  <2>3. /\ controls' \in [Processes -> Sockets \cup {NoSocket}]
        /\ \A q \in Processes : /\ controls'[q] = controls[q] \/ (q = p /\ controls'[q] = NoSocket)
                                /\ controls'[q] # s \/ s = NoSocket
    <3>1. \A q \in Processes : controls[q] = s => q = p
      BY <2>2 DEF StationIInv, ControlsFit
    <3> QED BY <1>0, <2>1, <2>2, <3>1 DEF StationTyped
  <2>4. StationTyped' BY <1>0, <2>1, <2>3 DEF StationTyped
  <2>5. SocketsFit' BY <2>1 DEF StationIInv, SocketsFit
  <2>6. ControlsFit' BY <2>1, <2>2, <2>3 DEF StationIInv, ControlsFit
  <2>7. ClaimsAlone' /\ RowIsLatest' BY <2>1 DEF StationIInv, ClaimsAlone, RowIsLatest
  <2>8. latest # NoSocket => socket[latest].at \in Processes
    BY <1>0, SocketFacts DEF StationIInv, SocketsFit, StationTyped
  <2>9. LatestOrNone' BY <2>1, <2>3, <2>8 DEF StationIInv, LatestOrNone
  <2>10. LatestHolds'
    <3>1. latest \in identified' /\ IsOpen(latest) => controls'[socket[latest].at] = latest \/ crossed
      <4> SUFFICES ASSUME latest \in identified, IsOpen(latest), ~crossed
                   PROVE  controls'[socket[latest].at] = latest
        BY <2>1
      <4>1. controls[socket[latest].at] = latest BY DEF StationIInv, LatestHolds, Current
      <4>2. latest # s /\ latest # NoSocket BY <2>2 DEF IsOpen
      <4>3. controls[p] = s => socket[latest].at # p BY <4>1, <4>2
      <4> QED BY <1>0, <2>1, <2>2, <2>8, <4>1, <4>2, <4>3 DEF StationTyped
    <3> QED BY <2>1, <3>1 DEF StationIInv, LatestHolds, LatestIn, IsOpen, Current
  <2>11. SeenOff'
    <3>1. CASE controls[p] = s
      <4>1. leaving' # {} BY <2>1, <3>1
      <4> QED BY <4>1 DEF SeenOff
    <3>2. CASE controls[p] # s BY <2>1, <3>2 DEF StationIInv, SeenOff
    <3> QED BY <3>1, <3>2
  <2>12. ManualStaysOut'
    <3> SUFFICES ASSUME ~crossed, NEW q \in picked, IsOpen(controls[q])', desk.at = q
                 PROVE  socket[controls'[q]].kind = "standard"
      BY <2>1 DEF ManualStaysOut, isConnected
    <3>1. q \in Processes BY <1>0 DEF StationTyped
    <3>2. controls'[q] = controls[q] BY <2>3, <3>1 DEF IsOpen
    <3>3. isConnected(q) BY <2>1, <3>2 DEF isConnected, IsOpen
    <3> QED BY <3>2, <3>3 DEF StationIInv, ManualStaysOut
  <2> QED BY <1>0, <2>1, <2>4, <2>5, <2>6, <2>7, <2>9, <2>10, <2>11, <2>12 DEF StationIInv
<1>4. ASSUME NEW s \in Sockets, ReleaseRow(s) PROVE StationIInv'
  <2> DEFINE p == socket[s].at
  <2>1. /\ parting' = parting \cup {s} /\ leaving' = leaving \ {s} /\ s \in leaving
        /\ desk' = IF desk.at = p THEN [desk EXCEPT !.available = FALSE, !.at = Nowhere] ELSE desk
        /\ crossed' = (crossed \/ (desk.at = p /\ (controls[p] # NoSocket
                                                  \/ \E r \in claiming : socket[r].at = p)))
        /\ UNCHANGED <<socket, claiming, asking, hosts, maps, calls>>
    BY <1>4 DEF ReleaseRow
  <2>2. crossed' \in BOOLEAN /\ (~crossed' => ~crossed) BY <2>1
  <2>3. /\ desk' \in DeskRows /\ desk'.mode = desk.mode
        /\ desk'.at = desk.at \/ (desk.at = p /\ desk'.at = Nowhere)
    BY <1>0, <2>1 DEF DeskRows
  <2>4. StationTyped' BY <1>0, <2>1, <2>2, <2>3 DEF StationTyped
  <2>5. SocketsFit' /\ ControlsFit' BY <2>1 DEF StationIInv, SocketsFit, ControlsFit
  <2>6. ClaimsAlone' /\ RowIsLatest'
    BY <2>1, <2>2, <2>3 DEF StationIInv, ClaimsAlone, RowIsLatest
  <2>7. LatestHolds' /\ LatestOrNone'
    <3>1. ~crossed' /\ LatestIn => desk'.at = desk.at
      <4> SUFFICES ASSUME ~crossed', LatestIn, desk.at = p PROVE FALSE BY <2>3
      <4>1. socket[latest].at = p BY <2>2 DEF StationIInv, LatestHolds
      <4>2. latest \notin claiming /\ controls[p] = NoSocket BY <2>1, <4>1
      <4>3. latest \in identified /\ IsOpen(latest) BY <4>2 DEF LatestIn
      <4>4. controls[p] = latest BY <2>2, <4>1, <4>3 DEF StationIInv, LatestHolds, Current
      <4> QED BY <4>2, <4>3, <4>4 DEF IsOpen
    <3> QED BY <2>1, <2>2, <3>1
            DEF StationIInv, LatestHolds, LatestIn, LatestOrNone, IsOpen, Current
  <2>8. SeenOff' BY <2>1 DEF SeenOff
  <2>9. ManualStaysOut'
    <3>1. \A q \in picked : desk'.at = q => desk.at = q
      BY <1>0, <2>3, StationConstants DEF StationTyped
    <3> QED BY <2>1, <2>2, <3>1 DEF StationIInv, ManualStaysOut, isConnected, IsOpen
  <2> QED BY <1>0, <2>1, <2>4, <2>5, <2>6, <2>7, <2>8, <2>9 DEF StationIInv
<1> QED BY <1>1, <1>2, <1>3, <1>4

LEMMA StepTick ==
  ASSUME StationIInv, NEW p \in Processes, TickReads(p)
  PROVE  StationIInv'
<1>0. StationTyped BY DEF StationIInv
<1>1. /\ desk.mode = "standard" /\ picked' = picked \cup {p}
      /\ crossed' = (crossed \/ claiming # {})
      /\ UNCHANGED <<desk, socket, talking, hosts, maps, handlers>>
  BY DEF TickReads
<1>2. crossed' \in BOOLEAN /\ (~crossed' => ~crossed /\ claiming = {}) BY <1>1
<1> USE DEF hosts, maps, handlers
<1>3. StationTyped' BY <1>0, <1>1, <1>2 DEF StationTyped
<1>4. SocketsFit' /\ ControlsFit' BY <1>1 DEF StationIInv, SocketsFit, ControlsFit
<1>5. ClaimsAlone' /\ RowIsLatest' BY <1>1, <1>2 DEF StationIInv, ClaimsAlone, RowIsLatest
<1>6. LatestHolds' /\ LatestOrNone'
  BY <1>1, <1>2 DEF StationIInv, LatestHolds, LatestIn, LatestOrNone, IsOpen, Current
<1>7. SeenOff' BY <1>1, <1>2 DEF StationIInv, SeenOff
<1>8. ManualStaysOut'
  <2> SUFFICES ASSUME ~crossed', NEW q \in picked \cup {p}, isConnected(q), desk.at = q
               PROVE  socket[controls[q]].kind = "standard"
    BY <1>1 DEF ManualStaysOut, isConnected, IsOpen
  <2>1. q \in Processes BY <1>0 DEF StationTyped
  <2>2. latest # NoSocket /\ q = socket[latest].at /\ desk.mode = socket[latest].kind
    BY <1>2, <2>1, StationConstants DEF StationIInv, RowIsLatest
  <2>3. controls[q] = latest
    BY <1>2, <2>2 DEF StationIInv, LatestOrNone, isConnected, IsOpen
  <2> QED BY <1>1, <2>2, <2>3
<1>9. alive' \subseteq started' BY <1>1 DEF StationIInv
<1> QED BY <1>3, <1>4, <1>5, <1>6, <1>7, <1>8, <1>9 DEF StationIInv

\* A process goes, its key runs out, one starts and clears what the row says.
LEMMA StepHosts ==
  ASSUME StationIInv,
         \/ \E p \in Processes : Stop(p) \/ Crash(p) \/ KeyExpires(p) \/ Boot(p)
         \/ ResetPresence
  PROVE  StationIInv'
<1>0. StationTyped /\ alive \subseteq started /\ desk \in DeskRows BY DEF StationIInv, StationTyped
<1>1. ASSUME NEW p \in Processes, p \in alive, Loses(p), beats' \subseteq beats PROVE StationIInv'
  <2>1. /\ controls' = [controls EXCEPT ![p] = NoSocket]
        /\ manualOnly' = manualOnly \ {p} /\ picked' = picked \ {p}
        /\ identified' = identified \ {s \in identified : socket[s].at = p}
        /\ claiming' = claiming \ {s \in claiming : socket[s].at = p}
        /\ asking' \subseteq asking /\ leaving' \subseteq leaving /\ parting' \subseteq parting
        /\ resetting' = FALSE /\ alive' = alive \ {p}
        /\ UNCHANGED <<desk, latest, talking, started, crossed>>
    BY <1>1 DEF Loses
  <2>2. socket' = [s \in Sockets |-> IF socket[s].at = p THEN [socket[s] EXCEPT !.state = "shut"]
                                     ELSE socket[s]]
    BY <1>1 DEF Loses
  <2>3. /\ socket' \in [Sockets -> SocketRows]
        /\ \A s \in Sockets : /\ socket'[s].at = socket[s].at /\ socket'[s].kind = socket[s].kind
                              /\ socket[s].at = p => socket'[s].state = "shut"
                              /\ socket[s].at # p => socket'[s] = socket[s]
    <3>1. \A s \in Sockets : socket[s] \in SocketRows BY <1>0 DEF StationTyped
    <3> QED BY <2>2, <3>1 DEF SocketRows
  <2>4. /\ controls' \in [Processes -> Sockets \cup {NoSocket}] /\ controls'[p] = NoSocket
        /\ \A q \in Processes \ {p} : controls'[q] = controls[q]
    BY <1>0, <2>1 DEF StationTyped
  <2>5. StationTyped' BY <1>0, <1>1, <2>1, <2>3, <2>4 DEF StationTyped
  <2>6. /\ claiming \cup identified \subseteq Sockets /\ (latest # NoSocket => latest \in Sockets)
        /\ NoSocket \notin claiming \cup identified
    BY <1>0, StationConstants DEF StationTyped
  <2>7. SocketsFit'
    <3>1. \A s \in Sockets : socket'[s].state # "new" => socket'[s].at \in Processes
      BY <2>3 DEF StationIInv, SocketsFit
    <3>2. \A s \in Sockets : socket[s].state # "new" => socket'[s].state # "new" BY <2>3
    <3> QED BY <2>1, <2>6, <3>1, <3>2 DEF StationIInv, SocketsFit
  <2>8. ControlsFit'
    <3> SUFFICES ASSUME NEW q \in Processes, controls'[q] # NoSocket
                 PROVE  controls'[q] \in identified' /\ socket'[controls'[q]].at = q
      BY DEF ControlsFit
    <3>1. q # p /\ controls'[q] = controls[q] BY <2>4
    <3>2. controls[q] \in identified /\ socket[controls[q]].at = q
      BY <3>1 DEF StationIInv, ControlsFit
    <3> QED BY <2>1, <2>3, <2>6, <3>1, <3>2
  <2>9. ClaimsAlone' BY <2>1 DEF StationIInv, ClaimsAlone
  <2>10. RowIsLatest' BY <2>1, <2>3, <2>6 DEF StationIInv, RowIsLatest
  <2>11. LatestHolds' /\ LatestOrNone'
    <3>1. latest # NoSocket => socket[latest].at \in Processes
      BY <2>6, SocketFacts DEF StationIInv, SocketsFit
    <3>2. (LatestIn)' => LatestIn /\ socket[latest].at # p
      BY <2>1, <2>3, <2>6 DEF LatestIn, IsOpen
    <3>3. LatestHolds'
      <4> SUFFICES ASSUME ~crossed, (LatestIn)'
                   PROVE  /\ desk.at = socket[latest].at
                          /\ latest \in identified' => controls'[socket[latest].at] = latest
        BY <2>1, <2>3, <2>6 DEF LatestHolds, Current, LatestIn
      <4>1. LatestIn /\ desk.at = socket[latest].at
        BY <3>2 DEF StationIInv, LatestHolds
      <4>2. ASSUME latest \in identified' PROVE controls'[socket[latest].at] = latest
        <5>1. latest \in identified /\ latest \notin claiming
          BY <2>1, <4>2 DEF StationIInv, SocketsFit
        <5>2. IsOpen(latest) BY <4>1, <5>1 DEF LatestIn
        <5>3. controls[socket[latest].at] = latest
          BY <5>1, <5>2 DEF StationIInv, LatestHolds, Current
        <5> QED BY <2>4, <3>1, <3>2, <5>2, <5>3 DEF IsOpen
      <4> QED BY <4>1, <4>2
    <3>4. LatestOrNone' BY <2>1, <2>3, <2>4, <2>6, <3>1 DEF StationIInv, LatestOrNone
    <3> QED BY <3>3, <3>4
  <2>12. SeenOff' BY <1>0, <1>1, <2>1 DEF SeenOff
  <2>13. ManualStaysOut'
    <3> SUFFICES ASSUME ~crossed, NEW q \in picked', IsOpen(controls[q])', desk.at = q
                 PROVE  socket'[controls'[q]].kind = "standard"
      BY <2>1 DEF ManualStaysOut, isConnected
    <3>1. q \in Processes \ {p} /\ q \in picked BY <1>0, <2>1 DEF StationTyped
    <3>2. controls'[q] = controls[q] /\ controls[q] # NoSocket BY <2>4, <3>1 DEF IsOpen
    <3>3. controls[q] \in Sockets BY <1>0, <3>1, <3>2 DEF StationTyped
    <3>4. socket[controls[q]].at # p BY <3>1, <3>2 DEF StationIInv, ControlsFit
    <3>5. socket'[controls[q]] = socket[controls[q]] BY <2>3, <3>3, <3>4
    <3>6. isConnected(q) BY <3>2, <3>5 DEF isConnected, IsOpen
    <3> QED BY <3>1, <3>2, <3>5, <3>6 DEF StationIInv, ManualStaysOut
  <2>14. alive' \subseteq started' BY <1>0, <2>1
  <2> QED BY <2>5, <2>7, <2>8, <2>9, <2>10, <2>11, <2>12, <2>13, <2>14 DEF StationIInv
<1> USE DEF hosts, maps, handlers, calls
<1>2. ASSUME NEW p \in Processes, KeyExpires(p) \/ Boot(p) PROVE StationIInv'
  <2>1. /\ StationCalm /\ beats' \subseteq Processes /\ alive' \subseteq Processes
        /\ started' \subseteq Processes /\ alive' \subseteq started'
        /\ started' \subseteq alive' => started \subseteq alive
        /\ UNCHANGED <<desk, leaving, parting, asking, manualOnly, talking, picked, crossed>>
    BY <1>0, <1>2 DEF KeyExpires, Boot, StationCalm, StationTyped
  <2>2. resetting' \in BOOLEAN BY <1>0, <1>2 DEF KeyExpires, Boot, StationTyped
  <2>3. StationTyped' BY <1>0, <2>1, <2>2 DEF StationTyped, StationCalm
  <2>4. SeenOff' BY <2>1 DEF StationIInv, SeenOff, StationCalm
  <2> QED BY <2>1, <2>3, <2>4, CalmKeeps
<1>3. CASE ResetPresence
  <2>1. /\ desk' = [desk EXCEPT !.available = FALSE, !.at = Nowhere] /\ resetting' = FALSE
        /\ crossed' = (crossed \/ claiming # {} \/ Reached # {})
        /\ UNCHANGED <<socket, alive, beats, started, maps, handlers, calls>>
    BY <1>3 DEF ResetPresence
  <2>2. /\ desk' \in DeskRows /\ desk'.mode = desk.mode /\ desk'.at = Nowhere /\ ~desk'.available
    BY <1>0, <2>1 DEF DeskRows
  <2>3. crossed' \in BOOLEAN /\ (~crossed' => ~crossed /\ claiming = {} /\ Reached = {}) BY <2>1
  <2>4. StationTyped' BY <1>0, <2>1, <2>2, <2>3 DEF StationTyped
  <2>5. SocketsFit' /\ ControlsFit' BY <2>1 DEF StationIInv, SocketsFit, ControlsFit
  <2>6. ClaimsAlone' /\ RowIsLatest' /\ LatestOrNone'
    BY <2>1, <2>2, <2>3 DEF StationIInv, ClaimsAlone, RowIsLatest, LatestOrNone
  <2>7. LatestHolds'
    <3>1. ~crossed' => ~LatestIn
      <4> SUFFICES ASSUME ~crossed', LatestIn PROVE FALSE OBVIOUS
      <4>1. latest \in identified /\ IsOpen(latest) BY <2>3 DEF LatestIn
      <4>2. latest \in Sockets BY <1>0, <4>1 DEF StationTyped
      <4>3. socket[latest].at \in Processes BY <4>1, <4>2, SocketFacts
      <4>4. controls[socket[latest].at] = latest BY <2>3, <4>1 DEF StationIInv, LatestHolds, Current
      <4>5. isConnected(socket[latest].at) BY <4>1, <4>4 DEF isConnected
      <4> QED BY <2>3, <4>3, <4>5 DEF Reached
    <3> QED BY <2>1, <3>1 DEF LatestHolds, LatestIn, IsOpen, Current
  <2>8. SeenOff' BY <2>2 DEF SeenOff
  <2>9. ManualStaysOut' BY <1>0, <2>1, <2>2, StationConstants DEF ManualStaysOut, StationTyped
  <2> QED BY <1>0, <2>1, <2>4, <2>5, <2>6, <2>7, <2>8, <2>9 DEF StationIInv
<1> QED BY <1>1, <1>2, <1>3 DEF Stop, Crash

LEMMA StepStations == StationIInv /\ [StationNext]_stationVars => StationIInv'
<1> SUFFICES ASSUME StationIInv, [StationNext]_stationVars PROVE StationIInv' OBVIOUS
<1>1. CASE UNCHANGED stationVars
  <2> USE <1>1 DEF stationVars
  <2>1. StationTyped' /\ SocketsFit' /\ ControlsFit' /\ ClaimsAlone' /\ RowIsLatest'
    BY DEF StationIInv, StationTyped, SocketsFit, ControlsFit, ClaimsAlone, RowIsLatest
  <2>2. LatestHolds' /\ LatestOrNone' /\ SeenOff' /\ alive' \subseteq started'
    BY DEF StationIInv, LatestHolds, LatestIn, LatestOrNone, SeenOff, IsOpen, Current
  <2>3. ManualStaysOut' BY DEF StationIInv, ManualStaysOut, isConnected, IsOpen
  <2> QED BY <2>1, <2>2, <2>3 DEF StationIInv
<1>2. CASE StationNext
  BY <1>2, StepDesk, StepSockets, StepStation, StepTick, StepHosts DEF StationNext
<1> QED BY <1>1, <1>2

LEMMA InitStations == StationInit => StationIInv
<1> SUFFICES ASSUME StationInit PROVE StationIInv OBVIOUS
<1> DEFINE blank == [available |-> FALSE, paused |-> FALSE, at |-> Nowhere, mode |-> "standard"]
           fresh == [at |-> Nowhere, kind |-> "standard", state |-> "new"]
<1>1. blank \in DeskRows /\ blank.at = Nowhere /\ blank.available = FALSE BY DEF DeskRows, Kinds
<1>2. fresh \in SocketRows /\ fresh.state = "new" BY DEF SocketRows, Kinds
<1>3. /\ desk = blank /\ socket = [s \in Sockets |-> fresh]
      /\ controls = [p \in Processes |-> NoSocket]
      /\ identified = {} /\ claiming = {} /\ asking = {} /\ leaving = {} /\ parting = {}
      /\ manualOnly = {} /\ picked = {} /\ talking = FALSE /\ resetting = FALSE
      /\ latest = NoSocket /\ crossed = FALSE
  BY DEF StationInit
<1>4. alive = started /\ alive \subseteq Processes /\ beats \subseteq Processes
  BY DEF StationInit
<1> HIDE DEF blank, fresh
<1>5. StationTyped BY <1>1, <1>2, <1>3, <1>4 DEF StationTyped
<1>6. SocketsFit /\ ControlsFit /\ ClaimsAlone /\ RowIsLatest /\ LatestHolds /\ LatestOrNone
  BY <1>1, <1>2, <1>3 DEF SocketsFit, ControlsFit, ClaimsAlone, RowIsLatest, LatestHolds, LatestIn,
                          LatestOrNone
<1>7. SeenOff /\ ManualStaysOut BY <1>1, <1>3 DEF SeenOff, ManualStaysOut
<1> QED BY <1>4, <1>5, <1>6, <1>7 DEF StationIInv

\* As long as no step uses what another has made untrue: the last station an agent opened is the
\* one its process reaches and the row names, nobody is left available behind the last of them, and
\* a station for manual calls is given no automatic one, whatever processes stop, crash and start.
THEOREM StationsAgree == StationSpec => []StationsInv
BY InitStations, StepStations, StationsFollow, PTL DEF StationSpec
-----------------------------------------------------------------------------
(* Together: the scene of a floor is one of its components, and the others *)
(* stand still.                                                            *)
LEMMA FloorOfAfter == FloorInit => AfterInit
BY DEF FloorInit

LEMMA FloorStepsAfter == [FloorNext]_floorVars => [AfterNext]_afterVars
BY DEF FloorNext, floorVars, others

LEMMA FloorStepsQueue == [FloorNext]_floorVars => [QueueNext]_queueVars
BY DEF FloorNext, floorVars, others

LEMMA StepRounds ==
  [QueueNext]_queueVars => [dialRound' # dialRound => dialRound' = dialRound + 1]_queueVars
<1> SUFFICES ASSUME QueueNext PROVE dialRound' # dialRound => dialRound' = dialRound + 1 OBVIOUS
<1>1. ASSUME NEW p \in Dialers, TickEnds(p) PROVE dialRound' = dialRound \/ dialRound' = dialRound + 1
  BY <1>1 DEF TickEnds, RoundOpened
<1>2. ASSUME NEW p \in Dialers, TickStep(p) \/ TickFails(p) \/ CallOvers(p), ~TickEnds(p)
      PROVE  dialRound' = dialRound
  BY <1>2 DEF TickStep, CallOvers, TickBegins, PassesAll, TickStarts, TickFails, CallIsOver,
              dialSettings
<1>3. ASSUME NEW l \in QueueLeads, BecomesDue(l) \/ SwitchCampaign(l) PROVE dialRound' = dialRound
  BY <1>3 DEF BecomesDue, SwitchCampaign, dialSettings
<1>4. ASSUME SwitchDialer \/ \E f \in DialFolders : SwitchFolder(f) PROVE dialRound' = dialRound
  BY <1>4 DEF SwitchDialer, SwitchFolder, dialSettings
<1> QED BY <1>1, <1>2, <1>3, <1>4 DEF QueueNext

\* Of a floor whose components run one at a time, and of any number of processes that tick: rounds
\* open one by one, whatever round a tick had read, and what is agreed with a lead is kept.
THEOREM FloorIsKept == FloorSpec => FloorKept
<1>1. AfterStep => [AfterStep]_afterVars OBVIOUS
<1> QED BY FloorOfAfter, FloorStepsAfter, FloorStepsQueue, InitAfter, StepAfter, StepRounds, <1>1, PTL
        DEF FloorSpec, FloorKept, AfterKept, RoundsFollow

-----------------------------------------------------------------------------
(* Decisions: the rules about a lead and a line, by cases; the order of    *)
(* the engine, for any number of candidates.                               *)
LEMMA LeadRules == \A x \in LeadQuestions : QueryAgrees(x) /\ HandAgrees(x)
<1> SUFFICES ASSUME NEW x \in LeadQuestions PROVE QueryAgrees(x) /\ HandAgrees(x)
  OBVIOUS
<1>1. /\ x.mode \in {"automatic", "manual"} /\ x.status \in {"queued", "retry_wait", "other"}
      /\ {x.budget, x.due, x.folder, x.refused, x.active, x.gate, x.override} \subseteq BOOLEAN
      /\ x.callback \in OpenCallbacks \cup {NoCallback}
  BY DEF LeadQuestions
<1>2. x.callback \in OpenCallbacks => x.callback # NoCallback
  BY DEF OpenCallbacks, NoCallback
<1>3. x.callback # NoCallback =>
        /\ x.callback.status \in {"pending", "due", "reassigned"}
        /\ x.callback.owner \in Owners /\ x.callback.past \in BOOLEAN
  BY <1>1 DEF OpenCallbacks
<1>4. /\ LeftOut(x).callback = NoCallback /\ LeftOut(x).mode = x.mode /\ LeftOut(x).status = x.status
      /\ LeftOut(x).budget = x.budget /\ LeftOut(x).due = x.due /\ LeftOut(x).folder = x.folder
      /\ LeftOut(x).refused = x.refused /\ LeftOut(x).active = x.active /\ LeftOut(x).gate = x.gate
      /\ LeftOut(x).override = x.override
  BY DEF LeftOut, LeadQuestions
<1>5. QueryAgrees(x)
  <2> SUFFICES ASSUME x.mode = "automatic", x.gate
               PROVE  (Selected(x) => LeadEligible(LeftOut(x))) /\ (LeadEligible(x) <=> Selected(x))
    BY DEF QueryAgrees
  <2>1. Selected(x) => LeadEligible(LeftOut(x))
    BY <1>1, <1>4 DEF Selected, LeadEligible, CallbackBlocks, QueueBlocks
  <2>2. CallbackBlocks(x) <=> x.callback # NoCallback BY DEF CallbackBlocks
  <2>3. QueueBlocks(x) <=> ~(x.folder /\ x.status \in {"queued", "retry_wait"} /\ x.budget /\ x.due)
    BY <1>1 DEF QueueBlocks
  <2> QED BY <2>1, <2>2, <2>3 DEF LeadEligible, Selected
<1>6. HandAgrees(x)
  <2> SUFFICES ASSUME x.mode = "manual", x.override, x.gate PROVE LeadEligible(x) <=> PersonMayCall(x)
    BY DEF HandAgrees
  <2>1. ~QueueBlocks(x) BY DEF QueueBlocks
  <2>2. ~CallbackBlocks(x) <=>
          \/ x.callback = NoCallback
          \/ /\ x.callback.owner = "me" /\ x.callback.past
             /\ x.callback.status \in {"due", "reassigned"}
    BY DEF CallbackBlocks
  <2> QED BY <2>1, <2>2 DEF LeadEligible, PersonMayCall
<1> QED BY <1>5, <1>6

LEMMA LineRules == \A x \in LineQuestions : LineAgrees(x)
<1> SUFFICES ASSUME NEW x \in LineQuestions PROVE LineAgrees(x)
  OBVIOUS
<1>1. /\ x.mode \in {"automatic", "manual", "preview"} /\ (x.cooled => x.before)
      /\ {x.connected, x.flagged, x.before, x.cooled, x.own} \subseteq BOOLEAN
  BY DEF LineQuestions
<1> QED BY <1>1 DEF LineAgrees, LineEligible, LineQuery

\* The score: hour by hour, what the age takes is at most 2 and what fairness adds at least 8.
LEMMA ScoreRules == \A x \in ScoreQuestions : WaitingRaises(x)
<1> SUFFICES ASSUME NEW x \in ScoreQuestions PROVE WaitingRaises(x)
  OBVIOUS
<1>1. /\ x.hours \in 0..30 /\ x.priority \in Int /\ x.attempts \in 0..3
      /\ x.inbound \in BOOLEAN /\ x.callbackDue \in BOOLEAN
  BY DEF ScoreQuestions
<1>2. ASSUME NEW h \in 0..30
      PROVE  /\ AgeEffect(h) = (120 * (72 - h) * 2 + 72) \div 144 /\ AgeEffect(h) \in Int
             /\ h <= 12 => FairnessEffect(h) = (200 * h + 12) \div 24
             /\ FairnessEffect(h) \in Int
  BY DEF AgeEffect, FairnessEffect, RoundDiv, Greatest, Least
<1>3. ASSUME NEW a \in Int PROVE Greatest(0, Least(1000, a)) \in 0..1000
  BY DEF Greatest, Least
<1>4. ASSUME NEW a \in Int, NEW b \in Int, a <= b
      PROVE  Greatest(0, Least(1000, a)) <= Greatest(0, Least(1000, b))
  BY <1>4 DEF Greatest, Least
<1> DEFINE all(y) == 500 + 4 * y.priority + AgeEffect(y.hours) + FairnessEffect(y.hours)
               + (IF y.callbackDue THEN 300 ELSE 0)
               + (IF y.inbound /\ y.hours <= 24 THEN 180 ELSE 0)
               - Least(500, 50 * y.attempts)
<1>5. all(x) \in Int BY <1>1, <1>2 DEF Least
<1>6. Score(x) = Greatest(0, Least(1000, all(x))) BY DEF Score
<1>7. ASSUME x.hours < 12 PROVE Score([x EXCEPT !.hours = @ + 1]) >= Score(x)
  <2> DEFINE y == [x EXCEPT !.hours = @ + 1]
             h == x.hours
  <2>1. /\ y.hours = h + 1 /\ y.priority = x.priority /\ y.attempts = x.attempts
        /\ y.inbound = x.inbound /\ y.callbackDue = x.callbackDue
    BY DEF ScoreQuestions
  <2>2. h \in 0..11 /\ h + 1 \in 0..30 /\ h + 1 <= 12 /\ h + 1 <= 24 /\ h <= 24 BY <1>1, <1>7
  <2>3. Score(y) = Greatest(0, Least(1000, all(y))) BY DEF Score
  <2>4. AgeEffect(h + 1) + FairnessEffect(h + 1) >= AgeEffect(h) + FairnessEffect(h)
    BY <1>2, <2>2
  <2>5. all(y) \in Int /\ all(x) <= all(y)
    BY <1>1, <1>2, <2>1, <2>2, <2>4 DEF Least
  <2>6. Score(y) >= Score(x)
    <3> HIDE DEF all, y
    <3> QED BY <1>3, <1>4, <1>5, <1>6, <2>3, <2>5
  <2> QED BY <2>6
<1> HIDE DEF all
<1> QED BY <1>3, <1>5, <1>6, <1>7 DEF WaitingRaises
\* A function that tells the members of a finite set apart takes every value, when there are
\* no more values than members.
LEMMA TakesAll ==
  ASSUME NEW A, NEW B, IsFiniteSet(B), Cardinality(A) = Cardinality(B), NEW f \in [A -> B],
         \A x, y \in A : x # y => f[x] # f[y]
  PROVE  \A b \in B : \E x \in A : f[x] = b
<1>1. f \in Injection(A, B) BY DEF Injection, IsInjective
<1>2. f \in Surjection(A, B) BY <1>1, FS_Injection
<1> QED BY <1>2 DEF Surjection

LEMMA EngineOrder ==
  ASSUME NEW c, NEW n \in Nat, NEW i \in 1..n, NEW j \in 1..n, NEW k \in 1..n,
         \A m \in 1..n : c[m].score \in Int /\ c[m].starved \in BOOLEAN
  PROVE  /\ ~Before(c, i, i) /\ ~(Before(c, i, j) /\ Before(c, j, i))
         /\ i # j => Before(c, i, j) \/ Before(c, j, i)
         /\ Before(c, i, j) /\ Before(c, j, k) => Before(c, i, k)
<1> DEFINE s(m) == c[m].score
           t(m) == c[m].starved
<1>1. /\ s(i) \in Int /\ s(j) \in Int /\ s(k) \in Int
      /\ t(i) \in BOOLEAN /\ t(j) \in BOOLEAN /\ t(k) \in BOOLEAN
  OBVIOUS
<1>2. \A p, q : Before(c, p, q) <=>
        \/ t(p) /\ ~t(q)
        \/ t(p) = t(q) /\ s(p) > s(q)
        \/ t(p) = t(q) /\ s(p) = s(q) /\ p < q
  BY DEF Before
<1> HIDE DEF s, t
<1> QED BY <1>1, <1>2

\* There is an order of the engine: a lead's place is one more than those who go before it.
LEMMA EngineOrders ==
  ASSUME NEW c, NEW n \in Nat, \A m \in 1..n : c[m].score \in Int /\ c[m].starved \in BOOLEAN,
         NEW places, places \subseteq 1..n
  PROVE  /\ IsFiniteSet(places) /\ Cardinality(places) \in Nat
         /\ ByEngine(c, places) \in [1..Cardinality(places) -> places]
         /\ \A i, j \in 1..Cardinality(places) :
               i < j => Before(c, ByEngine(c, places)[i], ByEngine(c, places)[j])
<1> DEFINE N == Cardinality(places)
           first(p) == {q \in places : Before(c, q, p)}
           rank == [p \in places |-> Cardinality(first(p)) + 1]
<1>1. IsFiniteSet(places) /\ N \in Nat
  <2>1. IsFiniteSet(1..n)
    <3>1. 1 \in Int /\ n \in Int OBVIOUS
    <3> QED BY <3>1, FS_Interval
  <2>2. IsFiniteSet(places) BY <2>1, FS_Subset
  <2> QED BY <2>2, FS_CardinalityType
<1>2. \A p \in places : IsFiniteSet(first(p)) /\ Cardinality(first(p)) \in Nat
  BY <1>1, FS_Subset, FS_CardinalityType
<1>3. ASSUME NEW p \in places PROVE rank[p] \in 1..N
  <2>1. p \notin first(p) /\ first(p) \subseteq places BY EngineOrder
  <2>2. Cardinality(first(p)) <= N /\ Cardinality(first(p)) # N BY <1>1, <2>1, FS_Subset
  <2>3. Cardinality(first(p)) \in Nat BY <1>2
  <2> HIDE DEF first, N
  <2> QED BY <1>1, <2>2, <2>3
<1>4. ASSUME NEW p \in places, NEW q \in places, Before(c, p, q) PROVE rank[p] < rank[q]
  <2>1. p \in 1..n /\ q \in 1..n OBVIOUS
  <2>2. first(p) \subseteq first(q)
    <3> SUFFICES ASSUME NEW o \in first(p) PROVE Before(c, o, q) OBVIOUS
    <3>1. o \in 1..n /\ Before(c, o, p) OBVIOUS
    <3> QED BY <1>4, <2>1, <3>1, EngineOrder
  <2>3. p \in first(q) /\ p \notin first(p) BY <1>4, <2>1, EngineOrder
  <2>4. Cardinality(first(p)) <= Cardinality(first(q)) /\ Cardinality(first(p)) # Cardinality(first(q))
    BY <1>2, <2>2, <2>3, FS_Subset
  <2>5. Cardinality(first(p)) \in Nat /\ Cardinality(first(q)) \in Nat BY <1>2
  <2> HIDE DEF first
  <2> QED BY <2>4, <2>5
<1>5. \A p, q \in places : p # q => rank[p] # rank[q]
  <2> SUFFICES ASSUME NEW p \in places, NEW q \in places, p # q PROVE rank[p] # rank[q]
    OBVIOUS
  <2>1. Before(c, p, q) \/ Before(c, q, p) BY EngineOrder
  <2>2. rank[p] \in Nat /\ rank[q] \in Nat BY <1>3
  <2>3. rank[p] < rank[q] \/ rank[q] < rank[p] BY <1>4, <2>1
  <2> HIDE DEF rank
  <2> QED BY <2>2, <2>3
<1>6. rank \in [places -> 1..N] BY <1>3
<1>7. \A k \in 1..N : \E p \in places : rank[p] = k
  <2>1. IsFiniteSet(1..N) /\ Cardinality(1..N) = N BY <1>1, FS_Interval
  <2>2. Cardinality(places) = Cardinality(1..N) BY <2>1
  <2> DEFINE B == 1..N
  <2>3. IsFiniteSet(B) /\ Cardinality(places) = Cardinality(B) /\ rank \in [places -> B]
    BY <1>6, <2>1, <2>2
  <2> HIDE DEF rank, N, B
  <2>4. \A b \in B : \E p \in places : rank[p] = b BY ONLY <1>5, <2>3, TakesAll
  <2> QED BY <2>4 DEF B
<1> DEFINE sorted == [k \in 1..N |-> CHOOSE p \in places : rank[p] = k]
<1> HIDE DEF rank
<1>8. ASSUME NEW k \in 1..N PROVE sorted[k] \in places /\ rank[sorted[k]] = k
  <2>1. \E p \in places : rank[p] = k BY <1>7
  <2> QED BY <2>1
<1>9. sorted \in [1..N -> places] BY <1>8
<1>10. ASSUME NEW i \in 1..N, NEW j \in 1..N, i < j PROVE Before(c, sorted[i], sorted[j])
  <2>1. /\ sorted[i] \in places /\ sorted[j] \in places
        /\ rank[sorted[i]] = i /\ rank[sorted[j]] = j
    BY <1>8
  <2> HIDE DEF sorted
  <2>2. sorted[i] # sorted[j] /\ ~(rank[sorted[j]] < rank[sorted[i]]) BY <1>10, <2>1
  <2>3. ~Before(c, sorted[j], sorted[i]) BY <1>4, <2>1, <2>2
  <2>4. sorted[i] \in 1..n /\ sorted[j] \in 1..n BY <2>1
  <2> QED BY <2>2, <2>3, <2>4, EngineOrder
<1> HIDE DEF sorted
<1>11. \E s \in [1..N -> places] : \A i, j \in DOMAIN s : i < j => Before(c, s[i], s[j])
  <2>1. DOMAIN sorted = 1..N BY <1>9
  <2> QED BY <1>9, <1>10, <2>1
<1>12. /\ ByEngine(c, places) \in [1..N -> places]
       /\ \A i, j \in DOMAIN ByEngine(c, places) :
             i < j => Before(c, ByEngine(c, places)[i], ByEngine(c, places)[j])
  BY <1>11 DEF ByEngine
<1>13. DOMAIN ByEngine(c, places) = 1..N BY <1>12
<1> QED BY <1>1, <1>12, <1>13
\* The slots of a campaign before a place: the later the place, the more of them.
LEMMA SlotsCounted ==
  ASSUME NEW places, IsFiniteSet(places), places \subseteq Nat, NEW i \in places, NEW j \in places, i < j
  PROVE  /\ Cardinality({k \in places : k <= i}) \in 1..Cardinality(places)
         /\ Cardinality({k \in places : k <= j}) \in 1..Cardinality(places)
         /\ Cardinality({k \in places : k <= i}) < Cardinality({k \in places : k <= j})
<1> DEFINE upto(p) == {k \in places : k <= p}
<1>1. ASSUME NEW p \in places PROVE IsFiniteSet(upto(p)) /\ Cardinality(upto(p)) \in 1..Cardinality(places)
  <2>1. p \in upto(p) /\ upto(p) \subseteq places OBVIOUS
  <2>2. IsFiniteSet(upto(p)) /\ Cardinality(upto(p)) <= Cardinality(places) BY <2>1, FS_Subset
  <2>3. Cardinality(upto(p)) \in Nat /\ Cardinality(places) \in Nat BY <2>2, FS_CardinalityType
  <2>4. Cardinality(upto(p)) # 0 BY <2>1, <2>2, FS_EmptySet
  <2> HIDE DEF upto
  <2> QED BY <2>2, <2>3, <2>4
<1>2. upto(i) \subseteq upto(j) /\ j \in upto(j) /\ j \notin upto(i)
  <2>1. i \in Nat /\ j \in Nat /\ \A k \in places : k \in Nat OBVIOUS
  <2>2. \A k \in places : k <= i => k <= j BY <2>1
  <2>3. ~(j <= i) /\ j <= j BY <2>1
  <2> QED BY <2>2, <2>3
<1>3. Cardinality(upto(i)) <= Cardinality(upto(j)) /\ Cardinality(upto(i)) # Cardinality(upto(j))
  BY <1>1, <1>2, FS_Subset
<1>4. Cardinality(upto(i)) < Cardinality(upto(j))
  <2> HIDE DEF upto
  <2> QED BY <1>1, <1>3
<1> QED BY <1>1, <1>4

LEMMA OrderRules == \A x \in OrderQuestions : OrderFair(x)
<1> SUFFICES ASSUME NEW x \in OrderQuestions PROVE OrderFair(x)
  OBVIOUS
<1> DEFINE c == x.candidates
           r == Ranked(x)
           CandidateRows == [drive : Drives \union {NoDrive}, score : {1, 2}, starved : BOOLEAN]
<1>1. PICK n \in 1..Longest : c \in [1..n -> CandidateRows] BY DEF OrderQuestions
<1>2. n \in Nat /\ DOMAIN c = 1..n /\ x.on \subseteq Drives
      /\ \A m \in 1..n : c[m].score \in Int /\ c[m].starved \in BOOLEAN
  BY <1>1, DecisionConstants DEF OrderQuestions
<1> DEFINE on(i) == c[i].drive \in x.on
           slots(i) == Slots(c, c[i].drive)
           turn(i) == Cardinality({k \in slots(i) : k <= i})
           line(i) == ByEngine(c, slots(i))
<1>3. \A i \in 1..n : r[i] = IF on(i) THEN line(i)[turn(i)] ELSE i
  BY <1>2 DEF Ranked, Sorted
<1>4. ASSUME NEW i \in 1..n
      PROVE  /\ slots(i) \subseteq 1..n /\ i \in slots(i) /\ IsFiniteSet(slots(i))
             /\ line(i) \in [1..Cardinality(slots(i)) -> slots(i)]
             /\ turn(i) \in 1..Cardinality(slots(i))
             /\ \A j \in slots(i) : c[j].drive = c[i].drive
  <2>1. slots(i) \subseteq 1..n /\ i \in slots(i) /\ \A j \in slots(i) : c[j].drive = c[i].drive
    BY <1>2 DEF Slots
  <2>2. /\ IsFiniteSet(slots(i)) /\ Cardinality(slots(i)) \in Nat
        /\ line(i) \in [1..Cardinality(slots(i)) -> slots(i)]
    <3> DEFINE S == slots(i)
    <3> HIDE DEF S
    <3>1. S \subseteq 1..n BY <2>1 DEF S
    <3> HIDE DEF c
    <3>2. IsFiniteSet(S) /\ Cardinality(S) \in Nat /\ ByEngine(c, S) \in [1..Cardinality(S) -> S]
      BY <1>2, <3>1, EngineOrders
    <3> QED BY <3>2 DEF S
  <2>3. turn(i) \in 1..Cardinality(slots(i))
    <3> DEFINE T == {k \in slots(i) : k <= i}
    <3>1. i \in T /\ T \subseteq slots(i) BY <2>1
    <3>2. IsFiniteSet(T) /\ Cardinality(T) <= Cardinality(slots(i)) BY <2>2, <3>1, FS_Subset
    <3>3. Cardinality(T) \in Nat /\ Cardinality(T) # 0 BY <3>1, <3>2, FS_CardinalityType, FS_EmptySet
    <3> HIDE DEF slots, T
    <3>4. Cardinality(T) \in 1..Cardinality(slots(i)) BY <2>2, <3>2, <3>3
    <3> QED BY <3>4 DEF T
  <2> QED BY <2>1, <2>2, <2>3
<1> HIDE DEF c, r, on, slots, turn, line
<1>5. ASSUME NEW i \in 1..n
      PROVE  r[i] \in 1..n /\ c[r[i]].drive = c[i].drive /\ (c[i].drive \notin x.on => r[i] = i)
  <2>1. CASE on(i)
    <3>1. r[i] = line(i)[turn(i)] BY <1>3, <2>1
    <3>2. r[i] \in slots(i) BY <1>4, <3>1
    <3>3. r[i] \in 1..n /\ c[r[i]].drive = c[i].drive BY <1>4, <3>2
    <3> QED BY <2>1, <3>3 DEF on
  <2>2. CASE ~on(i) BY <1>3, <2>2 DEF on
  <2> QED BY <2>1, <2>2
<1>6. ASSUME NEW i \in 1..n, NEW j \in 1..n, i < j, on(i), c[j].drive = c[i].drive
      PROVE  Before(c, r[i], r[j])
  <2>1. slots(j) = slots(i) /\ line(j) = line(i) /\ on(j) BY <1>6 DEF slots, line, on
  <2>2. slots(i) \subseteq Nat /\ IsFiniteSet(slots(i)) /\ i \in slots(i) /\ j \in slots(i)
    <3>1. slots(i) \subseteq 1..n /\ IsFiniteSet(slots(i)) /\ i \in slots(i) BY <1>4
    <3>2. j \in slots(j) BY <1>4
    <3>3. 1..n \subseteq Nat BY <1>2
    <3> QED BY <2>1, <3>1, <3>2, <3>3
  <2>3. turn(i) < turn(j) BY <1>6, <2>1, <2>2, SlotsCounted DEF turn
  <2>4. turn(i) \in 1..Cardinality(slots(i)) /\ turn(j) \in 1..Cardinality(slots(i)) BY <1>4, <2>1
  <2>5. \A a, b \in 1..Cardinality(slots(i)) : a < b => Before(c, line(i)[a], line(i)[b])
    <3> DEFINE S == slots(i)
    <3>1. S \subseteq 1..n BY <1>4
    <3> HIDE DEF S
    <3>2. \A a, b \in 1..Cardinality(S) : a < b => Before(c, ByEngine(c, S)[a], ByEngine(c, S)[b])
      BY <1>2, <3>1, EngineOrders
    <3> QED BY <3>2 DEF S, line
  <2> QED BY <1>3, <1>6, <2>1, <2>3, <2>4, <2>5
<1>7. ASSUME NEW i \in 1..n, NEW j \in 1..n, i < j PROVE r[i] # r[j]
  <2>1. CASE c[i].drive # c[j].drive BY <1>5, <2>1
  <2>2. CASE c[i].drive = c[j].drive /\ ~on(i) BY <1>3, <1>7, <2>2 DEF on
  <2>3. CASE c[i].drive = c[j].drive /\ on(i)
    <3>1. Before(c, r[i], r[j]) BY <1>6, <1>7, <2>3
    <3>2. r[i] \in 1..n /\ r[j] \in 1..n BY <1>5
    <3> QED BY <1>2, <3>1, <3>2, EngineOrder
  <2> QED BY <2>1, <2>2, <2>3
<1>8. {r[i] : i \in DOMAIN c} = DOMAIN c
  <2>1. \A i, j \in 1..n : i # j => r[i] # r[j]
    <3> SUFFICES ASSUME NEW i \in 1..n, NEW j \in 1..n, i # j PROVE r[i] # r[j] OBVIOUS
    <3>1. i < j \/ j < i BY <1>2
    <3> QED BY <1>7, <3>1
  <2>2. r \in [1..n -> 1..n]
    <3>1. DOMAIN r = 1..n /\ r = [i \in 1..n |-> r[i]] BY <1>2 DEF r, Ranked, c
    <3> QED BY <1>5, <3>1
  <2>3. IsFiniteSet(1..n) BY <1>2, FS_Interval
  <2> DEFINE B == 1..n
  <2>4. r \in [B -> B] /\ IsFiniteSet(B) /\ \A i, j \in B : i # j => r[i] # r[j] BY <2>1, <2>2, <2>3
  <2>5. DOMAIN c = B BY <1>2
  <2> HIDE DEF B
  <2>6. \A b \in B : \E i \in B : r[i] = b BY ONLY <2>4, TakesAll
  <2>7. \A i \in B : r[i] \in B BY <2>4
  <2> QED BY <2>5, <2>6, <2>7
<1>9. ASSUME NEW i \in 1..n, NEW j \in 1..n, i < j, c[i].drive \in x.on, c[j].drive = c[i].drive,
             c[r[j]].starved
      PROVE  c[r[i]].starved
  BY <1>6, <1>9 DEF on, Before
<1> QED BY <1>2, <1>5, <1>8, <1>9 DEF OrderFair, c, r

Questions == LeadQuestions \cup LineQuestions \cup ScoreQuestions \cup OrderQuestions
DecisionsAsked == question = Unasked \/ question \in Questions

LEMMA StepAsked == DecisionsAsked /\ [DecisionNext]_decisionVars => DecisionsAsked'
BY DEF DecisionsAsked, Questions, DecisionNext, decisionVars, Ask, Answers

LEMMA AskedIsFair == DecisionsAsked => DecisionsInv
<1> SUFFICES ASSUME question \in Questions
             PROVE  /\ question.about = "lead" => QueryAgrees(question) /\ HandAgrees(question)
                    /\ question.about = "line" => LineAgrees(question)
                    /\ question.about = "score" => WaitingRaises(question)
                    /\ question.about = "order" => OrderFair(question)
  BY DEF DecisionsAsked, DecisionsInv
<1>1. /\ \A x \in LeadQuestions : x.about = "lead"
      /\ \A x \in LineQuestions : x.about = "line"
      /\ \A x \in ScoreQuestions : x.about = "score"
      /\ \A x \in OrderQuestions : x.about = "order"
  BY DEF LeadQuestions, LineQuestions, ScoreQuestions, OrderQuestions
<1>2. CASE question \in LeadQuestions BY <1>1, <1>2, LeadRules
<1>3. CASE question \in LineQuestions BY <1>1, <1>3, LineRules
<1>4. CASE question \in ScoreQuestions BY <1>1, <1>4, ScoreRules
<1>5. CASE question \in OrderQuestions BY <1>1, <1>5, OrderRules
<1> QED BY <1>2, <1>3, <1>4, <1>5 DEF Questions

\* Every question, for any number of candidates and campaigns: the query of a tick takes whom the
\* rules let it call, the rules of a manual call let pass whom a person may call, the score never
\* punishes the first half day of waiting, and the order of the engine is a fair permutation.
THEOREM RulesAgree == DecisionSpec => []DecisionsInv
<1>1. DecisionInit => DecisionsAsked BY DEF DecisionInit, DecisionsAsked
<1> QED BY <1>1, StepAsked, AskedIsFair, PTL DEF DecisionSpec

LEMMA FloorOfDialing == FloorInit => QueueInit /\ DecisionsAsked
BY DEF FloorInit, DecisionInit, DecisionsAsked

LEMMA FloorStepsDecisions == [FloorNext]_floorVars => [DecisionNext]_decisionVars
BY DEF FloorNext, floorVars, others

\* Whose turn it is, of a floor: the queue and the rules of the decision.
THEOREM DialingKept == FloorSpec => []DialingInv
<1>1. QueueIInv /\ DecisionsAsked => DialingInv BY QueueIsKept, AskedIsFair DEF DialingInv
<1> QED BY FloorOfDialing, FloorStepsQueue, FloorStepsDecisions, InitQueue, StepQueue, StepAsked,
           <1>1, PTL DEF FloorSpec
=============================================================================
