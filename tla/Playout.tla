------------------------------- MODULE Playout -------------------------------
(***************************************************************************)
(* How the frames of a call are played in the browser: queued until the    *)
(* context runs, then scheduled one after the other, dropped while too     *)
(* much is scheduled ahead.  Time is counted in frames of 20 ms, and the   *)
(* schedule relative to the clock of the context; the network delivers     *)
(* late and in bursts.                                                     *)
(***************************************************************************)
EXTENDS Integers

CONSTANTS
    BacklogHigh,    \* PLAYBACK_BACKLOG_HIGH_S, in frames
    BacklogLow,     \* PLAYBACK_BACKLOG_LOW_S
    StartLead,      \* PLAYBACK_START_LEAD_S
    Replayed,       \* PENDING_PLAYBACK_REPLAY_FRAMES
    PendingLimit,   \* the frames pendingPlayback holds
    Slack           \* bound: how far behind its clock the schedule is looked at

ASSUME PlayoutConstants ==
    /\ {BacklogHigh, BacklogLow, StartLead, Replayed, PendingLimit, Slack} \subseteq Nat
    /\ StartLead < BacklogLow /\ BacklogLow < BacklogHigh /\ Slack > 0

VARIABLES
    running,        \* the context runs and nothing waits for it
    pending,        \* pendingPlayback: how many frames
    ahead,          \* nextPlayTime - currentTime
    shedding        \* frames are dropped until the backlog is low

playVars == <<running, pending, ahead, shedding>>

PlayTypeOK ==
    /\ running \in BOOLEAN /\ pending \in 0..PendingLimit
    /\ ahead \in Int /\ shedding \in BOOLEAN

PlayInit == running = FALSE /\ pending = 0 /\ ahead = -Slack /\ shedding = FALSE

(* Wrong on purpose: one frame is dropped, and the next one played.        *)
SheddingOnce(was, backlog) == backlog > BacklogHigh /\ ~was

SheddingAfter(was, backlog) ==
    IF backlog > BacklogHigh THEN TRUE ELSE IF backlog < BacklogLow THEN FALSE ELSE was

ReplayedOf(n) == IF n > Replayed THEN Replayed ELSE n

Later(from) == (IF from < 0 THEN StartLead ELSE from) + 1

(* enqueuePlayback() of n frames, one after the other.                     *)
Enqueued(n) ==
    LET after[k \in 0..n] ==
            IF k = 0 THEN [ahead |-> ahead, shedding |-> shedding]
            ELSE LET p == after[k - 1]
                     s == SheddingAfter(p.shedding, p.ahead)
                 IN [ahead |-> IF s THEN p.ahead ELSE Later(p.ahead), shedding |-> s]
    IN after[n]

Schedule(n) ==
    LET e == Enqueued(n) IN
    ahead' = e.ahead /\ shedding' = e.shedding

(* play(): a frame is queued, or scheduled at once.                        *)
Play ==
    \/ /\ ~running
       /\ pending' = IF pending < PendingLimit THEN pending + 1 ELSE pending
       /\ UNCHANGED <<running, ahead, shedding>>
    \/ running /\ Schedule(1) /\ UNCHANGED <<running, pending>>

(* ensureContext(), resumeAndFlushPlayback(): the latest frames are played.*)
ContextReady ==
    /\ ~running /\ running' = TRUE
    /\ pending' = 0
    /\ Schedule(ReplayedOf(pending))

(* The browser suspends the context: its clock stands still.               *)
Suspend == running /\ running' = FALSE /\ UNCHANGED <<pending, ahead, shedding>>

(* 20 ms of the context's clock.                                           *)
ClockRuns ==
    /\ running /\ ahead > -Slack
    /\ ahead' = ahead - 1
    /\ UNCHANGED <<running, pending, shedding>>

(* stop()                                                                  *)
StopPlayout ==
    /\ running' = FALSE /\ pending' = 0 /\ ahead' = -Slack /\ shedding' = FALSE

PlayNext == Play \/ ContextReady \/ Suspend \/ ClockRuns \/ StopPlayout

PlaySpec == PlayInit /\ [][PlayNext]_playVars

-----------------------------------------------------------------------------
(* What is heard lags by the high mark at most and one frame, however the  *)
(* frames come and whatever waited for the context.                        *)
LagBounded == ahead <= BacklogHigh + 1
=============================================================================
