----------------------------- MODULE LineGuard -----------------------------
(***************************************************************************)
(* How one WhatsApp line is protected between calls: the cooldown, the     *)
(* backoff after a 429, an instant failure or a stalled call (both kept in *)
(* the one column last_call_ended_at) and the quarantine after repeated    *)
(* instant failures (flagged_until).  A dial reads the line's row, passes  *)
(* the gate of its kind and then reserves the line; the row is not read    *)
(* again.  Each call is finished once here; module CallLifecycle has the   *)
(* calls that are finished twice.                                          *)
(*                                                                         *)
(* Operators marked "wrong on purpose" are used by no action: each is the  *)
(* slip that one of the properties below is there to catch.                *)
(***************************************************************************)
EXTENDS Integers

CONSTANTS
  Cooldowns,     \* the values cooldown_seconds takes: 0..3600 in the DTOs
  Waits,         \* the "wait for Ns" of a 429
  Floor,         \* 180 s: the shortest backoff after a 429
  Ceiling,       \* 600 s: the longest backoff
  RapidBackoff,  \* rapidFailureBackoffSeconds, 180..600
  StallBackoff,  \* inboundAudioRecoveryBackoffSeconds, 60..600
  Threshold,     \* FLAG_FAILURE_THRESHOLD
  Quarantine,    \* flagQuarantineHours
  Stale,         \* TRUE when a call may end between the read and the reservation of another
  MaxTime, MaxStrikes,   \* bounds: the clock, and the instant failures in a row
  None

Kind == {"automatic", "manual"}
Cause == {"429", "stall", "instant"}

ASSUME Settings == /\ Cooldowns \subseteq Nat /\ Cooldowns # {} /\ Waits \subseteq Nat
                   /\ {Floor, Ceiling, RapidBackoff, StallBackoff} \subseteq Nat
                   /\ {Quarantine, MaxTime, MaxStrikes} \subseteq Nat
                   /\ Threshold \in Nat \ {0} /\ Stale \in BOOLEAN
                   /\ Floor <= Ceiling /\ RapidBackoff <= Ceiling /\ StallBackoff <= Ceiling
ASSUME NoneIsNoTime == None \notin Int

VARIABLES
  now,
  cooldown,      \* cooldown_seconds
  ended,         \* last_call_ended_at, None for NULL; a date to come protects the line
  flaggedUntil,  \* flagged_until, 0 for NULL
  failures,      \* zapcall:line-failures:*, the instant failures in a row
  seen,          \* the kinds of dial that have read the row and passed their gate
  call,          \* the kind of the call that holds the line, or None
  backoffUntil,  \* ghost: until when the last backoff of each cause runs
  hungUp,        \* ghost: when the last call really ended, or None
  edited,        \* ghost: the cooldown has been edited
  strikes,       \* ghost: the instant failures since the last call that had audio
  struckAt       \* ghost: when the last of them was

ghosts == <<backoffUntil, hungUp, strikes, struckAt>>
row  == <<cooldown, ended, flaggedUntil, failures, edited>>
vars == <<now, row, seen, call, ghosts>>

TypeOK ==
  /\ now \in Nat /\ cooldown \in Cooldowns /\ edited \in BOOLEAN
  /\ ended \in Int \cup {None} /\ hungUp \in Nat \cup {None}
  /\ flaggedUntil \in Nat /\ failures \in 0..(Threshold - 1)
  /\ seen \subseteq Kind /\ call \in Kind \cup {None}
  /\ backoffUntil \in [Cause -> Nat] /\ {strikes, struckAt} \subseteq Nat

Init ==
  /\ now = 0 /\ cooldown \in Cooldowns /\ ended = None /\ flaggedUntil = 0 /\ failures = 0
  /\ seen = {} /\ call = None /\ edited = FALSE
  /\ backoffUntil = [cause \in Cause |-> 0] /\ hungUp = None /\ strikes = 0 /\ struckAt = 0
-----------------------------------------------------------------------------
Smaller(a, b) == IF a < b THEN a ELSE b
Larger(a, b) == IF a > b THEN a ELSE b

\* computeRateLimitBackoffSeconds, computeRateLimitCooldownWindowSeconds
BackoffSeconds(wait) == Smaller(Ceiling, Larger(Floor, wait))
WindowTwice(backoff) == Larger(cooldown, backoff) - cooldown   \* wrong on purpose: taken off twice
WindowSeconds(backoff) == Smaller(Ceiling, Larger(cooldown, backoff))

CooldownIsPast == ended # None => ended <= now   \* wrong on purpose: a manual call's gate

\* cooldownIsReady; lineIsProtected, which is all that a manual call respects.
CooldownIsReady == ended # None => ended + cooldown <= now
LineIsProtected == ended # None /\ ended > now

Gate(k) ==
  /\ flaggedUntil <= now
  /\ IF k = "automatic" THEN CooldownIsReady ELSE ~LineIsProtected

Read(k) ==
  /\ k \notin seen /\ Gate(k)
  /\ seen' = seen \cup {k}
  /\ UNCHANGED <<now, row, call, ghosts>>

\* The reservation: one call per session, whatever the row says by now.
Dial(k) ==
  /\ k \in seen /\ call = None
  /\ seen' = seen \ {k}
  /\ call' = k
  /\ UNCHANGED <<now, row, ghosts>>

GiveUp(k) ==
  /\ k \in seen
  /\ seen' = seen \ {k}
  /\ UNCHANGED <<now, row, call, ghosts>>

\* finishCall(): the line's row and the release of the line.
HangUp(date) ==
  /\ call # None
  /\ Stale \/ seen = {}
  /\ call' = None /\ hungUp' = now
  /\ ended' = date
  /\ UNCHANGED <<now, cooldown, seen, edited>>

\* A date that keeps the line out for the backoff, counted from the cooldown on.
HangUpFor(cause, backoff) ==
  /\ HangUp(now + WindowSeconds(backoff) - cooldown)
  /\ backoffUntil' = [backoffUntil EXCEPT ![cause] = now + backoff]

Ends(healthy) ==
  /\ HangUp(now)
  /\ failures' = IF healthy THEN 0 ELSE failures
  /\ strikes' = IF healthy THEN 0 ELSE strikes
  /\ UNCHANGED <<flaggedUntil, backoffUntil, struckAt>>

\* 429: applyRateLimitBackoff
RateLimited(wait) ==
  /\ HangUpFor("429", BackoffSeconds(wait))
  /\ UNCHANGED <<flaggedUntil, failures, strikes, struckAt>>

\* handleInboundAudioStall: the call had been answered.
Stalls ==
  /\ HangUpFor("stall", StallBackoff)
  /\ failures' = 0 /\ strikes' = 0
  /\ UNCHANGED <<flaggedUntil, struckAt>>

FlaggedAbove(count) == count > Threshold   \* wrong on purpose: one failure late

\* shouldQuarantineLine
Flagged(count) == count >= Threshold

\* registerLineInstantFailure, then finishCall
InstantFailure ==
  LET count == failures + 1
  IN /\ strikes < MaxStrikes
     /\ HangUpFor("instant", RapidBackoff)
     /\ failures' = IF Flagged(count) THEN 0 ELSE count
     /\ flaggedUntil' = IF Flagged(count) THEN now + Quarantine ELSE flaggedUntil
     /\ strikes' = strikes + 1 /\ struckAt' = now

\* PATCH /numbers: only cooldown_seconds is written.
SetCooldown(x) ==
  /\ x # cooldown
  /\ cooldown' = x /\ edited' = TRUE
  /\ UNCHANGED <<now, ended, flaggedUntil, failures, seen, call, ghosts>>

\* An admin lifts the protection: what the ghosts remember is lifted with it.
ClearNumberCooldown ==
  /\ ended # None
  /\ ended' = None /\ backoffUntil' = [cause \in Cause |-> 0] /\ hungUp' = None
  /\ UNCHANGED <<now, cooldown, edited, flaggedUntil, failures, seen, call, strikes, struckAt>>

ClearNumberQuarantine ==
  /\ flaggedUntil # 0
  /\ flaggedUntil' = 0 /\ failures' = 0 /\ strikes' = 0
  /\ UNCHANGED <<now, cooldown, edited, ended, seen, call, backoffUntil, hungUp, struckAt>>

Tick ==
  /\ now < MaxTime
  /\ now' = now + 1
  /\ UNCHANGED <<row, seen, call, ghosts>>

Next ==
  \/ \E k \in Kind : Read(k) \/ Dial(k) \/ GiveUp(k)
  \/ \E healthy \in BOOLEAN : Ends(healthy)
  \/ \E wait \in Waits : RateLimited(wait)
  \/ Stalls \/ InstantFailure
  \/ \E x \in Cooldowns : SetCooldown(x)
  \/ ClearNumberCooldown \/ ClearNumberQuarantine
  \/ Tick

Spec == Init /\ [][Next]_vars
-----------------------------------------------------------------------------
\* The dialer starts no call on a line before every backoff it was given is over,
\* although a manual call may be placed meanwhile and overwrites the date: until the
\* cooldown, which the date is relative to, is edited.
BackoffHeld ==
  [][Dial("automatic") /\ ~edited => \A cause \in Cause : now >= backoffUntil[cause]]_vars

\* Nor before the cooldown has passed since the last call of the line ended.
CooldownKept ==
  [][Dial("automatic") /\ ~edited /\ hungUp # None => now >= hungUp + cooldown]_vars

\* Whenever Threshold instant failures in a row are full no call of either kind
\* starts for the length of the quarantine, whatever happens to the cooldown.
QuarantineHeld ==
  [][\A k \in Kind :
       Dial(k) /\ strikes > 0 /\ strikes % Threshold = 0 => now >= struckAt + Quarantine]_vars

\* "Ligações manuais obedecem à mesma proteção do discador automático", and a 429
\* "é respeitado com backoff entre 180 e 600 s" (politica-discador-whatsapp.md).
ManualBackoffHeld == [][Dial("manual") => now >= backoffUntil["429"]]_vars
=============================================================================
