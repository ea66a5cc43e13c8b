-------------------------- MODULE LineGuardProofs --------------------------
(***************************************************************************)
(* Why one column is enough for the cooldown and for every backoff: while  *)
(* the cooldown of the line is not edited, the date it holds never moves   *)
(* to before any backoff that still runs, whoever overwrites it.  And why  *)
(* a counter that starts again at the threshold is enough for the          *)
(* quarantine: it is 0 after a failure only when that failure flagged.     *)
(***************************************************************************)
EXTENDS LineGuard, TLAPS

USE DEF Kind, Cause

LEMMA Windows ==
  ASSUME TypeOK, NEW b \in 0..Ceiling
  PROVE  /\ WindowSeconds(b) \in Nat
         /\ WindowSeconds(b) >= b
         /\ cooldown <= Ceiling => WindowSeconds(b) >= cooldown
BY Settings DEF TypeOK, WindowSeconds, Smaller, Larger

LEMMA Backoffs == ASSUME NEW w \in Waits PROVE BackoffSeconds(w) \in 0..Ceiling
BY Settings DEF BackoffSeconds, Smaller, Larger

\* Every way of ending a call is one of these two.
LEMMA HangUpForTypeOK ==
  ASSUME TypeOK, NEW cause \in Cause, NEW b \in 0..Ceiling, HangUpFor(cause, b)
  PROVE  /\ now' \in Nat /\ cooldown' \in Cooldowns /\ edited' \in BOOLEAN
         /\ ended' \in Int \cup {None} /\ hungUp' \in Nat \cup {None}
         /\ seen' \subseteq Kind /\ call' \in Kind \cup {None}
         /\ backoffUntil' \in [Cause -> Nat]
<1>1. WindowSeconds(b) \in Nat BY Windows
<1>2. now + b \in Nat /\ b \in Nat BY Settings DEF TypeOK
<1>3. cooldown \in Nat BY Settings DEF TypeOK
<1>4. now + WindowSeconds(b) - cooldown \in Int BY <1>1, <1>3 DEF TypeOK
<1> QED BY <1>1, <1>2, <1>4 DEF TypeOK, HangUpFor, HangUp

LEMMA StepTypeOK == TypeOK /\ [Next]_vars => TypeOK'
<1> SUFFICES ASSUME TypeOK, [Next]_vars PROVE TypeOK'
  OBVIOUS
<1>1. ASSUME NEW k \in Kind, Read(k) \/ Dial(k) \/ GiveUp(k) PROVE TypeOK'
  BY <1>1 DEF TypeOK, Read, Dial, GiveUp, row, ghosts
<1>2. ASSUME NEW healthy \in BOOLEAN, Ends(healthy) PROVE TypeOK'
  BY <1>2, Settings DEF TypeOK, Ends, HangUp
<1>3. ASSUME NEW wait \in Waits, RateLimited(wait) PROVE TypeOK'
  BY <1>3, Backoffs, HangUpForTypeOK DEF TypeOK, RateLimited
<1>4. CASE Stalls
  BY <1>4, HangUpForTypeOK, Settings DEF TypeOK, Stalls
<1>5. CASE InstantFailure
  BY <1>5, HangUpForTypeOK, Settings DEF TypeOK, InstantFailure, Flagged, HangUpFor, HangUp
<1>6. ASSUME NEW x \in Cooldowns, SetCooldown(x) PROVE TypeOK'
  BY <1>6 DEF TypeOK, SetCooldown, ghosts
<1>7. CASE ClearNumberCooldown
  BY <1>7 DEF TypeOK, ClearNumberCooldown
<1>8. CASE ClearNumberQuarantine
  BY <1>8, Settings DEF TypeOK, ClearNumberQuarantine
<1>9. CASE Tick
  BY <1>9 DEF TypeOK, Tick, row, ghosts
<1>10. CASE UNCHANGED vars
  BY <1>10 DEF TypeOK, vars, row, ghosts
<1> QED
  BY <1>1, <1>2, <1>3, <1>4, <1>5, <1>6, <1>7, <1>8, <1>9, <1>10 DEF Next

LEMMA InitTypeOK == Init => TypeOK
<1> SUFFICES ASSUME Init PROVE TypeOK
  OBVIOUS
<1>1. edited \in BOOLEAN BY Zenon DEF Init
<1>2. failures \in 0..(Threshold - 1) BY Settings DEF Init
<1>3. /\ backoffUntil \in [Cause -> Nat] /\ {strikes, struckAt} \subseteq Nat
      /\ now \in Nat /\ cooldown \in Cooldowns /\ flaggedUntil \in Nat
  BY DEF Init
<1> QED BY <1>1, <1>2, <1>3 DEF Init, TypeOK

\* The line's row keeps the types of its columns; the counter stays below the threshold.
THEOREM TypeCorrect == Spec => []TypeOK
BY InitTypeOK, StepTypeOK, PTL DEF Spec
-----------------------------------------------------------------------------
\* Whoever has passed a gate could pass it again: rows are not stale, and time
\* only opens a gate.
SeenIsOpen ==
  ended # None =>
    /\ call # None \/ "manual" \in seen => ended <= now
    /\ "automatic" \in seen => ended + cooldown <= now

\* What the column promises: it is never NULL and never too early for a backoff.
\* No backoff is longer than Ceiling, the longest date a call can leave behind.
DateCovers ==
  \A cause \in Cause :
    /\ backoffUntil[cause] <= now + Ceiling
    /\ ended = None => backoffUntil[cause] = 0
    /\ ended # None => backoffUntil[cause] <= ended + cooldown

GuardInv == TypeOK /\ SeenIsOpen /\ DateCovers

\* An edit of the cooldown moves every date that is relative to it.
UneditedInv == TypeOK /\ (edited \/ GuardInv)

LEMMA Numbers ==
  TypeOK => /\ cooldown \in Nat /\ now \in Nat /\ Ceiling \in Nat
            /\ \A cause \in Cause : backoffUntil[cause] \in Nat
            /\ ended # None => ended \in Int
BY Settings DEF TypeOK

\* A call that ends leaves a date that covers its own backoff and the older ones.
LEMMA HangUpForGuard ==
  ASSUME ~Stale, GuardInv, TypeOK', NEW cause \in Cause, NEW b \in 0..Ceiling,
         HangUpFor(cause, b)
  PROVE  SeenIsOpen' /\ DateCovers'
<1>0. b \in Nat /\ b <= Ceiling BY Settings
<1>1. WindowSeconds(b) \in Nat /\ WindowSeconds(b) >= b
  BY Windows DEF GuardInv
<1>2. WindowSeconds(b) >= cooldown \/ WindowSeconds(b) = Ceiling
  BY Settings DEF GuardInv, TypeOK, WindowSeconds, Smaller, Larger
<1>3. /\ ended' = now + WindowSeconds(b) - cooldown /\ cooldown' = cooldown /\ now' = now
      /\ seen' = {} /\ call' = None /\ call # None
      /\ backoffUntil' = [backoffUntil EXCEPT ![cause] = now + b]
  BY DEF HangUpFor, HangUp, GuardInv, TypeOK
<1>4. ended' \in Int /\ ended' # None /\ ended' + cooldown' = now + WindowSeconds(b)
  BY <1>1, <1>3, Numbers, NoneIsNoTime DEF GuardInv
<1>5. SeenIsOpen'
  BY <1>3 DEF SeenIsOpen
<1>6. ASSUME NEW c \in Cause
      PROVE  backoffUntil'[c] <= now + Ceiling /\ backoffUntil'[c] <= now + WindowSeconds(b)
  <2>1. CASE c = cause
    BY <2>1, <1>0, <1>1, <1>3, Numbers DEF GuardInv, TypeOK
  <2>2. CASE c # cause
    <3>1. backoffUntil'[c] = backoffUntil[c] BY <2>2, <1>3 DEF GuardInv, TypeOK
    <3>2. backoffUntil[c] <= now + Ceiling BY DEF GuardInv, DateCovers
    <3>3. ended # None => ended <= now BY <1>3 DEF GuardInv, SeenIsOpen
    <3>4. backoffUntil[c] <= now + cooldown
      BY <3>3, Numbers DEF GuardInv, DateCovers
    <3> QED BY <3>1, <3>2, <3>4, <1>1, <1>2, Numbers DEF GuardInv
  <2> QED BY <2>1, <2>2
<1>7. DateCovers'
  BY <1>3, <1>4, <1>6 DEF DateCovers
<1> QED
  BY <1>5, <1>7

LEMMA StepGuard ==
  ASSUME ~Stale, GuardInv, [Next]_vars, ~edited'
  PROVE  GuardInv'
<1>0. TypeOK' BY StepTypeOK DEF GuardInv
<1> SUFFICES SeenIsOpen' /\ DateCovers' BY <1>0 DEF GuardInv
<1> USE <1>0
<1>1. ASSUME NEW k \in Kind, Read(k) \/ Dial(k) \/ GiveUp(k)
      PROVE  SeenIsOpen' /\ DateCovers'
  <2>1. UNCHANGED <<now, row, ghosts>> /\ seen' \subseteq seen \cup {k}
    BY <1>1 DEF Read, Dial, GiveUp
  <2>2. DateCovers' BY <2>1 DEF GuardInv, DateCovers, row, ghosts
  <2>3. ASSUME Read(k) PROVE SeenIsOpen'
    BY <2>1, <2>3, Numbers DEF Read, Gate, CooldownIsReady, LineIsProtected, SeenIsOpen, GuardInv, row
  <2>4. ASSUME Dial(k) PROVE SeenIsOpen'
    BY <2>1, <2>4, Numbers DEF Dial, SeenIsOpen, GuardInv, row
  <2>5. ASSUME GiveUp(k) PROVE SeenIsOpen'
    BY <2>1, <2>5 DEF GiveUp, SeenIsOpen, GuardInv, row
  <2> QED BY <1>1, <2>2, <2>3, <2>4, <2>5
<1>2. ASSUME NEW healthy \in BOOLEAN, Ends(healthy) PROVE SeenIsOpen' /\ DateCovers'
  <2>1. /\ ended' = now /\ now' = now /\ cooldown' = cooldown /\ backoffUntil' = backoffUntil
        /\ seen' = {} /\ call' = None /\ call # None
    BY <1>2 DEF Ends, HangUp, GuardInv, TypeOK
  <2>2. SeenIsOpen' BY <2>1 DEF SeenIsOpen
  <2>3. ended # None => ended <= now BY <2>1 DEF GuardInv, SeenIsOpen
  <2>4. ASSUME NEW cause \in Cause PROVE backoffUntil[cause] <= now + cooldown
    BY <2>3, Numbers DEF GuardInv, DateCovers
  <2>5. DateCovers' BY <2>1, <2>4, Numbers, NoneIsNoTime DEF GuardInv, DateCovers
  <2> QED BY <2>2, <2>5
<1>3. ASSUME NEW wait \in Waits, RateLimited(wait) PROVE SeenIsOpen' /\ DateCovers'
  BY <1>3, Backoffs, HangUpForGuard DEF RateLimited
<1>4. CASE Stalls
  BY <1>4, Settings, HangUpForGuard DEF Stalls
<1>5. CASE InstantFailure
  BY <1>5, Settings, HangUpForGuard DEF InstantFailure
<1>6. ASSUME NEW x \in Cooldowns, SetCooldown(x) PROVE FALSE
  BY <1>6 DEF SetCooldown
<1>7. CASE ClearNumberCooldown
  BY <1>7, Numbers DEF ClearNumberCooldown, GuardInv, SeenIsOpen, DateCovers
<1>8. CASE ClearNumberQuarantine
  BY <1>8 DEF ClearNumberQuarantine, GuardInv, SeenIsOpen, DateCovers
<1>9. CASE Tick
  <2>1. now' = now + 1 /\ UNCHANGED <<row, seen, call, ghosts>> BY <1>9 DEF Tick, ghosts
  <2> QED BY <2>1, Numbers DEF GuardInv, SeenIsOpen, DateCovers, row, ghosts
<1>10. CASE UNCHANGED vars
  BY <1>10 DEF vars, row, ghosts, GuardInv, SeenIsOpen, DateCovers
<1> QED
  BY <1>1, <1>2, <1>3, <1>4, <1>5, <1>6, <1>7, <1>8, <1>9, <1>10 DEF Next

LEMMA InitGuard == Init => UneditedInv
BY InitTypeOK, Settings DEF Init, UneditedInv, GuardInv, SeenIsOpen, DateCovers

LEMMA EditedStays == edited /\ [Next]_vars => edited'
BY DEF Next, vars, row, Read, Dial, GiveUp, Ends, RateLimited, Stalls, InstantFailure, HangUpFor,
       HangUp, SetCooldown, ClearNumberCooldown, ClearNumberQuarantine, Tick

LEMMA StepUnedited == ASSUME ~Stale, UneditedInv, [Next]_vars PROVE UneditedInv'
BY StepTypeOK, StepGuard, EditedStays DEF UneditedInv

LEMMA DialIsLate ==
  ASSUME GuardInv, Dial("automatic"), NEW cause \in Cause
  PROVE  now >= backoffUntil[cause]
BY Numbers DEF GuardInv, SeenIsOpen, DateCovers, Dial

\* The dialer waits out every backoff, whatever manual calls do to the date in
\* between, as long as rows are fresh and the cooldown is left alone.
THEOREM Backoff ==
  ASSUME ~Stale
  PROVE  Spec => BackoffHeld
<1>1. Init => UneditedInv BY InitGuard
<1>2. UneditedInv /\ [Next]_vars => UneditedInv' BY StepUnedited
<1>3. UneditedInv /\ [Next]_vars =>
        [Dial("automatic") /\ ~edited => \A cause \in Cause : now >= backoffUntil[cause]]_vars
  BY DialIsLate DEF UneditedInv
<1> QED BY <1>1, <1>2, <1>3, PTL DEF Spec, BackoffHeld
-----------------------------------------------------------------------------
\* No cooldown is longer than the longest backoff.
ShortCooldowns == \A x \in Cooldowns : x <= Ceiling

\* The last call of the line ended no later than the column says.
EndCovered == hungUp # None => ended # None /\ hungUp <= ended

LEMMA StepCovered ==
  ASSUME ShortCooldowns, TypeOK, TypeOK', EndCovered, [Next]_vars
  PROVE  EndCovered'
<1> DEFINE late(b) == HangUp(now + WindowSeconds(b) - cooldown)
<1>1. ASSUME NEW b \in 0..Ceiling, late(b) PROVE EndCovered'
  <2>1. WindowSeconds(b) \in Nat /\ WindowSeconds(b) >= cooldown
    BY Windows DEF ShortCooldowns, TypeOK
  <2>2. hungUp' = now /\ ended' = now + WindowSeconds(b) - cooldown BY <1>1 DEF HangUp
  <2>3. ended' \in Int /\ ended' >= now BY <2>1, <2>2, Numbers
  <2> QED BY <2>2, <2>3, NoneIsNoTime DEF EndCovered
<1>2. ASSUME NEW k \in Kind, Read(k) \/ Dial(k) \/ GiveUp(k) PROVE EndCovered'
  BY <1>2 DEF Read, Dial, GiveUp, row, ghosts, EndCovered
<1>3. ASSUME NEW healthy \in BOOLEAN, Ends(healthy) PROVE EndCovered'
  BY <1>3, Numbers, NoneIsNoTime DEF Ends, HangUp, EndCovered
<1>4. ASSUME NEW wait \in Waits, RateLimited(wait) PROVE EndCovered'
  BY <1>1, <1>4, Backoffs DEF RateLimited, HangUpFor
<1>5. CASE Stalls
  BY <1>1, <1>5, Settings DEF Stalls, HangUpFor
<1>6. CASE InstantFailure
  BY <1>1, <1>6, Settings DEF InstantFailure, HangUpFor
<1>7. ASSUME NEW x \in Cooldowns, SetCooldown(x) PROVE EndCovered'
  BY <1>7 DEF SetCooldown, ghosts, EndCovered
<1>8. CASE ClearNumberCooldown
  BY <1>8 DEF ClearNumberCooldown, EndCovered
<1>9. CASE ClearNumberQuarantine
  BY <1>9 DEF ClearNumberQuarantine, EndCovered
<1>10. CASE Tick \/ UNCHANGED vars
  BY <1>10 DEF Tick, vars, row, ghosts, EndCovered
<1> HIDE DEF late
<1> QED
  BY <1>2, <1>3, <1>4, <1>5, <1>6, <1>7, <1>8, <1>9, <1>10 DEF Next

LEMMA DialIsCool ==
  ASSUME GuardInv, EndCovered, Dial("automatic"), hungUp # None
  PROVE  now >= hungUp + cooldown
BY Numbers DEF GuardInv, TypeOK, SeenIsOpen, EndCovered, Dial

\* The dialer leaves a line alone for its cooldown after any call, if no cooldown is
\* longer than the longest backoff.
THEOREM Cooldown ==
  ASSUME ShortCooldowns, ~Stale
  PROVE  Spec => CooldownKept
<1>1. Init => UneditedInv /\ EndCovered BY InitGuard DEF Init, EndCovered
<1>2. UneditedInv /\ EndCovered /\ [Next]_vars => UneditedInv' /\ EndCovered'
  BY StepUnedited, StepCovered DEF UneditedInv
<1>3. UneditedInv /\ EndCovered /\ [Next]_vars =>
        [Dial("automatic") /\ ~edited /\ hungUp # None => now >= hungUp + cooldown]_vars
  BY DialIsCool DEF UneditedInv
<1> QED BY <1>1, <1>2, <1>3, PTL DEF Spec, CooldownKept
-----------------------------------------------------------------------------
(* The quarantine                                                          *)

\* The remainder of what exceeds a multiple by less than the divisor.
LEMMA Remainder ==
  ASSUME NEW T \in Nat \ {0}, NEW q \in Nat, NEW f \in 0..(T - 1)
  PROVE  (T * q + f) % T = f
OBVIOUS

\* The counter of the line is what is left of the failures in a row; at 0 after
\* a failure the line is flagged; and whoever passed the gate saw no flag.
StrikesCounted == \E times \in Nat : strikes = Threshold * times + failures
FlagRemembers == strikes > 0 /\ failures = 0 => flaggedUntil = struckAt + Quarantine
SeenUnflagged == seen # {} => flaggedUntil <= now

QuarantineInv == TypeOK /\ StrikesCounted /\ FlagRemembers /\ SeenUnflagged

\* An end of a call that is no instant failure leaves the strikes or forgets them.
LEMMA OtherEnds ==
  ASSUME QuarantineInv, TypeOK', UNCHANGED <<now, flaggedUntil, struckAt>>, seen' \subseteq seen,
         \/ UNCHANGED <<failures, strikes>>
         \/ failures' = 0 /\ strikes' = 0
  PROVE  QuarantineInv'
<1>1. Threshold * 0 + 0 = 0
  BY Settings
<1>2. StrikesCounted' BY <1>1 DEF QuarantineInv, StrikesCounted
<1>3. FlagRemembers' BY DEF QuarantineInv, FlagRemembers, TypeOK
<1>4. SeenUnflagged' BY DEF QuarantineInv, SeenUnflagged
<1> QED BY <1>2, <1>3, <1>4 DEF QuarantineInv

LEMMA InstantFailureQuarantine ==
  ASSUME ~Stale, QuarantineInv, TypeOK', InstantFailure
  PROVE  QuarantineInv'
<1>1. /\ strikes' = strikes + 1 /\ struckAt' = now /\ now' = now /\ seen' = {}
      /\ failures' = IF failures + 1 >= Threshold THEN 0 ELSE failures + 1
      /\ failures + 1 >= Threshold => flaggedUntil' = now + Quarantine
  BY DEF InstantFailure, HangUpFor, HangUp, Flagged
<1>2. StrikesCounted'
  <2>1. PICK times \in Nat : strikes = Threshold * times + failures
    BY DEF QuarantineInv, StrikesCounted
  <2>2. CASE failures + 1 >= Threshold
    <3>1. failures + 1 = Threshold BY <2>2, Settings DEF QuarantineInv, TypeOK
    <3>2. Threshold * (times + 1) = Threshold * times + Threshold BY Settings
    <3>3. strikes' = Threshold * (times + 1) + failures'
      BY <1>1, <2>1, <2>2, <3>1, <3>2, Settings DEF QuarantineInv, TypeOK
    <3> QED BY <3>3 DEF StrikesCounted
  <2>3. CASE failures + 1 < Threshold
    <3>1. Threshold * times \in Nat BY Settings
    <3>2. strikes' = Threshold * times + failures'
      BY <1>1, <2>1, <2>3, <3>1, Settings DEF QuarantineInv, TypeOK
    <3> QED BY <3>2 DEF StrikesCounted
  <2> QED BY <2>2, <2>3, Settings DEF QuarantineInv, TypeOK
<1>3. FlagRemembers'
  BY <1>1 DEF QuarantineInv, TypeOK, FlagRemembers
<1> QED BY <1>1, <1>2, <1>3 DEF QuarantineInv, SeenUnflagged

LEMMA StepQuarantine ==
  ASSUME ~Stale, QuarantineInv, [Next]_vars
  PROVE  QuarantineInv'
<1>0. TypeOK /\ TypeOK' BY StepTypeOK DEF QuarantineInv
<1>1. ASSUME NEW k \in Kind, Read(k) PROVE QuarantineInv'
  BY <1>0, <1>1 DEF Read, Gate, row, ghosts, QuarantineInv, StrikesCounted, FlagRemembers, SeenUnflagged
<1>2. ASSUME NEW k \in Kind, Dial(k) \/ GiveUp(k) PROVE QuarantineInv'
  BY <1>0, <1>2, OtherEnds DEF Dial, GiveUp, row, ghosts
<1>3. ASSUME NEW healthy \in BOOLEAN, Ends(healthy) PROVE QuarantineInv'
  BY <1>0, <1>3, OtherEnds DEF Ends, HangUp
<1>4. ASSUME NEW wait \in Waits, RateLimited(wait) PROVE QuarantineInv'
  BY <1>0, <1>4, OtherEnds DEF RateLimited, HangUpFor, HangUp
<1>5. CASE Stalls
  BY <1>0, <1>5, OtherEnds DEF Stalls, HangUpFor, HangUp
<1>6. CASE InstantFailure
  BY <1>0, <1>6, InstantFailureQuarantine
<1>7. ASSUME NEW x \in Cooldowns, SetCooldown(x) PROVE QuarantineInv'
  BY <1>0, <1>7, OtherEnds DEF SetCooldown, ghosts
<1>8. CASE ClearNumberCooldown
  BY <1>0, <1>8, OtherEnds DEF ClearNumberCooldown
<1>9. CASE ClearNumberQuarantine
  <2>1. /\ flaggedUntil' = 0 /\ failures' = 0 /\ strikes' = 0 /\ now' = now
    BY <1>9 DEF ClearNumberQuarantine
  <2>2. Threshold * 0 + 0 = 0 BY Settings
  <2> QED BY <1>0, <2>1, <2>2
          DEF QuarantineInv, StrikesCounted, FlagRemembers, SeenUnflagged, TypeOK
<1>10. CASE Tick
  BY <1>0, <1>10 DEF Tick, row, ghosts, QuarantineInv, StrikesCounted, FlagRemembers,
                     SeenUnflagged, TypeOK
<1>11. CASE UNCHANGED vars
  BY <1>0, <1>11, OtherEnds DEF vars, row, ghosts
<1> QED
  BY <1>1, <1>2, <1>3, <1>4, <1>5, <1>6, <1>7, <1>8, <1>9, <1>10, <1>11 DEF Next

LEMMA InitQuarantine == Init => QuarantineInv
<1>1. Threshold * 0 + 0 = 0 BY Settings
<1> QED BY <1>1, InitTypeOK DEF Init, QuarantineInv, StrikesCounted, FlagRemembers, SeenUnflagged

\* Whenever Threshold instant failures in a row are full, no call of either kind is
\* placed for the length of the quarantine, if rows are fresh: an edit of the cooldown,
\* a manual call or the lifting of the cooldown never shortens it.
THEOREM QuarantineKept ==
  ASSUME ~Stale
  PROVE  Spec => QuarantineHeld
<1>1. QuarantineInv /\ [Next]_vars => QuarantineInv' BY StepQuarantine
<1>2. QuarantineInv /\ [Next]_vars =>
        [\A k \in Kind :
           Dial(k) /\ strikes > 0 /\ strikes % Threshold = 0 => now >= struckAt + Quarantine]_vars
  <2> SUFFICES ASSUME QuarantineInv, NEW k \in Kind, Dial(k), strikes > 0,
                      strikes % Threshold = 0
               PROVE  now >= struckAt + Quarantine
    OBVIOUS
  <2>1. PICK times \in Nat : strikes = Threshold * times + failures
    BY DEF QuarantineInv, StrikesCounted
  <2>2. failures = 0
    BY <2>1, Remainder, Settings DEF QuarantineInv, TypeOK
  <2> QED BY <2>2, Settings DEF QuarantineInv, FlagRemembers, SeenUnflagged, Dial, TypeOK
<1> QED BY <1>1, <1>2, InitQuarantine, PTL DEF Spec, QuarantineHeld
=============================================================================
