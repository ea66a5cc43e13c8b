---------------------------- MODULE Reservation ----------------------------
(***************************************************************************)
(* The Redis side of a call reservation: the Lua scripts of RedisService   *)
(* (reserve, release) over the keys of one tenant.  Each script runs       *)
(* atomically, so it is one action.  Two clocks meet here.  The locks and  *)
(* the pacing key are SET ... PX and expire on the clock of Redis, "now".  *)
(* The sorted sets are scored and pruned with the Date.now() of the API    *)
(* process that calls, which may run ahead of Redis by up to MaxSkew, by   *)
(* a different amount in every call.                                       *)
(*                                                                         *)
(* Operators marked "wrong on purpose" are used by no action: each is the  *)
(* slip that one of the properties below is there to catch.                *)
(***************************************************************************)
EXTENDS Integers, FiniteSets

CONSTANTS
  Token,            \* randomUUID() of each reservation attempt, never reused
  Lead, Sdr, Line,  \* the tenant's leads, operators and WhatsApp lines
  SessionOf,        \* numberSessionId: the Waxum session of a line
  GlobalMax,        \* global_max_concurrent_calls
  LineMax,          \* max_concurrent_calls of a line
  MaxPerWindow,     \* max_calls_per_window of a line
  Window,           \* call_window_seconds
  MaxPerMinute,     \* max_calls_per_minute of the tenant
  Minute,           \* the 60 000 ms of the script
  MinGap,           \* min_seconds_between_calls
  AutoTTL,          \* ring_timeout_seconds + 60
  ManualTTL,        \* MANUAL_RING_SAFETY_SECONDS + 60
  MaxSkew,          \* how far an API clock may run ahead of Redis
  MaxTime,          \* bound: the clock of Redis stops here
  None              \* no token

Kind == {"automatic", "manual"}
Resource == ({"lead"} \X Lead) \cup ({"sdr"} \X Sdr) \cup ({"number"} \X Line)
              \cup ({"session"} \X {SessionOf[n] : n \in Line})

ASSUME Limits == /\ {GlobalMax, LineMax, MaxPerWindow, MaxPerMinute} \subseteq Nat \ {0}
                 /\ {Window, Minute, AutoTTL, ManualTTL} \subseteq Nat \ {0}
                 /\ {MinGap, MaxSkew, MaxTime} \subseteq Nat
ASSUME NoneIsNoToken == None \notin Token

VARIABLES
  now,           \* the clock of Redis
  req,           \* req[t], for every token granted so far: what it reserved, and when
  released,      \* the granted tokens whose caller has called release()
  lock,          \* the lock:lead, lock:sdr, lock:number and lock:session keys
  tenantActive,  \* active:global, the tokens in the tenant's sorted set
  lineActive,    \* active:number:*, all lines together (a token has one line)
  lineRate,      \* rate:number:*, all lines together
  minuteRate,    \* rate:minute
  pacing         \* when lock:dialer-pacing expires

vars == <<now, req, released, lock, tenantActive, lineActive, lineRate, minuteRate, pacing>>

Request == [lead : Lead, sdr : Sdr, line : Line, kind : Kind, at : Nat, skew : 0..MaxSkew]
Granted == DOMAIN req

TTL(k) == IF k = "manual" THEN ManualTTL ELSE AutoTTL
Stamp(t) == req[t].at + req[t].skew          \* its score in the rate sets
Score(t) == Stamp(t) + TTL(req[t].kind)      \* its score in the active sets
Lapse(t) == req[t].at + TTL(req[t].kind)     \* when its four locks expire

BundleOf(r) == {<<"lead", r.lead>>, <<"sdr", r.sdr>>, <<"number", r.line>>,
                <<"session", SessionOf[r.line]>>}

\* EXISTS on a key set with PX: it holds a token whose time has not run out.
Locked(x) == lock[x] # None /\ now < Lapse(lock[x])

TypeOK ==
  /\ now \in Nat
  /\ Granted \subseteq Token
  /\ req \in [Granted -> Request]
  /\ released \subseteq Granted
  /\ lock \in [Resource -> Token \cup {None}]
  /\ {tenantActive, lineActive, lineRate, minuteRate} \subseteq SUBSET Granted
  /\ pacing \in Nat

Init ==
  /\ now = 0
  /\ req = [t \in {} |-> None]
  /\ released = {}
  /\ lock = [x \in Resource |-> None]
  /\ tenantActive = {} /\ lineActive = {} /\ lineRate = {} /\ minuteRate = {}
  /\ pacing = 0

-----------------------------------------------------------------------------
(* The pacing a caller asks for: manualPacingConfig lifts every limit.     *)
Unpaced == 1000000
PerWindow(k) == IF k = "manual" THEN Unpaced ELSE MaxPerWindow
PerMinute(k) == IF k = "manual" THEN Unpaced ELSE MaxPerMinute
Gap(k) == IF k = "manual" THEN 0 ELSE MinGap

\* ZREMRANGEBYSCORE with the caller's clock.  The key of one line is pruned
\* only by the calls on that line.
OnLine(tokens, n) == {t \in tokens : req[t].line = n}
StillActive(clock) == {t \in tenantActive : Score(t) > clock}
StillOnLine(n, clock) == lineActive \ {t \in OnLine(lineActive, n) : Score(t) <= clock}
InWindow(n, clock) == lineRate \ {t \in OnLine(lineRate, n) : Stamp(t) <= clock - Window}
InMinute(clock) == {t \in minuteRate : Stamp(t) > clock - Minute}

WindowFull(n, k, clock) == Cardinality(OnLine(InWindow(n, clock), n)) >= PerWindow(k)

RefusedUnlocked(r, clock) ==   \* wrong on purpose: no look at the locks
  \/ Cardinality(InMinute(clock)) >= PerMinute(r.kind)
  \/ Gap(r.kind) > 0 /\ now < pacing
  \/ Cardinality(StillActive(clock)) >= GlobalMax

RefusedIfAllLocked(r, clock) ==   \* wrong on purpose: only when all are taken
  \/ RefusedUnlocked(r, clock)
  \/ \A x \in BundleOf(r) : Locked(x)

RefusedOneLate(r, clock) ==   \* wrong on purpose: one call too many
  \/ Cardinality(StillActive(clock)) > GlobalMax
  \/ \E x \in BundleOf(r) : Locked(x)

RefusedUnpaced(r, clock) ==   \* wrong on purpose: no gap between calls
  \/ Cardinality(StillActive(clock)) >= GlobalMax
  \/ \E x \in BundleOf(r) : Locked(x)

\* The conditions of the script in its order, after the line's window.
Refused(r, clock) ==
  \/ Cardinality(InMinute(clock)) >= PerMinute(r.kind)
  \/ Gap(r.kind) > 0 /\ now < pacing
  \/ Cardinality(StillActive(clock)) >= GlobalMax
  \/ Cardinality(OnLine(StillOnLine(r.line, clock), r.line)) >= LineMax
  \/ \E x \in BundleOf(r) : Locked(x)

GrantUnrecorded(t, r) ==   \* wrong on purpose: a token nobody recorded
  /\ t \notin Granted /\ r.at = now /\ ~Refused(r, now + r.skew)
  /\ tenantActive' = tenantActive \cup {t}
  /\ UNCHANGED <<now, req, released, lock, lineActive, lineRate, minuteRate, pacing>>

\* reserve() returned true: every key is written in the same script.
Grant(t, r) ==
  LET clock == now + r.skew
  IN /\ t \notin Granted
     /\ r.at = now
     /\ ~WindowFull(r.line, r.kind, clock)
     /\ ~Refused(r, clock)
     /\ req' = [u \in Granted \cup {t} |-> IF u = t THEN r ELSE req[u]]
     /\ lock' = [x \in Resource |-> IF x \in BundleOf(r) THEN t ELSE lock[x]]
     /\ tenantActive' = StillActive(clock) \cup {t}
     /\ lineActive' = StillOnLine(r.line, clock) \cup {t}
     /\ lineRate' = InWindow(r.line, clock) \cup {t}
     /\ minuteRate' = InMinute(clock) \cup {t}
     /\ pacing' = IF Gap(r.kind) > 0 THEN now + Gap(r.kind) ELSE pacing
     /\ UNCHANGED <<now, released>>

\* reserve() returned false: only the pruning done before the refusal stays.
Deny(r) ==
  LET clock == now + r.skew
      full == WindowFull(r.line, r.kind, clock)
  IN /\ r.at = now
     /\ full \/ Refused(r, clock)
     /\ tenantActive' = StillActive(clock)
     /\ lineActive' = StillOnLine(r.line, clock)
     /\ lineRate' = InWindow(r.line, clock)
     /\ minuteRate' = IF full THEN minuteRate ELSE InMinute(clock)
     /\ UNCHANGED <<now, req, released, lock, pacing>>

ReleaseAny(t) ==   \* wrong on purpose: compares no token
  /\ t \in Granted
  /\ released' = released \cup {t}
  /\ tenantActive' = tenantActive \ {t} /\ lineActive' = lineActive \ {t}
  /\ lock' = [x \in Resource |-> IF x \in BundleOf(req[t]) THEN None ELSE lock[x]]
  /\ UNCHANGED <<now, req, lineRate, minuteRate, pacing>>

ReleaseForgets(t) ==   \* wrong on purpose: the rates forget the call
  /\ t \in Granted
  /\ released' = released \cup {t}
  /\ tenantActive' = tenantActive \ {t} /\ lineActive' = lineActive \ {t}
  /\ lineRate' = lineRate \ {t} /\ minuteRate' = minuteRate \ {t}
  /\ lock' = [x \in Resource |->
                IF x \in BundleOf(req[t]) /\ lock[x] = t THEN None ELSE lock[x]]
  /\ UNCHANGED <<now, req, pacing>>

\* release(): by the call that holds the token, however late and however often.
\* The rate sets keep the call: a released call still counts for the pacing.
Release(t) ==
  /\ t \in Granted
  /\ released' = released \cup {t}
  /\ tenantActive' = tenantActive \ {t}
  /\ lineActive' = lineActive \ {t}
  /\ lock' = [x \in Resource |->
                IF x \in BundleOf(req[t]) /\ lock[x] = t THEN None ELSE lock[x]]
  /\ UNCHANGED <<now, req, lineRate, minuteRate, pacing>>

Tick ==
  /\ now < MaxTime
  /\ now' = now + 1
  /\ UNCHANGED <<req, released, lock, tenantActive, lineActive, lineRate, minuteRate, pacing>>

Next ==
  \/ \E r \in [lead : Lead, sdr : Sdr, line : Line, kind : Kind, at : {now}, skew : 0..MaxSkew] :
       (\E t \in Token : Grant(t, r)) \/ Deny(r)
  \/ \E t \in Granted : Release(t)
  \/ Tick

Spec == Init /\ [][Next]_vars
-----------------------------------------------------------------------------
\* A lease runs from its grant to its release or, if that is sooner, to its TTL.
Live(t) == t \in Granted /\ t \notin released /\ now < Lapse(t)

\* A call keeps every one of its four locks for as long as its lease runs: a
\* late or repeated release() of another call never frees them (the token
\* comparison of releaseScript) and no reservation overwrites them.
HeldWhileLive ==
  \A t \in Granted : Live(t) => \A x \in BundleOf(req[t]) : lock[x] = t

\* Two running leases never share a lead, an SDR, a line or a session.
LeasesExclusive ==
  \A t, u \in Granted :
    t # u /\ Live(t) /\ Live(u) => BundleOf(req[t]) \cap BundleOf(req[u]) = {}

\* The tenant's concurrency limit counts every lease that still runs, except in
\* its last MaxSkew units, when a caller whose clock is ahead may prune it early.
ConcurrencyCapped ==
  Cardinality({t \in Granted : Live(t) /\ now + MaxSkew < Lapse(t)}) <= GlobalMax

\* When an automatic call is granted its line has had at most MaxPerWindow calls
\* in the window, counting the manual and the already released ones: the reason
\* manualPacingConfig still records the calls that it does not limit.
LineVolumeSeen ==
  [][\A t \in Granted' \ Granted : req'[t].kind = "automatic" =>
       Cardinality({u \in Granted' : /\ req'[u].line = req'[t].line
                                     /\ now - req'[u].at < Window - MaxSkew}) <= MaxPerWindow]_vars

\* The same for the calls per minute of the whole tenant.
MinuteVolumeSeen ==
  [][\A t \in Granted' \ Granted : req'[t].kind = "automatic" =>
       Cardinality({u \in Granted' : now - req'[u].at < Minute - MaxSkew}) <= MaxPerMinute]_vars

\* Automatic calls start at least MinGap apart, whatever the clocks of the callers.
AutomaticGap ==
  \A t, u \in Granted :
    /\ t # u
    /\ req[t].kind = "automatic" /\ req[u].kind = "automatic"
    /\ req[t].at <= req[u].at
    => req[u].at - req[t].at >= MinGap

\* The locks implement the abstract pool of leases.
Claims == [t \in Token |-> IF Live(t) THEN BundleOf(req[t]) ELSE {}]
Pool == INSTANCE LeasePool WITH
          claims <- Claims,
          Bundles <- {BundleOf(r) : r \in [lead : Lead, sdr : Sdr, line : Line]}
PoolSpec == Pool!Spec

\* The two windows, of the line and of the tenant.
VolumeSeen == LineVolumeSeen /\ MinuteVolumeSeen
=============================================================================
