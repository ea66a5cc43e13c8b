------------------------- MODULE ReservationProofs -------------------------
(***************************************************************************)
(* Proofs about Reservation for any number of tokens, leads, SDRs, lines   *)
(* and for any limits, TTLs and clock skew: its type invariant, that       *)
(* running leases exclude each other, the gap between automatic calls, the *)
(* limits that are counted in sorted sets - calls at once, calls in a      *)
(* window of a line, calls per minute -, and that the Lua scripts          *)
(* implement LeasePool.                                                    *)
(***************************************************************************)
EXTENDS Reservation, FiniteSetTheorems, TLAPS

RequestNow == [lead : Lead, sdr : Sdr, line : Line, kind : Kind, at : {now}, skew : 0..MaxSkew]

USE Limits, NoneIsNoToken

-----------------------------------------------------------------------------
(* Type correctness                                                        *)

LEMMA InitTypeOK == Init => TypeOK
BY DEF Init, TypeOK, Granted, Request

\* Granting adds one well-formed request; every key still names granted tokens.
LEMMA GrantTypeOK ==
  ASSUME TypeOK, NEW t \in Token, NEW r \in RequestNow, Grant(t, r)
  PROVE  TypeOK'
<1>1. r \in Request
  BY DEF RequestNow, Request, TypeOK
<1>2. Granted' = Granted \cup {t} /\ req' \in [Granted' -> Request]
  BY <1>1 DEF Grant, Granted, TypeOK
<1>3. lock' \in [Resource -> Token \cup {None}]
  BY DEF Grant, TypeOK
<1>4. {tenantActive', lineActive', lineRate', minuteRate'} \subseteq SUBSET Granted'
  BY <1>2 DEF Grant, TypeOK, StillActive, StillOnLine, InWindow, InMinute, OnLine
<1>5. pacing' \in Nat /\ now' \in Nat
  BY DEF Grant, TypeOK, Gap
<1>6. released' \subseteq Granted' /\ Granted' \subseteq Token
  BY <1>2 DEF Grant, TypeOK
<1> QED BY <1>2, <1>3, <1>4, <1>5, <1>6 DEF TypeOK

LEMMA DenyTypeOK ==
  ASSUME TypeOK, NEW r \in RequestNow, Deny(r)
  PROVE  TypeOK'
BY DEF TypeOK, Deny, Granted, StillActive, StillOnLine, InWindow, InMinute, OnLine

LEMMA ReleaseTypeOK ==
  ASSUME TypeOK, NEW t \in Granted, Release(t)
  PROVE  TypeOK'
BY DEF TypeOK, Release, Granted

LEMMA TickTypeOK == TypeOK /\ Tick => TypeOK'
BY DEF TypeOK, Tick, Granted

LEMMA StutterTypeOK == TypeOK /\ UNCHANGED vars => TypeOK'
BY DEF TypeOK, vars, Granted

LEMMA StepTypeOK == TypeOK /\ [Next]_vars => TypeOK'
BY GrantTypeOK, DenyTypeOK, ReleaseTypeOK, TickTypeOK, StutterTypeOK DEF Next, RequestNow

\* Every key of the reservation always holds granted tokens and nothing else.
THEOREM TypeCorrect == Spec => []TypeOK
<1>1. Init => TypeOK BY InitTypeOK
<1>2. TypeOK /\ [Next]_vars => TypeOK' BY StepTypeOK
<1> QED BY <1>1, <1>2, PTL DEF Spec

-----------------------------------------------------------------------------
(* Leases exclude each other                                               *)

\* A resource of a running lease is locked: EXISTS answers 1 for it.
LEMMA LiveLocks ==
  ASSUME TypeOK, HeldWhileLive, NEW u \in Granted, Live(u), NEW x \in BundleOf(req[u])
  PROVE  lock[x] = u /\ Locked(x)
BY DEF TypeOK, HeldWhileLive, Live, Locked

\* What a granted request asks for was free of every running lease.
LEMMA GrantedWasFree ==
  ASSUME TypeOK, HeldWhileLive, NEW t \in Token, NEW r \in RequestNow, Grant(t, r),
         NEW u \in Granted, Live(u)
  PROVE  BundleOf(req[u]) \cap BundleOf(r) = {}
BY LiveLocks DEF Grant, Refused

\* Grant does not touch the other tokens.
LEMMA GrantKeepsOthers ==
  ASSUME TypeOK, NEW t \in Token, NEW r \in RequestNow, Grant(t, r)
  PROVE  /\ Granted' = Granted \cup {t}
         /\ req'[t] = r
         /\ \A u \in Granted : u # t /\ req'[u] = req[u] /\ (Live(u)' <=> Live(u))
BY DEF Grant, Granted, Live, Lapse, TypeOK

LEMMA GrantHeld ==
  ASSUME TypeOK, HeldWhileLive, NEW t \in Token, NEW r \in RequestNow, Grant(t, r)
  PROVE  HeldWhileLive'
<1> SUFFICES ASSUME NEW u \in Granted', Live(u)', NEW x \in BundleOf(req'[u])
             PROVE  lock'[x] = u
  BY DEF HeldWhileLive, BundleOf
<1>0. BundleOf(req'[u]) \subseteq Resource
  <2>1. req'[u] \in Request BY GrantTypeOK DEF TypeOK
  <2> QED BY <2>1 DEF BundleOf, Resource, Request
<1>1. CASE u = t
  BY <1>0, <1>1, GrantKeepsOthers DEF Grant
<1>2. CASE u # t
  <2>1. u \in Granted /\ Live(u) /\ req'[u] = req[u]
    BY <1>2, GrantKeepsOthers
  <2>2. lock[x] = u /\ x \notin BundleOf(r)
    BY <2>1, LiveLocks, GrantedWasFree
  <2> QED BY <1>0, <2>2 DEF Grant
<1> QED BY <1>1, <1>2

LEMMA ReleaseHeld ==
  ASSUME TypeOK, HeldWhileLive, NEW t \in Granted, Release(t)
  PROVE  HeldWhileLive'
<1> SUFFICES ASSUME NEW u \in Granted, Live(u)', NEW x \in BundleOf(req[u])
             PROVE  lock'[x] = u
  BY DEF HeldWhileLive, BundleOf, Release, Granted
<1>1. u # t /\ Live(u)
  BY DEF Release, Live, Lapse, Granted
<1>2. lock[x] = u
  BY <1>1, LiveLocks
<1>3. x \in Resource
  BY DEF TypeOK, Request, BundleOf, Resource
<1> QED BY <1>1, <1>2, <1>3 DEF Release

LEMMA TickHeld == TypeOK /\ HeldWhileLive /\ Tick => HeldWhileLive'
<1> SUFFICES ASSUME TypeOK, HeldWhileLive, Tick,
                    NEW u \in Granted, Live(u)', NEW x \in BundleOf(req[u])
             PROVE  lock[x] = u
  BY DEF HeldWhileLive, BundleOf, Tick, Granted
<1>1. Lapse(u) \in Nat
  BY DEF TypeOK, Lapse, Request, TTL
<1>2. Live(u)
  BY <1>1 DEF TypeOK, Live, Lapse, Tick, Granted
<1> QED BY <1>2, LiveLocks

LEMMA DenyHeld ==
  ASSUME HeldWhileLive, NEW r \in RequestNow, Deny(r)
  PROVE  HeldWhileLive'
BY DEF Deny, HeldWhileLive, Live, Lapse, Granted, BundleOf

LEMMA StutterHeld == HeldWhileLive /\ UNCHANGED vars => HeldWhileLive'
BY DEF vars, HeldWhileLive, Live, Lapse, Granted, BundleOf

LEMMA StepHeld == TypeOK /\ HeldWhileLive /\ [Next]_vars => HeldWhileLive'
BY GrantHeld, DenyHeld, ReleaseHeld, TickHeld, StutterHeld DEF Next, RequestNow

LEMMA InitHeld == Init => HeldWhileLive
BY DEF Init, HeldWhileLive, Granted

\* A call keeps its four locks until it releases them or they lapse, whatever
\* the other calls reserve, release late or release twice.
THEOREM LocksHeld == Spec => []HeldWhileLive
<1>1. Init => TypeOK /\ HeldWhileLive BY InitTypeOK, InitHeld
<1>2. TypeOK /\ HeldWhileLive /\ [Next]_vars => TypeOK' /\ HeldWhileLive'
  BY StepTypeOK, StepHeld
<1> QED BY <1>1, <1>2, PTL DEF Spec

\* One lock holds one token, so two running leases have nothing in common.
LEMMA HeldIsExclusive == TypeOK /\ HeldWhileLive => LeasesExclusive
BY DEF LeasesExclusive, HeldWhileLive

\* Two running leases never share a lead, an SDR, a line or a Waxum session.
THEOREM Exclusion == Spec => []LeasesExclusive
BY TypeCorrect, LocksHeld, HeldIsExclusive, PTL

-----------------------------------------------------------------------------
(* The gap between automatic calls                                         *)

\* What the pacing key remembers: it stays set for MinGap after the latest
\* automatic grant, and manual grants leave it alone.
PacingRemembers ==
  MinGap > 0 => \A t \in Granted : req[t].kind = "automatic" => req[t].at + MinGap <= pacing

GrantsPast == \A t \in Granted : req[t].at <= now

GapInv == TypeOK /\ PacingRemembers /\ GrantsPast /\ AutomaticGap

LEMMA GrantGap ==
  ASSUME GapInv, NEW t \in Token, NEW r \in RequestNow, Grant(t, r)
  PROVE  GapInv'
<1>1. /\ Granted' = Granted \cup {t} /\ t \notin Granted
      /\ req'[t] = r /\ \A u \in Granted : req'[u] = req[u]
      /\ now' = now /\ r.at = now
  BY DEF GapInv, Grant, Granted, TypeOK
<1>2. \A u \in Granted : req[u].at \in Nat /\ req[u].kind \in Kind
  BY DEF GapInv, TypeOK, Request
<1>3. TypeOK'
  BY GrantTypeOK DEF GapInv
<1>4. GrantsPast'
  BY <1>1 DEF GapInv, GrantsPast, TypeOK
<1>5. r.kind = "automatic" /\ MinGap > 0 => pacing <= now /\ pacing' = now + MinGap
  BY DEF Grant, Refused, Gap, GapInv, TypeOK
<1>6. r.kind # "automatic" => pacing' = pacing
  BY DEF Grant, Gap, RequestNow, Kind
<1>7. PacingRemembers'
  <2> SUFFICES ASSUME MinGap > 0, NEW u \in Granted', req'[u].kind = "automatic"
               PROVE  req'[u].at + MinGap <= pacing'
    BY DEF PacingRemembers
  <2>1. CASE u = t
    BY <2>1, <1>1, <1>5, <1>3 DEF GapInv, TypeOK
  <2>2. CASE u \in Granted
    <3>1. req[u].at + MinGap <= pacing
      BY <2>2, <1>1 DEF GapInv, PacingRemembers
    <3>2. pacing <= pacing'
      BY <1>5, <1>6, <1>3 DEF GapInv, TypeOK
    <3> QED BY <3>1, <3>2, <2>2, <1>1, <1>2, <1>3 DEF GapInv, TypeOK
  <2> QED BY <2>1, <2>2, <1>1
<1>8. AutomaticGap'
  <2> SUFFICES ASSUME NEW u \in Granted', NEW v \in Granted', u # v,
                      req'[u].kind = "automatic", req'[v].kind = "automatic",
                      req'[u].at <= req'[v].at
               PROVE  req'[v].at - req'[u].at >= MinGap
    BY DEF AutomaticGap
  <2>1. CASE u \in Granted /\ v \in Granted
    BY <2>1, <1>1 DEF GapInv, AutomaticGap
  <2>2. CASE v = t
    <3>1. u \in Granted /\ req'[u] = req[u]
      BY <2>2, <1>1
    <3>2. MinGap > 0 => req[u].at + MinGap <= pacing /\ pacing <= now
      BY <3>1, <2>2, <1>1, <1>5 DEF GapInv, PacingRemembers
    <3> QED BY <3>1, <3>2, <2>2, <1>1, <1>2 DEF GapInv, TypeOK, GrantsPast
  <2>3. CASE u = t /\ v \in Granted
    \* v was granted before: it cannot be later than u, so both are at "now".
    <3>1. MinGap > 0 => req[v].at + MinGap <= pacing /\ pacing <= now
      BY <2>3, <1>1, <1>5 DEF GapInv, PacingRemembers
    <3> QED BY <3>1, <2>3, <1>1, <1>2 DEF GapInv, TypeOK, GrantsPast
  <2> QED BY <2>1, <2>2, <2>3, <1>1
<1> QED BY <1>3, <1>4, <1>7, <1>8 DEF GapInv

LEMMA OthersGap ==
  ASSUME GapInv, TypeOK', req' = req, pacing' = pacing, now' \in {now, now + 1}
  PROVE  GapInv'
BY DEF GapInv, PacingRemembers, GrantsPast, AutomaticGap, TypeOK, Granted, Request

LEMMA StepGap == GapInv /\ [Next]_vars => GapInv'
<1> SUFFICES ASSUME GapInv, [Next]_vars PROVE GapInv'
  OBVIOUS
<1>0. TypeOK /\ TypeOK'
  BY StepTypeOK DEF GapInv
<1>1. ASSUME NEW r \in RequestNow, NEW t \in Token, Grant(t, r) PROVE GapInv'
  BY <1>1, GrantGap
<1>2. ASSUME NEW r \in RequestNow, Deny(r) PROVE GapInv'
  BY <1>0, <1>2, OthersGap DEF Deny
<1>3. ASSUME NEW t \in Granted, Release(t) PROVE GapInv'
  BY <1>0, <1>3, OthersGap DEF Release
<1>4. CASE Tick
  BY <1>0, <1>4, OthersGap DEF Tick
<1>5. CASE UNCHANGED vars
  BY <1>0, <1>5, OthersGap DEF vars
<1> QED BY <1>1, <1>2, <1>3, <1>4, <1>5 DEF Next, RequestNow

\* Automatic calls start at least MinGap apart, whatever clocks their callers
\* have: the pacing key lives on the clock of Redis alone.
THEOREM Paced == Spec => []AutomaticGap
<1>1. Init => GapInv
  BY InitTypeOK DEF Init, GapInv, PacingRemembers, GrantsPast, AutomaticGap, Granted
<1>2. GapInv => AutomaticGap BY DEF GapInv
<1> QED BY <1>1, <1>2, StepGap, PTL DEF Spec

-----------------------------------------------------------------------------
(* The limits that are counted                                             *)

\* A lease that is not in its last MaxSkew units, and a call that is inside
\* the window of its line, or inside the minute, by the slowest clock.
Counted == {t \in Granted : Live(t) /\ now + MaxSkew < Lapse(t)}
InLineWindow == {t \in Granted : now - req[t].at < Window - MaxSkew}
InLastMinute == {t \in Granted : now - req[t].at < Minute - MaxSkew}

\* What the sorted sets remember although the clocks of their callers differ:
\* no caller may prune what still counts for the slowest clock.
SetsRemember ==
  /\ IsFiniteSet(tenantActive) /\ IsFiniteSet(lineRate) /\ IsFiniteSet(minuteRate)
  /\ Counted \subseteq tenantActive
  /\ InLineWindow \subseteq lineRate
  /\ InLastMinute \subseteq minuteRate

CountInv == TypeOK /\ SetsRemember

\* Adding one element to a set with room for it keeps the limit.
LEMMA RoomForOne ==
  ASSUME NEW S, IsFiniteSet(S), NEW t, NEW T \in SUBSET (S \cup {t}), NEW n \in Nat,
         Cardinality(S) < n
  PROVE  IsFiniteSet(T) /\ Cardinality(T) <= n
<1>0. IsFiniteSet(S \cup {t})
      /\ Cardinality(S \cup {t}) = IF t \in S THEN Cardinality(S) ELSE Cardinality(S) + 1
  BY FS_AddElement
<1>1. IsFiniteSet(S \cup {t}) /\ Cardinality(S \cup {t}) <= Cardinality(S) + 1
  BY <1>0, FS_CardinalityType
<1>2. IsFiniteSet(T) /\ Cardinality(T) <= Cardinality(S \cup {t})
  BY <1>1, FS_Subset
<1> QED BY <1>1, <1>2, FS_CardinalityType

\* The dates of the calls are numbers, and a score is never below a lapse.
LEMMA Dates ==
  ASSUME TypeOK, NEW u \in Granted
  PROVE  /\ req[u].at \in Nat /\ req[u].skew \in 0..MaxSkew
         /\ Lapse(u) \in Nat /\ Score(u) \in Nat /\ Stamp(u) \in Nat
         /\ Lapse(u) <= Score(u) /\ req[u].at <= Stamp(u)
<1>1. req[u].at \in Nat /\ req[u].skew \in 0..MaxSkew
  BY DEF TypeOK, Request
<1>2. TTL(req[u].kind) \in Nat
  BY DEF TTL
<1> QED BY <1>1, <1>2 DEF Lapse, Score, Stamp

\* What a caller prunes no longer counts.
LEMMA PruningKeeps ==
  ASSUME CountInv, NEW r \in RequestNow
  PROVE  LET clock == now + r.skew
         IN  /\ Counted \subseteq StillActive(clock) /\ StillActive(clock) \subseteq tenantActive
             /\ InLineWindow \subseteq InWindow(r.line, clock)
             /\ InWindow(r.line, clock) \subseteq lineRate
             /\ InLastMinute \subseteq InMinute(clock) /\ InMinute(clock) \subseteq minuteRate
<1> DEFINE clock == now + r.skew
<1>1. now \in Nat /\ clock \in Nat /\ clock <= now + MaxSkew
  BY DEF CountInv, TypeOK, RequestNow
<1>2. ASSUME NEW u \in Counted PROVE u \in StillActive(clock)
  <2>1. u \in Granted /\ now + MaxSkew < Lapse(u) /\ u \in tenantActive
    BY DEF Counted, CountInv, SetsRemember
  <2> QED BY <2>1, <1>1, Dates DEF StillActive, CountInv
<1>3. ASSUME NEW u \in InLineWindow PROVE u \in InWindow(r.line, clock)
  <2>1. u \in Granted /\ now - req[u].at < Window - MaxSkew /\ u \in lineRate
    BY DEF InLineWindow, CountInv, SetsRemember
  <2>2. Stamp(u) > clock - Window
    BY <2>1, <1>1, Dates DEF CountInv
  <2> QED BY <2>1, <2>2, <1>1, Dates DEF InWindow, CountInv
<1>4. ASSUME NEW u \in InLastMinute PROVE u \in InMinute(clock)
  <2>1. u \in Granted /\ now - req[u].at < Minute - MaxSkew /\ u \in minuteRate
    BY DEF InLastMinute, CountInv, SetsRemember
  <2> QED BY <2>1, <1>1, Dates DEF InMinute, CountInv
<1> QED BY <1>2, <1>3, <1>4 DEF StillActive, InWindow, InMinute

\* A grant adds its call to each of the sets, and only that call.
LEMMA GrantCounts ==
  ASSUME CountInv, NEW t \in Token, NEW r \in RequestNow, Grant(t, r)
  PROVE  /\ Counted' \subseteq Counted \cup {t}
         /\ InLineWindow' \subseteq InLineWindow \cup {t}
         /\ InLastMinute' \subseteq InLastMinute \cup {t}
<1>1. now' = now /\ Granted' = Granted \cup {t}
  BY GrantKeepsOthers DEF Grant, CountInv
<1>2. \A u \in Granted : req'[u] = req[u] /\ (Live(u)' <=> Live(u)) /\ Lapse(u)' = Lapse(u)
  BY GrantKeepsOthers DEF CountInv, Lapse
<1> QED BY <1>1, <1>2 DEF Counted, InLineWindow, InLastMinute

LEMMA GrantRemembers ==
  ASSUME CountInv, NEW t \in Token, NEW r \in RequestNow, Grant(t, r)
  PROVE  SetsRemember'
<1> DEFINE clock == now + r.skew
<1>1. /\ tenantActive' = StillActive(clock) \cup {t}
      /\ lineRate' = InWindow(r.line, clock) \cup {t}
      /\ minuteRate' = InMinute(clock) \cup {t}
  BY DEF Grant
<1>2. IsFiniteSet(StillActive(clock)) /\ IsFiniteSet(InWindow(r.line, clock))
      /\ IsFiniteSet(InMinute(clock))
  BY PruningKeeps, FS_Subset DEF CountInv, SetsRemember
<1>3. IsFiniteSet(tenantActive') /\ IsFiniteSet(lineRate') /\ IsFiniteSet(minuteRate')
  BY <1>1, <1>2, FS_AddElement
<1> QED BY <1>1, <1>3, PruningKeeps, GrantCounts DEF SetsRemember

LEMMA DenyRemembers ==
  ASSUME CountInv, NEW r \in RequestNow, Deny(r)
  PROVE  SetsRemember' /\ Counted' = Counted
<1> DEFINE clock == now + r.skew
<1>1. /\ tenantActive' = StillActive(clock) /\ lineRate' = InWindow(r.line, clock)
      /\ minuteRate' \in {minuteRate, InMinute(clock)}
  BY DEF Deny
<1>2. Counted' = Counted /\ InLineWindow' = InLineWindow /\ InLastMinute' = InLastMinute
  BY DEF Deny, Counted, InLineWindow, InLastMinute, Live, Lapse, Granted
<1>3. IsFiniteSet(tenantActive') /\ IsFiniteSet(lineRate') /\ IsFiniteSet(minuteRate')
  BY <1>1, PruningKeeps, FS_Subset DEF CountInv, SetsRemember
<1> QED BY <1>1, <1>2, <1>3, PruningKeeps DEF SetsRemember, CountInv

LEMMA ReleaseRemembers ==
  ASSUME CountInv, NEW t \in Granted, Release(t)
  PROVE  SetsRemember' /\ Counted' \subseteq Counted
<1>1. Counted' \subseteq Counted \ {t}
  BY DEF Release, Counted, Live, Lapse, Granted
<1>2. InLineWindow' = InLineWindow /\ InLastMinute' = InLastMinute
  BY DEF Release, InLineWindow, InLastMinute, Granted
<1>3. IsFiniteSet(tenantActive')
  BY FS_RemoveElement DEF Release, CountInv, SetsRemember
<1> QED BY <1>1, <1>2, <1>3 DEF Release, CountInv, SetsRemember

LEMMA TickRemembers ==
  ASSUME CountInv, Tick
  PROVE  SetsRemember' /\ Counted' \subseteq Counted
<1>1. now \in Nat /\ now' = now + 1 /\ Granted' = Granted
  BY DEF CountInv, TypeOK, Tick, Granted
<1>2. \A u \in Granted : /\ Lapse(u)' = Lapse(u) /\ Lapse(u) \in Nat /\ req[u].at \in Nat
                         /\ Live(u)' => Live(u)
  BY <1>1, Dates DEF Tick, Lapse, Live, CountInv
<1>3. Counted' \subseteq Counted
  BY <1>1, <1>2 DEF Counted, Tick
<1>4. InLineWindow' \subseteq InLineWindow
  BY <1>1, <1>2 DEF InLineWindow, Tick
<1>5. InLastMinute' \subseteq InLastMinute
  BY <1>1, <1>2 DEF InLastMinute, Tick
<1> QED BY <1>3, <1>4, <1>5 DEF Tick, CountInv, SetsRemember

LEMMA StutterRemembers ==
  ASSUME CountInv, UNCHANGED vars
  PROVE  SetsRemember' /\ Counted' = Counted
BY DEF vars, CountInv, SetsRemember, Counted, InLineWindow, InLastMinute, Live, Lapse, Granted

LEMMA StepCount == CountInv /\ [Next]_vars => CountInv'
BY StepTypeOK, GrantRemembers, DenyRemembers, ReleaseRemembers, TickRemembers,
   StutterRemembers DEF Next, RequestNow, CountInv

LEMMA InitCount == Init => CountInv
<1> SUFFICES ASSUME Init PROVE CountInv
  OBVIOUS
<1>1. Granted = {}
  BY DEF Init, Granted
<1> QED BY <1>1, InitTypeOK, FS_EmptySet
        DEF Init, CountInv, SetsRemember, Counted, InLineWindow, InLastMinute

\* A grant is given only while the set it joins has room for it.
LEMMA GrantCapped ==
  ASSUME CountInv, NEW t \in Token, NEW r \in RequestNow, Grant(t, r)
  PROVE  Cardinality(Counted') <= GlobalMax
<1>1. Cardinality(StillActive(now + r.skew)) < GlobalMax
  <2>1. IsFiniteSet(StillActive(now + r.skew))
    BY PruningKeeps, FS_Subset DEF CountInv, SetsRemember
  <2> QED BY <2>1, FS_CardinalityType DEF Grant, Refused
<1>2. IsFiniteSet(StillActive(now + r.skew))
  BY PruningKeeps, FS_Subset DEF CountInv, SetsRemember
<1>3. Counted' \subseteq StillActive(now + r.skew) \cup {t}
  BY GrantCounts, PruningKeeps
<1> QED BY <1>1, <1>2, <1>3, RoomForOne

CapInv == CountInv /\ ConcurrencyCapped

LEMMA StepCapped == CapInv /\ [Next]_vars => CapInv'
<1> SUFFICES ASSUME CapInv, [Next]_vars
             PROVE  Cardinality(Counted') <= GlobalMax
  BY StepCount DEF CapInv, ConcurrencyCapped, Counted
<1>0. CountInv /\ Cardinality(Counted) <= GlobalMax
  BY DEF CapInv, ConcurrencyCapped, Counted
<1>1. IsFiniteSet(Counted)
  BY <1>0, FS_Subset DEF CountInv, SetsRemember
<1>2. ASSUME NEW r \in RequestNow, NEW t \in Token, Grant(t, r)
      PROVE  Cardinality(Counted') <= GlobalMax
  BY <1>0, <1>2, GrantCapped
<1>3. ASSUME Counted' \subseteq Counted PROVE Cardinality(Counted') <= GlobalMax
  BY <1>0, <1>1, <1>3, FS_Subset, FS_CardinalityType
<1> QED BY <1>0, <1>2, <1>3, DenyRemembers, ReleaseRemembers, TickRemembers, StutterRemembers
        DEF Next, RequestNow

\* The concurrency limit of the tenant holds for every lease that is not in its
\* last MaxSkew units, however the clocks of the processes differ.
THEOREM Capped == Spec => []ConcurrencyCapped
<1>1. Init => CapInv
  <2> SUFFICES ASSUME Init PROVE Cardinality(Counted) <= GlobalMax
    BY InitCount DEF CapInv, ConcurrencyCapped, Counted
  <2>1. Counted = {}
    BY DEF Init, Counted, Granted
  <2> QED BY <2>1, FS_EmptySet
<1>2. CapInv => ConcurrencyCapped
  BY DEF CapInv
<1> QED BY <1>1, <1>2, StepCapped, PTL DEF Spec

\* The calls of one line, and of the tenant, that the script counted before it
\* granted an automatic call.
LEMMA GrantVolume ==
  ASSUME CountInv, NEW t \in Token, NEW r \in RequestNow, Grant(t, r), r.kind = "automatic"
  PROVE  /\ Cardinality({u \in Granted' : /\ req'[u].line = r.line
                                          /\ now - req'[u].at < Window - MaxSkew}) <= MaxPerWindow
         /\ Cardinality({u \in Granted' : now - req'[u].at < Minute - MaxSkew}) <= MaxPerMinute
<1> DEFINE clock == now + r.skew
           ofLine == OnLine(InWindow(r.line, clock), r.line)
<1>1. now' = now /\ Granted' = Granted \cup {t} /\ \A u \in Granted : req'[u] = req[u]
  BY GrantKeepsOthers DEF Grant, CountInv
<1>2. IsFiniteSet(ofLine) /\ IsFiniteSet(InMinute(clock))
  <2>1. ofLine \subseteq lineRate
    BY PruningKeeps DEF OnLine
  <2> QED BY <2>1, PruningKeeps, FS_Subset DEF CountInv, SetsRemember
<1>3. Cardinality(ofLine) < MaxPerWindow
  BY <1>2, FS_CardinalityType DEF Grant, WindowFull, PerWindow
<1>4. Cardinality(InMinute(clock)) < MaxPerMinute
  BY <1>2, FS_CardinalityType DEF Grant, Refused, PerMinute
<1>5. {u \in Granted' : req'[u].line = r.line /\ now - req'[u].at < Window - MaxSkew}
        \subseteq ofLine \cup {t}
  BY <1>1, PruningKeeps DEF OnLine, InLineWindow
<1>6. {u \in Granted' : now - req'[u].at < Minute - MaxSkew} \subseteq InMinute(clock) \cup {t}
  BY <1>1, PruningKeeps DEF InLastMinute
<1> QED BY <1>2, <1>3, <1>4, <1>5, <1>6, RoomForOne

\* Only a grant adds a token.
LEMMA StepVolume ==
  ASSUME CountInv, [Next]_vars, NEW t \in Granted' \ Granted, req'[t].kind = "automatic"
  PROVE  /\ Cardinality({u \in Granted' : /\ req'[u].line = req'[t].line
                                          /\ now - req'[u].at < Window - MaxSkew}) <= MaxPerWindow
         /\ Cardinality({u \in Granted' : now - req'[u].at < Minute - MaxSkew}) <= MaxPerMinute
<1>1. PICK r \in RequestNow, v \in Token : Grant(v, r)
  BY DEF Next, Deny, Release, Tick, vars, Granted, RequestNow
<1>2. v = t /\ req'[t] = r
  BY <1>1, GrantKeepsOthers DEF CountInv
<1> QED BY <1>1, <1>2, GrantVolume

\* An automatic call is granted only to a line, and to a tenant, whose volume
\* in the window and in the minute it saw: manual and released calls count.
THEOREM VolumeCounted == Spec => VolumeSeen
<1>1. Spec => []CountInv
  BY InitCount, StepCount, PTL DEF Spec
<1>2. CountInv /\ [Next]_vars =>
        [\A t \in Granted' \ Granted : req'[t].kind = "automatic" =>
           Cardinality({u \in Granted' : /\ req'[u].line = req'[t].line
                                         /\ now - req'[u].at < Window - MaxSkew}) <= MaxPerWindow]_vars
  BY StepVolume
<1>3. CountInv /\ [Next]_vars =>
        [\A t \in Granted' \ Granted : req'[t].kind = "automatic" =>
           Cardinality({u \in Granted' : now - req'[u].at < Minute - MaxSkew}) <= MaxPerMinute]_vars
  BY StepVolume
<1> QED BY <1>1, <1>2, <1>3, PTL DEF Spec, VolumeSeen, LineVolumeSeen, MinuteVolumeSeen

-----------------------------------------------------------------------------
(* The scripts implement the pool                                          *)

PoolBundles == {BundleOf(r) : r \in [lead : Lead, sdr : Sdr, line : Line]}

LEMMA BundleIsPool == ASSUME NEW r \in RequestNow PROVE BundleOf(r) \in PoolBundles
<1> DEFINE q == [lead |-> r.lead, sdr |-> r.sdr, line |-> r.line]
<1>1. q \in [lead : Lead, sdr : Sdr, line : Line] BY DEF RequestNow
<1>2. BundleOf(q) = BundleOf(r) BY DEF BundleOf
<1> QED BY <1>1, <1>2 DEF PoolBundles

LEMMA GrantAcquires ==
  ASSUME TypeOK, HeldWhileLive, NEW t \in Token, NEW r \in RequestNow, Grant(t, r)
  PROVE  Pool!Next
<1>2. Claims[t] = {}
  BY DEF Claims, Live, Grant
<1>3. \A u \in Token : Claims[u] \cap BundleOf(r) = {}
  BY GrantedWasFree DEF Claims, Live
<1>4. Claims' = [Claims EXCEPT ![t] = BundleOf(r)]
  <2>1. \A u \in Token \ {t} : Claims'[u] = Claims[u]
    <3> TAKE u \in Token \ {t}
    <3>1. CASE u \in Granted
      BY <3>1, GrantKeepsOthers DEF Claims, BundleOf
    <3>2. CASE u \notin Granted
      BY <3>2, GrantKeepsOthers DEF Claims, Live
    <3> QED BY <3>1, <3>2
  <2>2. Claims'[t] = BundleOf(r)
    <3>1. Live(t)'
      <4>1. now < now + TTL(r.kind) BY DEF TTL, TypeOK
      <4>2. t \in Granted' /\ req'[t] = r
        BY GrantKeepsOthers
      <4>3. t \notin released' /\ now' = now /\ r.at = now
        BY DEF Grant, TypeOK
      <4>4. Lapse(t)' = now + TTL(r.kind)
        BY <4>2, <4>3 DEF Lapse, TTL
      <4> QED BY <4>1, <4>2, <4>3, <4>4 DEF Live
    <3> QED BY <3>1, GrantKeepsOthers DEF Claims, BundleOf
  <2> QED BY <2>1, <2>2 DEF Claims
<1>5. Pool!Acquire(t, BundleOf(r))
  BY <1>2, <1>3, <1>4 DEF Pool!Acquire
<1> QED BY <1>5, BundleIsPool DEF Pool!Next, PoolBundles

\* A step that grants nothing and moves no live lease elsewhere drops leases.
LEMMA OthersDrop ==
  ASSUME req' = req, \A u \in Granted : Live(u)' => Live(u)
  PROVE  Pool!Next
<1> DEFINE lost == {u \in Token : ~Live(u)'}
<1>1. Claims' = [u \in Token |-> IF u \in lost THEN {} ELSE Claims[u]]
  BY DEF Claims, BundleOf, Live, Granted
<1> QED BY <1>1 DEF Pool!Next, Pool!Drop

LEMMA StepPool == TypeOK /\ HeldWhileLive /\ [Next]_vars => [Pool!Next]_Claims
<1> SUFFICES ASSUME TypeOK, HeldWhileLive, [Next]_vars PROVE [Pool!Next]_Claims
  OBVIOUS
<1>1. ASSUME NEW r \in RequestNow, NEW t \in Token, Grant(t, r) PROVE Pool!Next
  BY <1>1, GrantAcquires
<1>2. ASSUME NEW r \in RequestNow, Deny(r) PROVE Pool!Next
  BY <1>2, OthersDrop DEF Deny, Live, Lapse, Granted
<1>3. ASSUME NEW t \in Granted, Release(t) PROVE Pool!Next
  BY <1>3, OthersDrop DEF Release, Live, Lapse, Granted
<1>4. CASE Tick
  <2>1. \A u \in Granted : Lapse(u) \in Nat
    BY DEF TypeOK, Lapse, Request, TTL
  <2> QED BY <1>4, <2>1, OthersDrop DEF Tick, TypeOK, Live, Lapse, Granted
<1>5. CASE UNCHANGED vars
  BY <1>5 DEF vars, Claims, Live, Lapse, Granted, BundleOf
<1> QED BY <1>1, <1>2, <1>3, <1>4, <1>5 DEF Next, RequestNow

\* The Lua scripts implement the abstract pool: a call gets its lead, SDR, line
\* and session together while nobody holds any of them, and loses them together.
THEOREM Implements == Spec => PoolSpec
<1>1. Init => Pool!Init
  BY DEF Init, Pool!Init, Claims, Live, Granted
<1>2. Spec => [](TypeOK /\ HeldWhileLive)
  BY TypeCorrect, LocksHeld, PTL
<1>3. Spec => [][Pool!Next]_Claims
  BY <1>2, StepPool, PTL DEF Spec
<1> QED BY <1>1, <1>3, PTL DEF PoolSpec, Spec, Pool!Spec
=============================================================================
