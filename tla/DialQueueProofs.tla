--------------------------- MODULE DialQueueProofs ---------------------------
(***************************************************************************)
(* What is proved of the queue of the dialer, for any number of leads,     *)
(* folders, processes, rounds and turns: the types, and that a lead is in  *)
(* the hands of one SDR and was dialed in a round that has been opened.    *)
(***************************************************************************)
EXTENDS DialQueue, FiniteSetTheorems, SequenceTheorems, TLAPS

LeadRows == [status : {"queued", "retry_wait", "busy", "closed"}, attempts : 0..MaxTurns,
             due : BOOLEAN, round : Nat]
Ticks == [at : {"idle", "tries", "rounds"}, round : Nat, rotation : 0..Len(FolderOrder),
          folders : 0..Len(FolderOrder), leads : Seq(QueueLeads)]

QueueTypes ==
    /\ leadOf \in [QueueLeads -> LeadRows]
    /\ waitLine \in Seq(QueueLeads) /\ Range(waitLine) = QueueLeads /\ Len(waitLine) = Len(QueueLine)
    /\ folderOn \subseteq DialFolders /\ heldBack \subseteq QueueLeads
    /\ dialerOn \in BOOLEAN /\ dialRound \in Nat /\ rotation \in 0..Len(FolderOrder)
    /\ ticking \in [Dialers -> Ticks] /\ onCall \in [Dialers -> QueueLeads \union {NoLead}]

(* A tick began in a round that is open, and only has leads to dial while  *)
(* its SDR is free.                                                        *)
TicksInTime ==
    \A p \in Dialers : /\ ticking[p].round <= dialRound
                       /\ ticking[p].leads # <<>> => onCall[p] = NoLead

QueueIInv == QueueTypes /\ QueueKept /\ TicksInTime

-----------------------------------------------------------------------------
\* There are no more active folders than folders.
LEMMA FewFolders ==
  ASSUME NEW S \in SUBSET DialFolders
  PROVE  Cardinality(S) \in 0..Len(FolderOrder) /\ Len(FolderOrder) \in Nat
<1>1. FolderOrder \in Seq(DialFolders) /\ Len(FolderOrder) \in Nat
  BY DialQueueConstants
<1>2. IsFiniteSet(1..Len(FolderOrder)) /\ Cardinality(1..Len(FolderOrder)) = Len(FolderOrder)
  BY <1>1, FS_Interval
<1> DEFINE f == [i \in 1..Len(FolderOrder) |-> FolderOrder[i]]
<1>3. DialFolders = {f[i] : i \in 1..Len(FolderOrder)}
  BY <1>1 DEF DialFolders, Range
<1>4. IsFiniteSet(DialFolders) /\ Cardinality(DialFolders) <= Len(FolderOrder)
  <2>1. f \in [1..Len(FolderOrder) -> DialFolders] BY <1>3
  <2>2. f \in Surjection(1..Len(FolderOrder), DialFolders) BY <1>3, <2>1 DEF Surjection
  <2> HIDE DEF f
  <2> QED BY <1>2, <2>2, FS_Surjection
<1>5. IsFiniteSet(S) /\ Cardinality(S) <= Cardinality(DialFolders) BY <1>4, FS_Subset
<1>6. Cardinality(S) \in Nat /\ Cardinality(DialFolders) \in Nat
  BY <1>4, <1>5, FS_CardinalityType
<1> QED BY <1>1, <1>4, <1>5, <1>6

LEMMA TurnsAround ==
  ASSUME NEW n \in 0..Len(FolderOrder), n > 0, NEW m \in 0..Len(FolderOrder)
  PROVE  (m + 1) % n \in 0..Len(FolderOrder)
<1>1. Len(FolderOrder) \in Nat BY DialQueueConstants
<1>2. (m + 1) % n \in 0..(n - 1) BY <1>1
<1> QED BY <1>1, <1>2

\* Whoever goes behind the others: the line has the same leads, as many as before.
LEMMA GoesBehind ==
  ASSUME NEW L, NEW s \in Seq(L), NEW i \in DOMAIN s, NEW t, t = Append(RemoveAt(s, i), s[i])
  PROVE  t \in Seq(L) /\ Range(t) = Range(s) /\ Len(t) = Len(s)
<1>1. Len(s) \in Nat /\ i \in 1..Len(s) /\ DOMAIN s = 1..Len(s) OBVIOUS
<1> DEFINE a == SubSeq(s, 1, i - 1)
           b == SubSeq(s, i + 1, Len(s))
<1>2. RemoveAt(s, i) = a \o b BY DEF RemoveAt
<1>3. a \in Seq(L) /\ Len(a) = i - 1 /\ \A j \in 1..i - 1 : a[j] = s[j] BY <1>1
<1>4. b \in Seq(L) /\ Len(b) = Len(s) - i /\ \A j \in 1..Len(s) - i : b[j] = s[j + i] BY <1>1
<1> HIDE DEF a, b
<1>5. /\ a \o b \in Seq(L) /\ Len(a \o b) = Len(s) - 1
      /\ \A j \in 1..Len(s) - 1 : (a \o b)[j] = IF j < i THEN s[j] ELSE s[j + 1]
  <2>1. /\ a \o b \in Seq(L) /\ Len(a \o b) = Len(a) + Len(b)
        /\ \A j \in 1..Len(a) + Len(b) : (a \o b)[j] = IF j <= Len(a) THEN a[j] ELSE b[j - Len(a)]
    BY <1>3, <1>4, ConcatProperties
  <2>2. Len(a) + Len(b) = Len(s) - 1 BY <1>1, <1>3, <1>4
  <2>3. ASSUME NEW j \in 1..Len(s) - 1 PROVE (a \o b)[j] = IF j < i THEN s[j] ELSE s[j + 1]
    <3>1. CASE j < i
      <4>1. j \in 1..i - 1 /\ j <= Len(a) BY <1>1, <1>3, <3>1
      <4> QED BY <1>3, <2>1, <2>2, <3>1, <4>1
    <3>2. CASE ~(j < i)
      <4>1. ~(j <= Len(a)) /\ j - Len(a) \in 1..Len(s) - i /\ j - Len(a) + i = j + 1
        BY <1>1, <1>3, <3>2
      <4>2. (a \o b)[j] = b[j - Len(a)] BY <2>1, <2>2, <4>1
      <4>3. b[j - Len(a)] = s[j - Len(a) + i] BY <1>4, <4>1
      <4> QED BY <3>2, <4>1, <4>2, <4>3
    <3> QED BY <3>1, <3>2
  <2> QED BY <2>1, <2>2, <2>3
<1>6. /\ t \in Seq(L) /\ Len(t) = Len(s) /\ t[Len(s)] = s[i]
      /\ \A j \in 1..Len(s) - 1 : t[j] = IF j < i THEN s[j] ELSE s[j + 1]
  <2> DEFINE u == a \o b
  <2>1. s[i] \in L BY <1>1
  <2>2. t = Append(u, s[i]) BY <1>2
  <2>3. u \in Seq(L) /\ Len(u) = Len(s) - 1 BY <1>5
  <2>4. \A j \in 1..Len(s) - 1 : u[j] = IF j < i THEN s[j] ELSE s[j + 1] BY <1>5
  <2> HIDE DEF u
  <2>5. /\ t \in Seq(L) /\ Len(t) = Len(u) + 1 /\ t[Len(u) + 1] = s[i]
        /\ \A j \in 1..Len(u) : t[j] = u[j]
    BY <2>1, <2>2, <2>3, AppendProperties
  <2>6. Len(u) + 1 = Len(s) BY <1>1, <2>3
  <2> QED BY <2>3, <2>4, <2>5, <2>6
<1>7. Range(t) = Range(s)
  <2>1. \A j \in 1..Len(s) : \E k \in 1..Len(s) : t[j] = s[k] BY <1>1, <1>6
  <2>2. \A k \in 1..Len(s) : \E j \in 1..Len(s) : t[j] = s[k]
    <3> SUFFICES ASSUME NEW k \in 1..Len(s) PROVE \E j \in 1..Len(s) : t[j] = s[k] OBVIOUS
    <3>1. CASE k < i
      <4>1. k \in 1..Len(s) - 1 BY <1>1, <3>1
      <4> QED BY <1>6, <3>1, <4>1
    <3>2. CASE k = i
      <4>1. Len(s) \in 1..Len(s) BY <1>1
      <4> QED BY <1>6, <3>2, <4>1
    <3>3. CASE k > i
      <4>1. k - 1 \in 1..Len(s) - 1 /\ ~(k - 1 < i) /\ k - 1 + 1 = k BY <1>1, <3>3
      <4>2. t[k - 1] = s[k] /\ k - 1 \in 1..Len(s) BY <1>1, <1>6, <4>1
      <4> QED BY <4>2
    <3>4. k \in Int /\ i \in Int BY <1>1
    <3>5. k < i \/ k = i \/ k > i BY <3>4
    <3> QED BY <3>1, <3>2, <3>3, <3>5
  <2>3. DOMAIN t = 1..Len(s) BY <1>6, LenProperties
  <2>4. DOMAIN s = 1..Len(s) BY <1>1
  <2>5. Range(t) = {t[j] : j \in 1..Len(s)} /\ Range(s) = {s[k] : k \in 1..Len(s)}
    BY <2>3, <2>4 DEF Range
  <2> QED BY <2>1, <2>2, <2>5
<1> QED BY <1>6, <1>7

LEMMA InitQueue == QueueInit => QueueIInv
<1> SUFFICES ASSUME QueueInit PROVE QueueIInv
  OBVIOUS
<1>1. Len(FolderOrder) \in Nat /\ Len(QueueLine) \in Nat BY DialQueueConstants
<1>2. NoTick \in Ticks /\ NoTick.round = 0 /\ NoTick.leads = <<>>
  <2>1. <<>> \in Seq(QueueLeads) OBVIOUS
  <2> QED BY <1>1, <2>1 DEF NoTick, Ticks
<1>3. [status |-> "queued", attempts |-> 0, due |-> TRUE, round |-> 0] \in LeadRows
  BY DialQueueConstants DEF LeadRows
<1>4. QueueTypes
  BY <1>1, <1>2, <1>3, DialQueueConstants DEF QueueInit, QueueTypes, QueueLeads
<1>5. \A p \in Dialers : onCall[p] = NoLead /\ ticking[p] = NoTick BY DEF QueueInit
<1>6. \A l \in QueueLeads : /\ l # NoLead /\ leadOf[l].status = "queued"
                            /\ leadOf[l].round <= dialRound
  BY DialQueueConstants DEF QueueInit
<1>7. QueueKept BY <1>5, <1>6 DEF QueueKept
<1>8. TicksInTime BY <1>2, <1>5 DEF TicksInTime, QueueInit
<1> QED BY <1>4, <1>7, <1>8 DEF QueueIInv

\* One process goes on with its tick.
LEMMA TickGoesOn ==
  ASSUME QueueIInv, NEW p \in Dialers, NEW t \in Ticks, ticking' = [ticking EXCEPT ![p] = t],
         dialRound' \in Nat, dialRound <= dialRound', t.round <= dialRound',
         t.leads # <<>> => onCall'[p] = NoLead,
         \A q \in Dialers \ {p} : onCall'[q] = onCall[q]
  PROVE  ticking' \in [Dialers -> Ticks] /\ TicksInTime'
<1>1. /\ ticking' \in [Dialers -> Ticks] /\ ticking'[p] = t
      /\ \A q \in Dialers \ {p} : ticking'[q] = ticking[q]
  BY DEF QueueIInv, QueueTypes
<1>2. ASSUME NEW q \in Dialers
      PROVE  /\ ticking'[q].round <= dialRound'
             /\ ticking'[q].leads # <<>> => onCall'[q] = NoLead
  <2>1. CASE q = p BY <1>1, <2>1
  <2>2. CASE q # p
    <3>1. ticking[q] \in Ticks /\ ticking[q].round <= dialRound /\ ticking'[q] = ticking[q]
      BY <1>1, <2>2 DEF QueueIInv, QueueTypes, TicksInTime
    <3>2. ticking[q].round \in Nat /\ dialRound \in Nat
      BY <3>1 DEF QueueIInv, QueueTypes, Ticks
    <3>3. ticking[q].leads # <<>> => onCall[q] = NoLead BY DEF QueueIInv, TicksInTime
    <3> QED BY <2>2, <3>1, <3>2, <3>3
  <2> QED BY <2>1, <2>2
<1> QED BY <1>1, <1>2 DEF TicksInTime

\* The leads and who is on the phone with them stay, and the round is this one or a later one.
LEMMA KeptAsItWas ==
  ASSUME QueueIInv, UNCHANGED onCall, dialRound' \in Nat, dialRound <= dialRound',
         leadOf' \in [QueueLeads -> LeadRows],
         \A l \in QueueLeads : /\ leadOf'[l].status = leadOf[l].status
                               /\ leadOf'[l].round = leadOf[l].round
  PROVE  QueueKept'
<1>1. \A l \in QueueLeads : leadOf'[l].round <= dialRound'
  <2> SUFFICES ASSUME NEW l \in QueueLeads PROVE leadOf[l].round <= dialRound'
    OBVIOUS
  <2>1. leadOf[l].round \in Nat /\ dialRound \in Nat /\ leadOf[l].round <= dialRound
    BY DEF QueueIInv, QueueTypes, QueueKept, LeadRows
  <2> QED BY <2>1
<1> QED BY <1>1 DEF QueueIInv, QueueKept

LEMMA TicksAsTheyWere ==
  ASSUME QueueIInv, UNCHANGED <<ticking, onCall, dialRound>>
  PROVE  ticking' \in [Dialers -> Ticks] /\ TicksInTime'
BY DEF QueueIInv, QueueTypes, TicksInTime

LEMMA NoTickIsTick ==
  /\ NoTick \in Ticks /\ NoTick.round = 0 /\ NoTick.leads = <<>>
  /\ \A t \in Ticks : /\ [t EXCEPT !.at = "rounds", !.leads = <<>>] \in Ticks
                      /\ [t EXCEPT !.at = "rounds", !.leads = <<>>].round = t.round
                      /\ [t EXCEPT !.at = "rounds", !.leads = <<>>].leads = <<>>
<1>1. Len(FolderOrder) \in Nat BY DialQueueConstants
<1>2. <<>> \in Seq(QueueLeads) OBVIOUS
<1>3. NoTick \in Ticks BY <1>1, <1>2 DEF NoTick, Ticks
<1>4. ASSUME NEW t \in Ticks
      PROVE  /\ [t EXCEPT !.at = "rounds", !.leads = <<>>] \in Ticks
             /\ [t EXCEPT !.at = "rounds", !.leads = <<>>].round = t.round
             /\ [t EXCEPT !.at = "rounds", !.leads = <<>>].leads = <<>>
  BY <1>2 DEF Ticks
<1> QED BY <1>3, <1>4 DEF NoTick

\* A step of a tick that dials nobody.
LEMMA TickRests ==
  ASSUME QueueIInv, NEW p \in Dialers, TickBegins(p) \/ PassesAll(p) \/ TickEnds(p) \/ TickFails(p)
  PROVE  QueueIInv'
<1>0. ticking[p] \in Ticks /\ dialRound \in Nat /\ ticking[p].round <= dialRound
  BY DEF QueueIInv, QueueTypes, TicksInTime
<1>1. CASE TickBegins(p)
  <2>1. PICK leads \in IF onCall[p] = NoLead THEN Candidates(dialRound, rotation) ELSE {<<>>} :
          ticking' = [ticking EXCEPT ![p] =
             [at |-> "tries", round |-> dialRound, rotation |-> rotation,
              folders |-> Cardinality(folderOn), leads |-> leads]]
    BY <1>1 DEF TickBegins
  <2> DEFINE t == [at |-> "tries", round |-> dialRound, rotation |-> rotation,
                   folders |-> Cardinality(folderOn), leads |-> leads]
  <2>2. leads \in Seq(QueueLeads)
    <3>1. CASE onCall[p] # NoLead
      <4>1. leads = <<>> BY <2>1, <3>1
      <4> QED BY <4>1
    <3>2. CASE onCall[p] = NoLead
      <4>1. leads \in Candidates(dialRound, rotation) BY <2>1, <3>2
      <4> DEFINE ready == ReadyLeads(dialRound)
      <4>2. ready \subseteq QueueLeads BY DEF ReadyLeads
      <4>3. IsFiniteSet(ready) /\ Cardinality(ready) \in Nat
        <5>1. QueueLeads = {QueueLine[i] : i \in 1..Len(QueueLine)} /\ Len(QueueLine) \in Nat
          BY DialQueueConstants DEF QueueLeads, Range
        <5> DEFINE f == [i \in 1..Len(QueueLine) |-> QueueLine[i]]
        <5>2. f \in Surjection(1..Len(QueueLine), QueueLeads) BY <5>1 DEF Surjection
        <5> HIDE DEF f, ready
        <5>3. IsFiniteSet(QueueLeads) BY <5>1, <5>2, FS_Interval, FS_Surjection
        <5> QED BY <4>2, <5>3, FS_Subset, FS_CardinalityType
      <4>4. leads \in [1..(IF Cardinality(ready) < Batch THEN Cardinality(ready) ELSE Batch) -> ready]
        BY <4>1 DEF Candidates
      <4> HIDE DEF ready
      <4>5. (IF Cardinality(ready) < Batch THEN Cardinality(ready) ELSE Batch) \in Nat
        BY <4>3, DialQueueConstants
      <4>6. \A m \in Nat : leads \in [1..m -> ready] => leads \in Seq(QueueLeads) BY <4>2
      <4> QED BY <4>4, <4>5, <4>6
    <3> QED BY <3>1, <3>2
  <2>3. t \in Ticks /\ t.round = dialRound /\ t.leads = leads
    <3>1. Cardinality(folderOn) \in 0..Len(FolderOrder) BY FewFolders DEF QueueIInv, QueueTypes
    <3>2. rotation \in 0..Len(FolderOrder) BY DEF QueueIInv, QueueTypes
    <3> QED BY <1>0, <2>2, <3>1, <3>2 DEF Ticks
  <2>4. leads # <<>> => onCall[p] = NoLead BY <2>1
  <2>5. UNCHANGED <<leadOf, waitLine, dialTargets, dialSettings, onCall>>
    BY <1>1 DEF TickBegins
  <2> HIDE DEF t
  <2>6. ticking' = [ticking EXCEPT ![p] = t] BY <2>1 DEF t
  <2>0. dialRound' = dialRound /\ dialRound' \in Nat /\ dialRound <= dialRound' /\ UNCHANGED onCall
    BY <1>0, <2>5 DEF dialSettings
  <2>7. ticking' \in [Dialers -> Ticks] /\ TicksInTime'
    BY <2>0, <2>3, <2>4, <2>6, TickGoesOn
  <2>8. QueueKept' BY <1>0, <2>5, KeptAsItWas DEF QueueIInv, QueueTypes, dialSettings
  <2> QED BY <2>5, <2>7, <2>8 DEF QueueIInv, QueueTypes, dialTargets, dialSettings
<1>2. CASE PassesAll(p)
  <2> DEFINE t == [ticking[p] EXCEPT !.at = "rounds", !.leads = <<>>]
  <2>1. /\ ticking' = [ticking EXCEPT ![p] = t]
        /\ UNCHANGED <<leadOf, waitLine, dialTargets, dialSettings, onCall>>
    BY <1>2 DEF PassesAll
  <2>2. t \in Ticks /\ t.round = ticking[p].round /\ t.leads = <<>> BY <1>0, NoTickIsTick
  <2> HIDE DEF t
  <2>0. dialRound' = dialRound /\ dialRound' \in Nat /\ dialRound <= dialRound' /\ UNCHANGED onCall
    BY <1>0, <2>1 DEF dialSettings
  <2>3. ticking' \in [Dialers -> Ticks] /\ TicksInTime'
    BY <1>0, <2>0, <2>1, <2>2, TickGoesOn
  <2>4. QueueKept' BY <1>0, <2>1, KeptAsItWas DEF QueueIInv, QueueTypes, dialSettings
  <2> QED BY <2>1, <2>3, <2>4 DEF QueueIInv, QueueTypes, dialTargets, dialSettings
<1>3. CASE TickEnds(p)
  <2>1. /\ ticking' = [ticking EXCEPT ![p] = NoTick]
        /\ UNCHANGED <<leadOf, waitLine, dialTargets, dialerOn, onCall>>
        /\ dialRound' = IF RoundIsOver(ticking[p].round) THEN RoundOpened(p) ELSE dialRound
        /\ rotation' = IF ticking[p].folders > 0
                       THEN (ticking[p].rotation + 1) % ticking[p].folders ELSE rotation
    BY <1>3 DEF TickEnds
  <2>2. dialRound' \in {dialRound, dialRound + 1} BY <2>1 DEF RoundOpened
  <2>3. dialRound' \in Nat /\ dialRound <= dialRound' /\ 0 <= dialRound' BY <1>0, <2>2
  <2>4. rotation' \in 0..Len(FolderOrder)
    <3>1. rotation \in 0..Len(FolderOrder) BY DEF QueueIInv, QueueTypes
    <3>2. ticking[p].rotation \in 0..Len(FolderOrder) /\ ticking[p].folders \in 0..Len(FolderOrder)
      BY <1>0 DEF Ticks
    <3> QED BY <2>1, <3>1, <3>2, TurnsAround
  <2>5. ticking' \in [Dialers -> Ticks] /\ TicksInTime'
    BY <2>1, <2>3, NoTickIsTick, TickGoesOn
  <2>6. QueueKept' BY <2>1, <2>3, KeptAsItWas DEF QueueIInv, QueueTypes
  <2> QED BY <2>1, <2>3, <2>4, <2>5, <2>6 DEF QueueIInv, QueueTypes, dialTargets
<1>4. CASE TickFails(p)
  <2>1. /\ ticking' = [ticking EXCEPT ![p] = NoTick]
        /\ UNCHANGED <<leadOf, waitLine, dialTargets, dialSettings, onCall>>
    BY <1>4 DEF TickFails
  <2>2. 0 <= dialRound BY <1>0
  <2>0. dialRound' = dialRound /\ dialRound' \in Nat /\ dialRound <= dialRound' /\ UNCHANGED onCall
    BY <1>0, <2>1 DEF dialSettings
  <2>3. ticking' \in [Dialers -> Ticks] /\ TicksInTime'
    BY <2>0, <2>1, <2>2, NoTickIsTick, TickGoesOn
  <2>4. QueueKept' BY <1>0, <2>1, KeptAsItWas DEF QueueIInv, QueueTypes, dialSettings
  <2> QED BY <2>1, <2>3, <2>4 DEF QueueIInv, QueueTypes, dialTargets, dialSettings
<1> QED BY <1>1, <1>2, <1>3, <1>4

\* The call: a lead that waits, and whom no SDR talks to, gets its turn in the round of the tick.
LEMMA TickDials ==
  ASSUME QueueIInv, NEW p \in Dialers, TickStarts(p)
  PROVE  QueueIInv'
<1>1. PICK i \in DOMAIN ticking[p].leads :
        /\ MayDial(ticking[p].leads[i])
        /\ ticking' = [ticking EXCEPT ![p].at = "rounds", ![p].leads = <<>>]
        /\ leadOf' = [leadOf EXCEPT ![ticking[p].leads[i]] =
                        [status |-> "busy", attempts |-> @.attempts + 1,
                         due |-> TRUE, round |-> ticking[p].round]]
        /\ onCall' = [onCall EXCEPT ![p] = ticking[p].leads[i]]
        /\ UNCHANGED <<waitLine, dialTargets, dialSettings>>
  BY DEF TickStarts, DialsFirst
<1> DEFINE l == ticking[p].leads[i]
           row == [status |-> "busy", attempts |-> leadOf[l].attempts + 1,
                   due |-> TRUE, round |-> ticking[p].round]
           t == [ticking[p] EXCEPT !.at = "rounds", !.leads = <<>>]
<1>2. /\ ticking[p] \in Ticks /\ ticking[p].round \in Nat /\ dialRound \in Nat
      /\ ticking[p].round <= dialRound /\ ticking[p].leads \in Seq(QueueLeads)
  BY DEF QueueIInv, QueueTypes, TicksInTime, Ticks
<1>3. l \in QueueLeads /\ l # NoLead /\ ticking[p].leads # <<>>
  BY <1>1, <1>2, DialQueueConstants
<1>4. onCall[p] = NoLead BY <1>3 DEF QueueIInv, TicksInTime
<1>5. leadOf[l] \in LeadRows /\ leadOf[l].status # "busy" /\ leadOf[l].attempts < MaxTurns
  BY <1>1, <1>3 DEF MayDial, Dialable, QueueIInv, QueueTypes
<1>6. row \in LeadRows /\ row.status = "busy" /\ row.round = ticking[p].round
  <2>1. leadOf[l].attempts + 1 \in 0..MaxTurns BY <1>5, DialQueueConstants DEF LeadRows
  <2> QED BY <1>2, <2>1 DEF LeadRows
<1>7. leadOf' = [leadOf EXCEPT ![l] = row] BY <1>1
<1>8. t \in Ticks /\ t.round = ticking[p].round /\ t.leads = <<>> BY <1>2, NoTickIsTick
<1>9. ticking' = [ticking EXCEPT ![p] = t] BY <1>1
<1>10. onCall' = [onCall EXCEPT ![p] = l] BY <1>1
<1> HIDE DEF l, row, t
<1>11. /\ leadOf' \in [QueueLeads -> LeadRows] /\ leadOf'[l] = row
       /\ \A k \in QueueLeads \ {l} : leadOf'[k] = leadOf[k]
  BY <1>3, <1>6, <1>7 DEF QueueIInv, QueueTypes
<1>12. /\ onCall' \in [Dialers -> QueueLeads \union {NoLead}] /\ onCall'[p] = l
       /\ \A q \in Dialers \ {p} : onCall'[q] = onCall[q]
  BY <1>3, <1>10 DEF QueueIInv, QueueTypes
<1>13. dialRound' = dialRound /\ dialRound' \in Nat /\ dialRound <= dialRound'
  BY <1>1, <1>2 DEF dialSettings
<1>14. ticking' \in [Dialers -> Ticks] /\ TicksInTime'
  BY <1>2, <1>8, <1>9, <1>12, <1>13, TickGoesOn
<1>15. \A q \in Dialers : onCall[q] # l BY <1>3, <1>5 DEF QueueIInv, QueueKept
<1>16. QueueKept'
  <2>1. ASSUME NEW q \in Dialers, NEW r \in Dialers, q # r, onCall'[q] # NoLead
        PROVE  onCall'[q] # onCall'[r]
    BY <1>12, <1>15, <2>1 DEF QueueIInv, QueueKept
  <2>2. ASSUME NEW k \in QueueLeads
        PROVE  leadOf'[k].status = "busy" <=> \E q \in Dialers : onCall'[q] = k
    <3>1. CASE k = l BY <1>6, <1>11, <1>12, <3>1
    <3>2. CASE k # l
      <4>1. leadOf[k].status = "busy" <=> \E q \in Dialers : onCall[q] = k
        BY DEF QueueIInv, QueueKept
      <4>2. k # NoLead BY DialQueueConstants
      <4>3. \A q \in Dialers : onCall'[q] = k <=> onCall[q] = k BY <1>4, <1>12, <3>2, <4>2
      <4> QED BY <1>11, <3>2, <4>1, <4>3
    <3> QED BY <3>1, <3>2
  <2>3. ASSUME NEW k \in QueueLeads PROVE leadOf'[k].round <= dialRound'
    BY <1>2, <1>6, <1>11, <1>13 DEF QueueIInv, QueueKept
  <2> QED BY <2>1, <2>2, <2>3 DEF QueueKept
<1> QED BY <1>1, <1>11, <1>12, <1>14, <1>16
        DEF QueueIInv, QueueTypes, dialTargets, dialSettings

\* The end of a call: the lead is in nobody's hands and waits behind the others.
LEMMA QueueCallEnds ==
  ASSUME QueueIInv, NEW p \in Dialers, NEW again \in BOOLEAN, CallIsOver(p, again)
  PROVE  QueueIInv'
<1> DEFINE l == onCall[p]
           row == [leadOf[l] EXCEPT !.status = IF again THEN "retry_wait" ELSE "closed",
                                    !.due = ~again]
<1>1. /\ l # NoLead /\ onCall' = [onCall EXCEPT ![p] = NoLead]
      /\ leadOf' = [leadOf EXCEPT ![l].status = IF again THEN "retry_wait" ELSE "closed",
                                  ![l].due = ~again]
      /\ \E i \in DOMAIN waitLine : waitLine[i] = l /\ waitLine' = Append(RemoveAt(waitLine, i), l)
      /\ UNCHANGED <<dialTargets, dialSettings, ticking>>
  BY DEF CallIsOver
<1>2. l \in QueueLeads BY <1>1 DEF QueueIInv, QueueTypes
<1>3. leadOf[l] \in LeadRows BY <1>2 DEF QueueIInv, QueueTypes
<1>4. leadOf' = [leadOf EXCEPT ![l] = row] BY <1>1
<1>5. row \in LeadRows /\ row.status # "busy" /\ row.round = leadOf[l].round
  BY <1>3 DEF LeadRows
<1>6. /\ waitLine' \in Seq(QueueLeads) /\ Range(waitLine') = QueueLeads
      /\ Len(waitLine') = Len(QueueLine)
  <2> HIDE DEF l
  <2>1. PICK i \in DOMAIN waitLine : waitLine[i] = l /\ waitLine' = Append(RemoveAt(waitLine, i), l)
    BY <1>1
  <2>2. /\ waitLine \in Seq(QueueLeads) /\ Range(waitLine) = QueueLeads
        /\ Len(waitLine) = Len(QueueLine)
    BY DEF QueueIInv, QueueTypes
  <2>3. PICK s : s = waitLine OBVIOUS
  <2>4. PICK u : u = waitLine' OBVIOUS
  <2>5. s \in Seq(QueueLeads) /\ i \in DOMAIN s /\ u = Append(RemoveAt(s, i), s[i])
    BY <2>1, <2>2, <2>3, <2>4
  <2>6. u \in Seq(QueueLeads) /\ Range(u) = Range(s) /\ Len(u) = Len(s)
    BY <2>5, GoesBehind
  <2>7. Range(waitLine') = Range(u) BY <2>4
  <2> QED BY <2>2, <2>3, <2>4, <2>6, <2>7
<1> HIDE DEF row, l
<1>7. /\ leadOf' \in [QueueLeads -> LeadRows] /\ leadOf'[l] = row
      /\ \A k \in QueueLeads \ {l} : leadOf'[k] = leadOf[k]
  BY <1>2, <1>4, <1>5 DEF QueueIInv, QueueTypes
<1>8. /\ onCall' \in [Dialers -> QueueLeads \union {NoLead}] /\ onCall'[p] = NoLead
      /\ \A q \in Dialers \ {p} : onCall'[q] = onCall[q]
  BY <1>1 DEF QueueIInv, QueueTypes
<1>9. UNCHANGED <<ticking, dialRound>> BY <1>1 DEF dialSettings
<1>10. TicksInTime'
  <2>1. \A q \in Dialers : onCall[q] = NoLead => onCall'[q] = NoLead BY <1>8
  <2> QED BY <1>9, <2>1 DEF QueueIInv, TicksInTime
<1>11. \A q \in Dialers \ {p} : onCall[q] # l
  BY <1>1 DEF QueueIInv, QueueKept, l
<1>12. QueueKept'
  <2>1. ASSUME NEW q \in Dialers, NEW r \in Dialers, q # r, onCall'[q] # NoLead
        PROVE  onCall'[q] # onCall'[r]
    <3>1. q # p /\ onCall'[q] = onCall[q] BY <1>8, <2>1
    <3>2. onCall[q] # onCall[r] BY <2>1, <3>1 DEF QueueIInv, QueueKept
    <3> QED BY <1>8, <2>1, <3>1, <3>2
  <2>2. ASSUME NEW k \in QueueLeads
        PROVE  leadOf'[k].status = "busy" <=> \E q \in Dialers : onCall'[q] = k
    <3>0. k # NoLead BY DialQueueConstants
    <3>1. CASE k = l BY <1>5, <1>7, <1>8, <1>11, <3>0, <3>1
    <3>2. CASE k # l
      <4>1. leadOf[k].status = "busy" <=> \E q \in Dialers : onCall[q] = k
        BY DEF QueueIInv, QueueKept
      <4>2. \A q \in Dialers : onCall'[q] = k <=> onCall[q] = k BY <1>8, <3>0, <3>2 DEF l
      <4> QED BY <1>7, <3>2, <4>1, <4>2
    <3> QED BY <3>1, <3>2
  <2>3. ASSUME NEW k \in QueueLeads PROVE leadOf'[k].round <= dialRound'
    BY <1>5, <1>7, <1>9 DEF QueueIInv, QueueKept
  <2> QED BY <2>1, <2>2, <2>3 DEF QueueKept
<1> QED BY <1>1, <1>6, <1>7, <1>8, <1>9, <1>10, <1>12
        DEF QueueIInv, QueueTypes, dialTargets, dialSettings

\* What happens around the ticks and the calls: a lead becomes due, something is switched.
LEMMA QueueSurroundings ==
  ASSUME QueueIInv, \/ \E l \in QueueLeads : BecomesDue(l) \/ SwitchCampaign(l)
                    \/ SwitchDialer \/ \E f \in DialFolders : SwitchFolder(f)
  PROVE  QueueIInv'
<1>0. /\ dialRound \in Nat /\ dialRound <= dialRound
      /\ leadOf \in [QueueLeads -> LeadRows]
  BY DEF QueueIInv, QueueTypes
<1>1. ASSUME NEW l \in QueueLeads, BecomesDue(l) PROVE QueueIInv'
  <2> DEFINE row == [leadOf[l] EXCEPT !.due = TRUE]
  <2>1. /\ leadOf' = [leadOf EXCEPT ![l] = row]
        /\ UNCHANGED <<waitLine, dialTargets, dialSettings, ticking, onCall>>
    BY <1>1 DEF BecomesDue
  <2>2. leadOf[l] \in LeadRows BY <1>0
  <2>3. row \in LeadRows /\ row.status = leadOf[l].status /\ row.round = leadOf[l].round
    BY <2>2 DEF LeadRows
  <2> HIDE DEF row
  <2>4. /\ leadOf' \in [QueueLeads -> LeadRows]
        /\ \A k \in QueueLeads : /\ leadOf'[k].status = leadOf[k].status
                                 /\ leadOf'[k].round = leadOf[k].round
    BY <1>0, <2>1, <2>3
  <2>5. dialRound' = dialRound BY <2>1 DEF dialSettings
  <2>6. QueueKept' BY <1>0, <2>1, <2>4, <2>5, KeptAsItWas
  <2>7. ticking' \in [Dialers -> Ticks] /\ TicksInTime' BY <2>1, <2>5, TicksAsTheyWere
  <2> QED BY <2>1, <2>4, <2>6, <2>7 DEF QueueIInv, QueueTypes, dialTargets, dialSettings
<1>2. ASSUME UNCHANGED <<leadOf, waitLine, dialRound, rotation, ticking, onCall>>,
             folderOn' \subseteq DialFolders, heldBack' \subseteq QueueLeads, dialerOn' \in BOOLEAN
      PROVE  QueueIInv'
  <2>1. QueueKept' BY <1>0, <1>2, KeptAsItWas
  <2>2. ticking' \in [Dialers -> Ticks] /\ TicksInTime' BY <1>2, TicksAsTheyWere
  <2> QED BY <1>2, <2>1, <2>2 DEF QueueIInv, QueueTypes
<1>3. folderOn \subseteq DialFolders /\ heldBack \subseteq QueueLeads /\ dialerOn \in BOOLEAN
  BY DEF QueueIInv, QueueTypes
<1>4. ASSUME NEW l \in QueueLeads, SwitchCampaign(l) PROVE QueueIInv'
  BY <1>2, <1>3, <1>4 DEF SwitchCampaign, dialSettings
<1>5. ASSUME SwitchDialer PROVE QueueIInv'
  BY <1>2, <1>3, <1>5 DEF SwitchDialer, dialTargets
<1>6. ASSUME NEW f \in DialFolders, SwitchFolder(f) PROVE QueueIInv'
  BY <1>2, <1>3, <1>6 DEF SwitchFolder, dialSettings
<1> QED BY <1>1, <1>4, <1>5, <1>6

LEMMA StepQueue == QueueIInv /\ [QueueNext]_queueVars => QueueIInv'
<1> SUFFICES ASSUME QueueIInv, [QueueNext]_queueVars PROVE QueueIInv'
  OBVIOUS
<1>1. CASE UNCHANGED queueVars
  BY <1>1 DEF queueVars, dialTargets, dialSettings, QueueIInv, QueueTypes, QueueKept, TicksInTime
<1>2. ASSUME NEW p \in Dialers, TickStep(p) \/ TickFails(p) \/ CallOvers(p) PROVE QueueIInv'
  BY <1>2, TickRests, TickDials, QueueCallEnds DEF TickStep, CallOvers
<1>3. ASSUME \/ \E l \in QueueLeads : BecomesDue(l) \/ SwitchCampaign(l)
             \/ SwitchDialer \/ \E f \in DialFolders : SwitchFolder(f)
      PROVE  QueueIInv'
  BY <1>3, QueueSurroundings
<1> QED BY <1>1, <1>2, <1>3 DEF QueueNext

LEMMA QueueIsKept == QueueIInv => DialQueueTypeOK /\ QueueKept
<1> SUFFICES ASSUME QueueIInv PROVE DialQueueTypeOK
  BY DEF QueueIInv
<1>1. leadOf \in [QueueLeads -> [status : {"queued", "retry_wait", "busy", "closed"},
                                 attempts : 0..MaxTurns, due : BOOLEAN, round : Nat]]
  BY DEF QueueIInv, QueueTypes, LeadRows
<1>2. \A p \in Dialers : ticking[p].at \in {"idle", "tries", "rounds"}
  BY DEF QueueIInv, QueueTypes, Ticks
<1> QED BY <1>1, <1>2 DEF DialQueueTypeOK, QueueIInv, QueueTypes

\* A lead is in the hands of one SDR, is dialed in a round that has been opened and gets no more
\* turns than the settings allow, whatever the ticks of other processes read before, whichever
\* folders and campaigns are switched meanwhile and whichever ticks fail.
THEOREM QueueIsInOrder == QueueSpec => [](DialQueueTypeOK /\ QueueKept)
BY InitQueue, StepQueue, QueueIsKept, PTL DEF QueueSpec
=============================================================================
