----------------------------- MODULE AccessProofs -----------------------------
(***************************************************************************)
(* What is proved of the access of users and companies: the links that     *)
(* work once, the sessions that are revoked together, the flags that       *)
(* follow from a plan, and the account that the tabs of a browser show.    *)
(***************************************************************************)
EXTENDS MCCompany, FiniteSetTheorems, TLAPS

-----------------------------------------------------------------------------
(* OneUseLinks: a link is used by the one transaction that has its row, and*)
(* the tokens that are open are those the issue under way will close.      *)
LinkFacts(l) ==
    /\ link[l] \in {"none", "open", "used"} /\ redeeming[l] \in 0..1
    /\ linkGhost.uses[l] \in 0..1
    /\ redeeming[l] = 1 => link[l] = "open"
    /\ link[l] # "used" => linkGhost.uses[l] = 0

IssueFacts(i) ==
    /\ i.id \in Links /\ link[i.id] = "none" /\ i.closes \subseteq ActionTokens
    /\ \A m \in i.closes : link[m] # "none" /\ redeeming[m] = 0

OpenToken(m) == m \in ActionTokens /\ link[m] = "open"

InTurn ==
    /\ \A i, j \in issuing : IsAction(i.id) /\ IsAction(j.id) => i = j
    /\ \A i \in issuing : IsAction(i.id) => \A m \in Links : OpenToken(m) => m \in i.closes
    /\ \A m, n \in Links : OpenToken(m) /\ OpenToken(n) => m = n

LinkIInv ==
    /\ DOMAIN link = Links /\ DOMAIN redeeming = Links
    /\ linkGhost \in [uses : [Links -> 0..1], raced : BOOLEAN]
    /\ \A l \in Links : LinkFacts(l)
    /\ \A i \in issuing : IssueFacts(i)
    /\ \A i, j \in issuing : i.id = j.id => i = j
    /\ ~linkGhost.raced => InTurn

LEMMA InitLinks == LinksInit => LinkIInv
BY DEF LinksInit, LinkIInv, LinkFacts, IssueFacts, InTurn, OpenToken

LEMMA StepIssueBegins == ASSUME LinkIInv, NEW l \in Links, IssueBegins(l) PROVE LinkIInv'
<1> DEFINE new == [id |-> l, closes |-> ClosedBy(l)]
<1>1. /\ link[l] = "none" /\ (\A i \in issuing : i.id # l)
      /\ \A m \in ClosedBy(l) : redeeming[m] = 0
      /\ issuing' = issuing \cup {new} /\ UNCHANGED <<link, redeeming>>
      /\ linkGhost' = [linkGhost EXCEPT
             !.raced = @ \/ (IsAction(l) /\ \E i \in issuing : IsAction(i.id))]
  BY DEF IssueBegins
<1>2. /\ linkGhost'.uses = linkGhost.uses /\ linkGhost' \in [uses : [Links -> 0..1], raced : BOOLEAN]
      /\ ~linkGhost'.raced => ~linkGhost.raced /\ ~(IsAction(l) /\ \E i \in issuing : IsAction(i.id))
  BY <1>1 DEF LinkIInv
<1>3. /\ ClosedBy(l) \subseteq ActionTokens /\ \A m \in ClosedBy(l) : link[m] = "open"
      /\ IsAction(l) => \A m \in Links : OpenToken(m) => m \in ClosedBy(l)
  BY DEF ClosedBy, IsAction, OpenToken
<1>4. new.id = l /\ new.closes = ClosedBy(l) OBVIOUS
<1> HIDE DEF new
<1>5. \A k \in Links : LinkFacts(k)' BY <1>1, <1>2 DEF LinkIInv, LinkFacts
<1>6. ASSUME NEW i \in issuing' PROVE IssueFacts(i)'
  <2>1. CASE i \in issuing
    <3>1. IssueFacts(i) BY <2>1 DEF LinkIInv
    <3> QED BY <1>1, <3>1 DEF IssueFacts
  <2>2. CASE i = new
    <3>1. \A m \in ClosedBy(l) : link[m] = "open" /\ redeeming[m] = 0 BY <1>1, <1>3
    <3> QED BY <1>1, <1>3, <1>4, <2>2, <3>1 DEF IssueFacts
  <2> QED BY <1>1, <2>1, <2>2
<1>7. ASSUME ~linkGhost'.raced PROVE InTurn'
  <2>1. InTurn /\ ~(IsAction(l) /\ \E i \in issuing : IsAction(i.id)) BY <1>2, <1>7 DEF LinkIInv
  <2>2. \A m : OpenToken(m)' <=> OpenToken(m) BY <1>1 DEF OpenToken
  <2> QED BY <1>1, <1>3, <1>4, <2>1, <2>2 DEF InTurn, IsAction
<1>8. \A i, j \in issuing' : i.id = j.id => i = j BY <1>1, <1>4 DEF LinkIInv
<1> QED BY <1>1, <1>2, <1>5, <1>6, <1>7, <1>8 DEF LinkIInv

LEMMA StepIssueCommits == ASSUME LinkIInv, NEW i \in issuing, IssueCommits(i) PROVE LinkIInv'
<1>1. /\ issuing' = issuing \ {i} /\ UNCHANGED <<redeeming, linkGhost>>
      /\ link' = [m \in Links |-> IF m = i.id THEN "open"
                                  ELSE IF m \in i.closes THEN "used" ELSE link[m]]
  BY DEF IssueCommits
<1>2. IssueFacts(i) BY DEF LinkIInv
<1>3. ASSUME NEW l \in Links
      PROVE  link'[l] = IF l = i.id THEN "open" ELSE IF l \in i.closes THEN "used" ELSE link[l]
  BY <1>1
<1>4. i.id \in Links /\ link[i.id] = "none" /\ i.id \notin i.closes BY <1>2 DEF IssueFacts
<1>5. \A l \in Links : LinkFacts(l)'
  BY <1>1, <1>2, <1>3, <1>4 DEF LinkIInv, LinkFacts, IssueFacts
<1>6. ASSUME NEW j \in issuing' PROVE IssueFacts(j)'
  <2>1. IssueFacts(j) /\ j.id # i.id BY <1>1 DEF LinkIInv
  <2>2. j.closes \subseteq Links BY <2>1 DEF IssueFacts, Links
  <2>3. j.id \notin i.closes BY <1>2, <2>1 DEF IssueFacts
  <2> QED BY <1>1, <1>3, <2>1, <2>2, <2>3 DEF IssueFacts
<1>7. ASSUME ~linkGhost'.raced PROVE InTurn'
  <2>1. InTurn BY <1>1, <1>7 DEF LinkIInv
  <2>2. CASE IsAction(i.id)
    <3>1. \A j \in issuing' : ~IsAction(j.id) BY <1>1, <2>1, <2>2 DEF InTurn
    <3>2. \A m \in Links : OpenToken(m)' => m = i.id
      BY <1>3, <2>1, <2>2 DEF InTurn, OpenToken
    <3> QED BY <3>1, <3>2 DEF InTurn, IsAction
  <2>3. CASE ~IsAction(i.id)
    <3>1. \A m \in Links : OpenToken(m)' => OpenToken(m) BY <1>3, <2>3 DEF OpenToken, IsAction
    <3> QED BY <1>1, <2>1, <3>1 DEF InTurn, IsAction
  <2> QED BY <2>2, <2>3
<1>8. \A j, k \in issuing' : j.id = k.id => j = k BY <1>1 DEF LinkIInv
<1> QED BY <1>1, <1>5, <1>6, <1>7, <1>8 DEF LinkIInv

\* A link that is used or expires: no issue under way has it, or it closed anyway.
LEMMA StepLinkUsed ==
  ASSUME LinkIInv, NEW l \in Links, RedeemEnds(l) \/ LinkExpires(l)
  PROVE  LinkIInv'
<1>1. /\ link' = [link EXCEPT ![l] = "used"] /\ issuing' = issuing /\ link[l] = "open"
      /\ linkGhost'.raced = linkGhost.raced
      /\ DOMAIN redeeming' = Links /\ redeeming'[l] = 0
      /\ \A k \in Links \ {l} : redeeming'[k] = redeeming[k] /\ linkGhost'.uses[k] = linkGhost.uses[k]
      /\ linkGhost'.uses[l] \in 0..1 /\ linkGhost' \in [uses : [Links -> 0..1], raced : BOOLEAN]
  <2>1. CASE RedeemEnds(l)
    <3>1. redeeming[l] = 1 /\ link[l] = "open" /\ linkGhost.uses[l] = 0
      BY <2>1 DEF RedeemEnds, LinkIInv, LinkFacts
    <3>2. linkGhost' = [linkGhost EXCEPT !.uses[l] = @ + 1] BY <2>1 DEF RedeemEnds
    <3> DEFINE u == [linkGhost.uses EXCEPT ![l] = 1]
    <3>3. linkGhost' = [linkGhost EXCEPT !.uses = u] BY <3>1, <3>2 DEF LinkIInv
    <3>4. u \in [Links -> 0..1] /\ u[l] = 1 /\ \A k \in Links \ {l} : u[k] = linkGhost.uses[k]
      BY DEF LinkIInv
    <3> HIDE DEF u
    <3>5. linkGhost'.uses = u /\ linkGhost'.raced = linkGhost.raced
          /\ linkGhost' \in [uses : [Links -> 0..1], raced : BOOLEAN]
      BY <3>3, <3>4 DEF LinkIInv
    <3>6. redeeming' = [redeeming EXCEPT ![l] = 0] BY <2>1, <3>1 DEF RedeemEnds
    <3> QED BY <2>1, <3>1, <3>4, <3>5, <3>6 DEF RedeemEnds, LinkIInv
  <2>2. CASE LinkExpires(l) BY <2>2 DEF LinkExpires, LinkIInv
  <2> QED BY <2>1, <2>2
<1>2. DOMAIN link' = Links /\ link'[l] = "used" /\ \A k \in Links \ {l} : link'[k] = link[k]
  BY <1>1 DEF LinkIInv
<1>3. \A k \in Links : LinkFacts(k)' BY <1>1, <1>2 DEF LinkIInv, LinkFacts
<1>4. ASSUME NEW i \in issuing' PROVE IssueFacts(i)'
  <2>1. IssueFacts(i) /\ i.closes \subseteq Links BY <1>1 DEF LinkIInv, IssueFacts, Links
  <2> QED BY <1>1, <1>2, <2>1 DEF IssueFacts
<1>5. \A m \in Links : OpenToken(m)' => OpenToken(m) BY <1>1, <1>2 DEF OpenToken
<1>6. ~linkGhost'.raced => InTurn' BY <1>1, <1>5 DEF LinkIInv, InTurn, IsAction
<1> QED BY <1>1, <1>2, <1>3, <1>4, <1>6 DEF LinkIInv

LEMMA StepLinks == LinkIInv /\ [LinksNext]_linkVars => LinkIInv'
<1> SUFFICES ASSUME LinkIInv, [LinksNext]_linkVars PROVE LinkIInv'
  OBVIOUS
<1>1. CASE UNCHANGED linkVars
  BY <1>1 DEF linkVars, LinkIInv, LinkFacts, IssueFacts, InTurn, OpenToken
<1>2. ASSUME NEW l \in Links, RedeemBegins(l) PROVE LinkIInv'
  <2>1. /\ link[l] = "open" /\ redeeming[l] = 0 /\ l \notin Closing
        /\ redeeming' = [redeeming EXCEPT ![l] = 1] /\ UNCHANGED <<link, issuing, linkGhost>>
    BY <1>2 DEF RedeemBegins, RowFree
  <2>2. /\ DOMAIN redeeming' = Links /\ redeeming'[l] = 1
        /\ \A k \in Links \ {l} : redeeming'[k] = redeeming[k]
    BY <2>1 DEF LinkIInv
  <2>3. \A k \in Links : LinkFacts(k)' BY <2>1, <2>2 DEF LinkIInv, LinkFacts
  <2>4. ASSUME NEW i \in issuing' PROVE IssueFacts(i)'
    <3>1. IssueFacts(i) /\ i.closes \subseteq Links /\ l \notin i.closes
      BY <2>1 DEF LinkIInv, IssueFacts, Links, Closing
    <3> QED BY <2>1, <2>2, <3>1 DEF IssueFacts
  <2> QED BY <2>1, <2>2, <2>3, <2>4 DEF LinkIInv, InTurn, OpenToken
<1> QED BY <1>1, <1>2, StepIssueBegins, StepIssueCommits, StepLinkUsed DEF LinksNext

LEMMA LinksAreRight == LinkIInv => LinksInv
<1> SUFFICES ASSUME LinkIInv PROVE LinksInv
  OBVIOUS
<1>1. LinksTypeOK BY DEF LinkIInv, LinkFacts, IssueFacts, LinksTypeOK
<1>2. LinkWorksOnce BY DEF LinkIInv, LinkFacts, LinkWorksOnce
<1>3. OneTokenOpen
  <2> SUFFICES ASSUME ~linkGhost.raced
               PROVE  Cardinality({l \in Links : IsAction(l) /\ link[l] = "open"}) <= 1
    BY DEF OneTokenOpen
  <2> DEFINE open == {l \in Links : IsAction(l) /\ link[l] = "open"}
  <2>1. \A m, n \in open : m = n BY DEF LinkIInv, InTurn, OpenToken, IsAction
  <2> HIDE DEF open
  <2>2. Cardinality(open) <= 1
    <3>1. CASE open = {} BY <3>1, FS_EmptySet
    <3>2. CASE open # {}
      <4>1. PICK m \in open : open = {m} BY <2>1, <3>2
      <4>2. Cardinality({m}) = 1 BY FS_Singleton
      <4> QED BY <4>1, <4>2
    <3> QED BY <3>1, <3>2
  <2> QED BY <2>2 DEF open
<1> QED BY <1>1, <1>2, <1>3 DEF LinksInv

\* A token or a ticket is used once, however many requests bring it at the same time, and a user
\* has one open token of a purpose as long as two were never asked for at the same moment.
THEOREM LinksWorkOnce == LinksSpec => []LinksInv
<1>1. LinksInit => LinkIInv BY InitLinks
<1>2. LinkIInv /\ [LinksNext]_linkVars => LinkIInv' BY StepLinks
<1>3. LinkIInv => LinksInv BY LinksAreRight
<1> QED BY <1>1, <1>2, <1>3, PTL DEF LinksSpec

-----------------------------------------------------------------------------
(* Sessions: a family that was closed has no live session, and no refresh  *)
(* under way that would give it one; a sweep that no refresh overlapped    *)
(* finds none.                                                             *)
SessionRows ==
    [status : {"none", "live", "revoked"}, family : SessionIds \cup {0},
     next : SessionIds \cup {0}, grace : BOOLEAN, expired : BOOLEAN]

SessionFacts(s) ==
    /\ ses[s] \in SessionRows
    /\ ses[s].status = "none" => ses[s] = NoSession
    /\ ses[s].status # "none" => /\ ses[s].family \in SessionIds
                                 /\ ses[ses[s].family].status # "none"
    /\ ses[s].next # 0 => /\ ses[s].status = "revoked" /\ ses[ses[s].next].status # "none"
                          /\ ses[ses[s].next].family = ses[s].family

SwapFacts(w) ==
    /\ w.old \in SessionIds /\ w.new \in SessionIds /\ w.rotates \in BOOLEAN
    /\ ses[w.old].status # "none" /\ ses[w.new].status = "none"

ClosedFacts(f) ==
    /\ f \in SessionIds /\ ses[f].status # "none"
    /\ \A s \in SessionIds : ses[s].family = f => ses[s].status # "live"
    /\ \A w \in swaps : ses[w.old].family # f

SweepFacts ==
    /\ sweep \in [on : BOOLEAN, rows : SUBSET SessionIds, overlapped : BOOLEAN]
    /\ \A s \in sweep.rows : ses[s].status # "none"
    /\ sweep.on /\ ~sweep.overlapped => swaps = {}

SesIInv ==
    /\ DOMAIN ses = SessionIds /\ sesGhost = [closed |-> sesGhost.closed, reused |-> sesGhost.reused]
    /\ \A s \in SessionIds : SessionFacts(s)
    /\ \A w \in swaps : SwapFacts(w)
    /\ \A v, w \in swaps : v.old = w.old \/ v.new = w.new => v = w
    /\ \A f \in sesGhost.closed : ClosedFacts(f)
    /\ SweepFacts

LEMMA InitSessions == SessionsInit => SesIInv
BY SessionsConstants DEF SessionsInit, SesIInv, SessionFacts, SessionRows, SwapFacts, ClosedFacts,
                         SweepFacts, NoSession, NoSweep

LEMMA StepOpensSession == ASSUME SesIInv, NEW s \in SessionIds, OpensSession(s) PROVE SesIInv'
<1> DEFINE row == [NoSession EXCEPT !.status = "live", !.family = s]
<1>1. ses' = [ses EXCEPT ![s] = row] /\ UNCHANGED <<swaps, sweep, sesGhost>> /\ s \notin Taken
  BY DEF OpensSession, FreshId
<1>2. ses[s].status = "none" /\ \A w \in swaps : w.new # s BY <1>1 DEF Taken
<1>3. row \in SessionRows /\ row.status = "live" /\ row.family = s /\ row.next = 0
  BY DEF NoSession, SessionRows
<1> HIDE DEF row
<1>4. DOMAIN ses' = SessionIds /\ ses'[s] = row /\ \A r \in SessionIds \ {s} : ses'[r] = ses[r]
  BY <1>1 DEF SesIInv
<1>5. s # 0 BY SessionsConstants
<1>6. \A r \in SessionIds : ses[r].next # s
  BY <1>2, <1>5 DEF SesIInv, SessionFacts
<1>7. ASSUME NEW r \in SessionIds PROVE SessionFacts(r)'
  <2>1. SessionFacts(r) BY DEF SesIInv
  <2>2. CASE r = s BY <1>3, <1>4, <2>2 DEF SessionFacts
  <2>3. CASE r # s
    <3>1. ses'[r] = ses[r] BY <1>4, <2>3
    <3>2. ses[r].next # 0 => ses'[ses[r].next] = ses[ses[r].next]
      BY <1>4, <1>6, <2>1 DEF SessionFacts, SessionRows
    <3>3. ses[r].status # "none" => ses'[ses[r].family].status # "none"
      BY <1>3, <1>4, <2>1 DEF SessionFacts
    <3> QED BY <2>1, <3>1, <3>2, <3>3 DEF SessionFacts
  <2> QED BY <2>2, <2>3
<1>8. ASSUME NEW w \in swaps PROVE SwapFacts(w)' /\ ses'[w.old] = ses[w.old]
  <2>1. SwapFacts(w) /\ w.old # s BY <1>2 DEF SesIInv, SwapFacts
  <2> QED BY <1>2, <1>4, <2>1 DEF SwapFacts
<1>9. ASSUME NEW f \in sesGhost.closed PROVE ClosedFacts(f)'
  <2>1. ClosedFacts(f) /\ f # s BY <1>2 DEF SesIInv, ClosedFacts
  <2> QED BY <1>1, <1>3, <1>4, <1>8, <2>1 DEF ClosedFacts
<1>10. SweepFacts' BY <1>1, <1>3, <1>4 DEF SesIInv, SweepFacts
<1> QED BY <1>1, <1>4, <1>7, <1>8, <1>9, <1>10 DEF SesIInv

LEMMA StepRefreshBegins ==
  ASSUME SesIInv, NEW s \in SessionIds, NEW new \in SessionIds, RefreshBegins(s, new)
  PROVE  SesIInv'
<1>0. PICK v : v = [old |-> s, new |-> new, rotates |-> ses[s].status = "live"] OBVIOUS
<1>1. /\ ses[s].status # "none" /\ s \notin Locked /\ new \notin Taken
      /\ ses[s].status = "live" \/ RotatedRecently(s)
      /\ swaps' = swaps \cup {v} /\ sweep' = [sweep EXCEPT !.overlapped = sweep.on]
      /\ UNCHANGED <<ses, sesGhost>>
  BY <1>0 DEF RefreshBegins, FreshId
<1>2. v.old = s /\ v.new = new /\ v.rotates \in BOOLEAN BY <1>0
<1>3. /\ ses[new].status = "none" /\ \A w \in swaps : w.new # new /\ w.old # s
  BY <1>1 DEF Taken, Locked
<1>4. SwapFacts(v)' BY <1>1, <1>2, <1>3 DEF SwapFacts
<1>5. \A w \in swaps : SwapFacts(w)' BY <1>1 DEF SesIInv, SwapFacts
<1>6. \A u, w \in swaps' : u.old = w.old \/ u.new = w.new => u = w
  BY <1>1, <1>2, <1>3 DEF SesIInv
<1>7. ASSUME NEW f \in sesGhost.closed PROVE ses[s].family # f
  <2>1. ClosedFacts(f) /\ SessionFacts(s) BY DEF SesIInv
  <2>2. CASE ses[s].status = "live" BY <2>1, <2>2 DEF ClosedFacts
  <2>3. CASE RotatedRecently(s)
    <3>1. /\ ses[s].next \in SessionIds /\ ses[ses[s].next].status = "live"
          /\ ses[ses[s].next].family = ses[s].family
      BY <2>1, <2>3 DEF RotatedRecently, SessionFacts, SessionRows
    <3> QED BY <2>1, <3>1 DEF ClosedFacts
  <2> QED BY <1>1, <2>2, <2>3
<1>8. \A f \in sesGhost'.closed : ClosedFacts(f)'
  BY <1>1, <1>2, <1>7 DEF SesIInv, ClosedFacts
<1>9. SweepFacts'
  <2>1. sweep' \in [on : BOOLEAN, rows : SUBSET SessionIds, overlapped : BOOLEAN]
        /\ sweep'.rows = sweep.rows /\ sweep'.on = sweep.on /\ sweep'.overlapped = sweep.on
    BY <1>1 DEF SesIInv, SweepFacts
  <2> QED BY <1>1, <2>1 DEF SesIInv, SweepFacts
<1>10. \A r \in SessionIds : SessionFacts(r)' BY <1>1 DEF SesIInv, SessionFacts
<1> QED BY <1>1, <1>4, <1>5, <1>6, <1>8, <1>9, <1>10 DEF SesIInv

LEMMA StepRefreshCommits == ASSUME SesIInv, NEW w \in swaps, RefreshCommits(w) PROVE SesIInv'
<1> DEFINE fam == ses[w.old].family
           born == [NoSession EXCEPT !.status = "live", !.family = fam]
           gone == [ses[w.old] EXCEPT !.status = "revoked", !.next = w.new, !.grace = TRUE]
<1>1. /\ ses' = [s \in SessionIds |->
           IF s = w.new THEN born
           ELSE IF s = w.old /\ w.rotates
           THEN [ses[s] EXCEPT !.status = "revoked", !.next = w.new, !.grace = TRUE]
           ELSE ses[s]]
      /\ swaps' = swaps \ {w} /\ UNCHANGED <<sweep, sesGhost>>
  BY DEF RefreshCommits
<1>2. SwapFacts(w) /\ SessionFacts(w.old) BY DEF SesIInv, SwapFacts
<1>3. /\ w.old \in SessionIds /\ w.new \in SessionIds /\ w.old # w.new
      /\ ses[w.old] \in SessionRows /\ ses[w.old].status # "none" /\ ses[w.new].status = "none"
      /\ fam \in SessionIds /\ ses[fam].status # "none"
  BY <1>2 DEF SwapFacts, SessionFacts
<1>4. /\ born \in SessionRows /\ born.status = "live" /\ born.family = fam /\ born.next = 0
  BY <1>3 DEF NoSession, SessionRows
<1>5. gone \in SessionRows /\ gone.status = "revoked" /\ gone.family = fam /\ gone.next = w.new
  BY <1>3 DEF SessionRows
<1>6. /\ DOMAIN ses' = SessionIds /\ ses'[w.new] = born
      /\ ses'[w.old] = IF w.rotates THEN gone ELSE ses[w.old]
      /\ \A s \in SessionIds \ {w.new, w.old} : ses'[s] = ses[s]
  BY <1>1, <1>3
<1> HIDE DEF born, gone
<1>7. /\ \A s \in SessionIds \ {w.new} : ses'[s].family = ses[s].family
      /\ \A s \in SessionIds : ses[s].status # "none" => ses'[s].status # "none" /\ s # w.new
      /\ \A s \in SessionIds \ {w.new} : ses'[s].status = "live" => ses[s].status = "live"
  BY <1>3, <1>4, <1>5, <1>6
<1>8. w.new # 0 BY <1>3, SessionsConstants
<1>9. ASSUME NEW s \in SessionIds PROVE SessionFacts(s)'
  <2>1. CASE s = w.new BY <1>3, <1>4, <1>6, <1>7, <2>1 DEF SessionFacts
  <2>2. CASE s = w.old /\ w.rotates
    BY <1>3, <1>4, <1>5, <1>6, <1>7, <2>2 DEF SessionFacts
  <2>3. CASE s # w.new /\ ~(s = w.old /\ w.rotates)
    <3>1. ses'[s] = ses[s] /\ SessionFacts(s) BY <1>6, <2>3 DEF SesIInv
    <3>2. ses[s].next # 0 => ses[s].next \in SessionIds BY <3>1 DEF SessionFacts, SessionRows
    <3> QED BY <1>7, <3>1, <3>2 DEF SessionFacts
  <2> QED BY <2>1, <2>2, <2>3
<1>10. ASSUME NEW v \in swaps' PROVE SwapFacts(v)'
  <2>1. v \in swaps /\ v # w /\ SwapFacts(v) /\ v.new # w.new BY <1>1 DEF SesIInv
  <2>2. v.new # w.old BY <1>3, <2>1 DEF SwapFacts
  <2> QED BY <1>6, <1>7, <2>1, <2>2 DEF SwapFacts
<1>11. ASSUME NEW f \in sesGhost'.closed PROVE ClosedFacts(f)'
  <2>1. ClosedFacts(f) /\ fam # f BY <1>1 DEF SesIInv, ClosedFacts
  <2>2. \A s \in SessionIds : ses'[s].family = f => ses'[s].status # "live"
    BY <1>4, <1>6, <1>7, <2>1 DEF ClosedFacts
  <2>3. \A v \in swaps' : ses'[v.old].family # f
    BY <1>1, <1>7, <2>1 DEF SesIInv, SwapFacts, ClosedFacts
  <2> QED BY <1>7, <2>1, <2>2, <2>3 DEF ClosedFacts
<1>12. SweepFacts' BY <1>1, <1>7 DEF SesIInv, SweepFacts
<1> QED BY <1>1, <1>6, <1>9, <1>10, <1>11, <1>12 DEF SesIInv

\* Rows that are revoked, or whose grace or time ends: what they hang together by is kept.
LEMMA RowsRevoked ==
  ASSUME SesIInv, DOMAIN ses' = SessionIds, UNCHANGED <<swaps, sesGhost>>, SweepFacts',
         \A s \in SessionIds :
             /\ ses'[s] \in SessionRows
             /\ ses'[s].family = ses[s].family /\ ses'[s].next = ses[s].next
             /\ ses[s].status = "none" => ses'[s] = ses[s]
             /\ ses[s].status # "none" => ses'[s].status # "none"
             /\ ses'[s].status = "live" => ses[s].status = "live"
  PROVE  SesIInv'
<1>1. ASSUME NEW s \in SessionIds PROVE SessionFacts(s)'
  <2>1. SessionFacts(s) /\ (ses[s].next # 0 => ses[s].next \in SessionIds)
    BY DEF SesIInv, SessionFacts, SessionRows
  <2>2. ses[s].status \in {"none", "live", "revoked"} /\ ses'[s].status \in {"none", "live", "revoked"}
    BY <2>1 DEF SessionFacts, SessionRows
  <2> QED BY <2>1, <2>2 DEF SessionFacts
<1>2. \A w \in swaps' : SwapFacts(w)' BY DEF SesIInv, SwapFacts
<1>3. ASSUME NEW f \in sesGhost'.closed PROVE ClosedFacts(f)'
  <2>1. ClosedFacts(f) BY DEF SesIInv
  <2>2. \A w \in swaps : w.old \in SessionIds BY DEF SesIInv, SwapFacts
  <2> QED BY <2>1, <2>2 DEF ClosedFacts
<1> QED BY <1>1, <1>2, <1>3 DEF SesIInv

LEMMA StepSweepEnds == ASSUME SesIInv, SweepEnds PROVE SesIInv'
<1>1. /\ sweep.on /\ sweep.rows \subseteq SessionIds /\ UNCHANGED swaps /\ sweep' = NoSweep
      /\ ses' = [s \in SessionIds |-> IF s \in sweep.rows THEN [ses[s] EXCEPT !.status = "revoked"]
                                      ELSE ses[s]]
  BY DEF SweepEnds, SesIInv, SweepFacts
<1>2. PICK new : /\ sesGhost' = [closed |-> sesGhost.closed \cup new, reused |-> sesGhost.reused]
                 /\ \A f \in new : /\ ~sweep.overlapped
                                   /\ \E s \in sweep.rows : ses[s].family = f
                                   /\ \A s \in Live \ sweep.rows : ses[s].family # f
  <2>1. CASE sweep.overlapped
    <3>1. sesGhost' = sesGhost BY <2>1 DEF SweepEnds
    <3>2. PICK new : new = {} OBVIOUS
    <3>3. sesGhost' = [closed |-> sesGhost.closed \cup new, reused |-> sesGhost.reused]
      BY <3>1, <3>2 DEF SesIInv
    <3>4. \A f \in new : FALSE BY <3>2
    <3> QED BY <3>3, <3>4
  <2>2. CASE ~sweep.overlapped
    <3> DEFINE families == {ses[s].family : s \in sweep.rows}
               left == {ses[s].family : s \in Live \ sweep.rows}
    <3>1. sesGhost' = [sesGhost EXCEPT !.closed = @ \cup (families \ left)]
      BY <2>2 DEF SweepEnds
    <3>2. \A f \in families \ left : /\ \E s \in sweep.rows : ses[s].family = f
                                    /\ \A s \in Live \ sweep.rows : ses[s].family # f
      OBVIOUS
    <3> HIDE DEF families, left
    <3>3. sesGhost' = [closed |-> sesGhost.closed \cup (families \ left), reused |-> sesGhost.reused]
      BY <3>1 DEF SesIInv
    <3> QED BY <2>2, <3>2, <3>3
  <2> QED BY <2>1, <2>2
<1>3. ASSUME NEW s \in SessionIds
      PROVE  /\ ses'[s] \in SessionRows
             /\ ses'[s].family = ses[s].family /\ ses'[s].next = ses[s].next
             /\ ses[s].status = "none" => ses'[s] = ses[s]
             /\ ses[s].status # "none" => ses'[s].status # "none"
             /\ ses'[s].status = "live" => ses[s].status = "live" /\ s \notin sweep.rows
  <2>1. ses[s] \in SessionRows /\ (s \in sweep.rows => ses[s].status # "none")
    BY DEF SesIInv, SessionFacts, SweepFacts
  <2>2. CASE s \in sweep.rows
    <3>1. ses'[s] = [ses[s] EXCEPT !.status = "revoked"] BY <1>1, <2>2
    <3>2. [ses[s] EXCEPT !.status = "revoked"] \in SessionRows BY <2>1 DEF SessionRows
    <3>3. ses'[s].status = "revoked" /\ ses'[s].family = ses[s].family /\ ses'[s].next = ses[s].next
      BY <2>1, <3>1 DEF SessionRows
    <3> QED BY <2>1, <2>2, <3>1, <3>2, <3>3
  <2>3. CASE s \notin sweep.rows BY <1>1, <2>1, <2>3
  <2> QED BY <2>2, <2>3
<1>4. ASSUME NEW s \in SessionIds PROVE SessionFacts(s)'
  <2>1. SessionFacts(s) /\ (ses[s].next # 0 => ses[s].next \in SessionIds)
    BY DEF SesIInv, SessionFacts, SessionRows
  <2>2. ses[s].status \in {"none", "live", "revoked"} /\ ses'[s].status \in {"none", "live", "revoked"}
    BY <1>3, <2>1 DEF SessionFacts, SessionRows
  <2> QED BY <1>3, <2>1, <2>2 DEF SessionFacts
<1>5. ASSUME NEW w \in swaps' PROVE SwapFacts(w)'
  <2>1. SwapFacts(w) BY <1>1 DEF SesIInv
  <2> QED BY <1>3, <2>1 DEF SwapFacts
<1>6. ASSUME NEW f \in sesGhost'.closed PROVE ClosedFacts(f)'
  <2>1. \A w \in swaps : w.old \in SessionIds BY DEF SesIInv, SwapFacts
  <2>2. CASE f \in sesGhost.closed
    <3>1. ClosedFacts(f) BY <2>2 DEF SesIInv
    <3> QED BY <1>1, <1>3, <2>1, <3>1 DEF ClosedFacts
  <2>3. CASE f \in new
    <3>1. PICK s \in sweep.rows : ses[s].family = f BY <1>2, <2>3
    <3>2. f \in SessionIds /\ ses[f].status # "none" /\ swaps = {}
      BY <1>1, <1>2, <2>3, <3>1 DEF SesIInv, SessionFacts, SweepFacts
    <3>3. ASSUME NEW r \in SessionIds, ses'[r].family = f PROVE ses'[r].status # "live"
      BY <1>2, <1>3, <2>3, <3>3 DEF Live
    <3> QED BY <1>1, <1>3, <3>2, <3>3 DEF ClosedFacts
  <2> QED BY <1>2, <2>2, <2>3
<1>7. SweepFacts' BY <1>1 DEF SweepFacts, NoSweep
<1> QED BY <1>1, <1>2, <1>4, <1>5, <1>6, <1>7 DEF SesIInv

LEMMA StepSessions == SesIInv /\ [SessionsNext]_sesVars => SesIInv'
<1> SUFFICES ASSUME SesIInv, [SessionsNext]_sesVars PROVE SesIInv'
  OBVIOUS
<1>1. CASE UNCHANGED sesVars
  BY <1>1 DEF sesVars, SesIInv, SessionFacts, SwapFacts, ClosedFacts, SweepFacts
<1>2. ASSUME NEW s \in SessionIds, RefreshRefused(s) PROVE SesIInv'
  <2>1. UNCHANGED <<ses, swaps, sweep>> BY <1>2 DEF RefreshRefused
  <2>2. sesGhost' = [closed |-> sesGhost'.closed, reused |-> sesGhost'.reused]
        /\ sesGhost'.closed = sesGhost.closed
    <3>1. sesGhost' = sesGhost \/ sesGhost' = [sesGhost EXCEPT !.reused = @ \cup {ses[s].family}]
      BY <1>2 DEF RefreshRefused
    <3> QED BY <3>1 DEF SesIInv
  <2> QED BY <2>1, <2>2 DEF SesIInv, SessionFacts, SwapFacts, ClosedFacts, SweepFacts
<1>3. ASSUME NEW s \in SessionIds, Logout(s) \/ TimeRunsOut(s) PROVE SesIInv'
  <2>1. ses[s] \in SessionRows /\ (ses[s].status = "none" => ses[s] = NoSession)
    BY DEF SesIInv, SessionFacts
  <2>2. PICK row : ses' = [ses EXCEPT ![s] = row] /\ ses[s].status # "none" /\ row \in SessionRows
                   /\ row.status # "none" /\ (row.status = "live" => ses[s].status = "live")
                   /\ row.family = ses[s].family /\ row.next = ses[s].next
                   /\ UNCHANGED <<swaps, sesGhost>> /\ UNCHANGED sweep
    <3>1. CASE ses[s].grace /\ ses' = [ses EXCEPT ![s].grace = FALSE] /\ TimeRunsOut(s)
      <4> DEFINE row == [ses[s] EXCEPT !.grace = FALSE]
      <4>1. /\ row \in SessionRows /\ row.status = ses[s].status /\ row.family = ses[s].family
            /\ row.next = ses[s].next
        BY <2>1 DEF SessionRows
      <4>2. ses[s].status # "none" BY <2>1, <3>1 DEF NoSession
      <4>3. ses' = [ses EXCEPT ![s] = row] BY <3>1
      <4> QED BY <3>1, <4>1, <4>2, <4>3 DEF TimeRunsOut
    <3>2. CASE ses[s].status = "live" /\ ses' = [ses EXCEPT ![s].expired = TRUE] /\ TimeRunsOut(s)
      <4> DEFINE row == [ses[s] EXCEPT !.expired = TRUE]
      <4>1. /\ row \in SessionRows /\ row.status = ses[s].status /\ row.family = ses[s].family
            /\ row.next = ses[s].next
        BY <2>1 DEF SessionRows
      <4>3. ses' = [ses EXCEPT ![s] = row] BY <3>2
      <4> QED BY <3>2, <4>1, <4>3 DEF TimeRunsOut
    <3>3. CASE Logout(s)
      <4> DEFINE row == [ses[s] EXCEPT !.status = "revoked"]
      <4>1. /\ row \in SessionRows /\ row.status = "revoked" /\ row.family = ses[s].family
            /\ row.next = ses[s].next
        BY <2>1 DEF SessionRows
      <4>2. ses[s].status = "live" BY <3>3 DEF Logout, Live
      <4>3. ses' = [ses EXCEPT ![s] = row] BY <3>3 DEF Logout
      <4> QED BY <3>3, <4>1, <4>2, <4>3 DEF Logout
    <3> QED BY <1>3, <3>1, <3>2, <3>3 DEF TimeRunsOut
  <2>3. DOMAIN ses' = SessionIds /\ ses'[s] = row /\ \A r \in SessionIds \ {s} : ses'[r] = ses[r]
    BY <2>2 DEF SesIInv
  <2>4. \A r \in SessionIds : ses[r] \in SessionRows BY DEF SesIInv, SessionFacts
  <2>5. SweepFacts' BY <2>2, <2>3 DEF SesIInv, SweepFacts
  <2> QED BY <2>2, <2>3, <2>4, <2>5, RowsRevoked
<1>4. ASSUME NEW w \in swaps, RefreshFails(w) PROVE SesIInv'
  <2>1. swaps' = swaps \ {w} /\ UNCHANGED <<ses, sweep, sesGhost>> BY <1>4 DEF RefreshFails
  <2> QED BY <2>1 DEF SesIInv, SessionFacts, SwapFacts, ClosedFacts, SweepFacts
<1>5. ASSUME NEW spared \in SUBSET SessionIds, RevokeAll(spared) PROVE SesIInv'
  <2>1. /\ sweep' = [on |-> TRUE, rows |-> Live \ spared, overlapped |-> swaps # {}]
        /\ UNCHANGED <<ses, swaps, sesGhost>>
    BY <1>5 DEF RevokeAll, SweepOver
  <2>2. /\ sweep'.on /\ sweep'.overlapped = (swaps # {}) /\ sweep'.rows = Live \ spared
        /\ sweep' \in [on : BOOLEAN, rows : SUBSET SessionIds, overlapped : BOOLEAN]
    BY <2>1 DEF Live
  <2>3. SweepFacts' BY <2>1, <2>2 DEF SweepFacts, Live
  <2> QED BY <2>1, <2>3 DEF SesIInv, SessionFacts, SwapFacts, ClosedFacts
<1> QED
  BY <1>1, <1>2, <1>3, <1>4, <1>5, StepOpensSession, StepRefreshBegins, StepRefreshCommits,
     StepSweepEnds DEF SessionsNext

LEMMA SessionsAreRight == SesIInv => SessionsInv
<1> SUFFICES ASSUME SesIInv PROVE SessionsInv
  OBVIOUS
<1>1. SessionsTypeOK
  BY DEF SesIInv, SessionFacts, SessionRows, SwapFacts, SweepFacts, SessionsTypeOK
<1>2. ClosedStaysOut BY DEF SesIInv, ClosedFacts, ClosedStaysOut, Live
<1> QED BY <1>1, <1>2 DEF SessionsInv

\* A family of sessions that was revoked as a whole, with no refresh under way, does not come back,
\* whatever token of it is presented in its grace.
THEOREM ClosedFamiliesStayOut == SessionsSpec => []SessionsInv
<1>1. SessionsInit => SesIInv BY InitSessions
<1>2. SesIInv /\ [SessionsNext]_sesVars => SesIInv' BY StepSessions
<1>3. SesIInv => SessionsInv BY SessionsAreRight
<1> QED BY <1>1, <1>2, <1>3, PTL DEF SessionsSpec

-----------------------------------------------------------------------------
(* FeatureFlags: an entry of the cache that no write is about to clear and *)
(* that is not marked was taken from the rows as they are.                 *)
Boughts == [sub : Subscriptions, grant : BOOLEAN]
EntRows == [mode : {"full", "read_only"}, source : {"none", "stripe", "manual_grant"},
            levels : {NoLevels, PlanLevels}, before : {NoLevels, PlanLevels}]
Entries == [flags : SUBSET Features, known : BOOLEAN, late : BOOLEAN]

Updates(pcs) == [pc : pcs, kind : {"update"}, feature : Features, value : BOOLEAN]
Afters == {NoFlagTask} \cup Updates({"toggles"})
AtRest == {"idle", "row", "overrides", "cache", "toggles"}

TaskFacts(k) ==
    /\ k.pc \in AtRest \cup {"switches", "delete", "commit"}
    /\ k.pc = "row" => k \in [pc : {"row"}, kind : {"get"}] \cup Updates({"row"})
    /\ k.pc \in {"overrides", "cache"} => k.after \in Afters
    /\ k.pc = "toggles" => k \in Updates({"toggles"})
    /\ k.pc = "switches" => k \in Updates({"switches"})
    /\ k.pc = "commit" => k.change \in EntChanges /\ k.read \in Boughts

RowsTyped ==
    /\ toggle \in [Features -> BOOLEAN] /\ switch \in [Features -> {Unset, "on", "off"}]
    /\ bought \in Boughts /\ entRow \in EntRows /\ override \in [Features -> GivenLevels]
    /\ entRow.mode = "full" /\ entRow.source # "manual_grant" => entRow.before = entRow.levels

TasksTyped == DOMAIN flagTask = FlagTasks /\ \A t \in FlagTasks : TaskFacts(flagTask[t])

FlagIInv ==
    /\ RowsTyped /\ TasksTyped /\ flagCache \in Entries
    /\ FlagsCurrent /\ TogglesCommute

LEMMA LevelsAreFunctions ==
  /\ NoLevels \in [Features -> GivenLevels] /\ PlanLevels \in [Features -> GivenLevels]
BY DEF NoLevels, PlanLevels, GivenLevels

LEMMA InitFlags == FlagsInit => FlagIInv
<1> SUFFICES ASSUME FlagsInit PROVE FlagIInv
  OBVIOUS
<1>1. RowsTyped
  BY LevelsAreFunctions DEF FlagsInit, RowsTyped, Boughts, EntRows, Subscriptions, Unset
<1>2. TasksTyped BY DEF FlagsInit, TasksTyped, TaskFacts, NoFlagTask, AtRest
<1>3. flagCache \in Entries /\ ~flagCache.known BY DEF FlagsInit, NoFlags, Entries
<1> QED BY <1>1, <1>2, <1>3 DEF FlagIInv, FlagsCurrent, TogglesCommute, FlagsInit

LEMMA TaskMoves ==
  ASSUME TasksTyped, NEW t \in FlagTasks, NEW k, TaskFacts(k), step(t, k)
  PROVE  /\ TasksTyped' /\ flagTask'[t] = k
         /\ \A u \in FlagTasks \ {t} : flagTask'[u] = flagTask[u]
         /\ k.pc \in AtRest /\ flagTask[t].pc \in AtRest => (Changing' <=> Changing)
         /\ k.pc \notin AtRest => Changing'
<1>1. /\ DOMAIN flagTask' = FlagTasks /\ flagTask'[t] = k
      /\ \A u \in FlagTasks \ {t} : flagTask'[u] = flagTask[u]
  BY DEF step, TasksTyped
<1>2. \A u \in FlagTasks : TaskFacts(flagTask[u]) BY DEF TasksTyped
<1>3. ASSUME NEW u \in FlagTasks PROVE TaskFacts(flagTask'[u])
  BY <1>1, <1>2
<1>4. TasksTyped' BY <1>1, <1>3 DEF TasksTyped, TaskFacts
<1>5. k.pc \in AtRest /\ flagTask[t].pc \in AtRest => (Changing' <=> Changing)
  BY <1>1 DEF Changing, AtRest
<1>6. k.pc \notin AtRest => Changing' BY <1>1 DEF Changing, TaskFacts
<1> QED BY <1>1, <1>4, <1>5, <1>6

\* A step of a request that reads: nothing that the entry is compared with changes.
LEMMA ReadingKeeps ==
  ASSUME FlagIInv, NEW t \in FlagTasks, NEW k, TaskFacts(k), step(t, k),
         k.pc \in AtRest, flagTask[t].pc \in AtRest,
         UNCHANGED <<toggle, switch, bought, entRow, override, flagCache, askedFor>>
  PROVE  FlagIInv'
<1>1. TasksTyped' /\ (Changing' <=> Changing) BY TaskMoves DEF FlagIInv
<1>2. RowsTyped' BY DEF FlagIInv, RowsTyped
<1>3. Row' = Row /\ FlagsOf(Row, override)' = FlagsOf(Row, override)
  BY DEF Row, FlagsOf, FlagOn, PlanDecides, HistoricalLevel, ActiveLevel
<1>4. FlagsCurrent' BY <1>1, <1>3 DEF FlagIInv, FlagsCurrent
<1> QED BY <1>1, <1>2, <1>4 DEF FlagIInv, TogglesCommute

\* A step after which the entry is gone, marked, or about to be cleared.
LEMMA WritingKeeps ==
  ASSUME FlagIInv, NEW t \in FlagTasks, NEW k, TaskFacts(k), step(t, k), RowsTyped', TogglesCommute',
         flagCache' \in Entries,
         \/ k.pc \notin AtRest \/ ~flagCache'.known \/ flagCache'.late
  PROVE  FlagIInv'
<1>1. TasksTyped' /\ (k.pc \notin AtRest => Changing') BY TaskMoves DEF FlagIInv
<1>2. FlagsCurrent' BY <1>1 DEF FlagsCurrent
<1> QED BY <1>1, <1>2 DEF FlagIInv

LEMMA AfterIsTask == \A k \in Afters : TaskFacts(k) /\ k.pc \in AtRest
BY DEF Afters, Updates, NoFlagTask, TaskFacts, AtRest

LEMMA AfterGetIsAfter ==
  /\ \A k \in [pc : {"look", "row"}, kind : {"get"}] : AfterGet(k) \in Afters
  /\ \A k \in Updates({"look", "row"}) : AfterGet(k) \in Afters
<1>1. \A k \in Updates({"look", "row"}) : [k EXCEPT !.pc = "toggles"] \in Updates({"toggles"})
  BY DEF Updates
<1>2. \A k \in Updates({"look", "row"}) : k.kind = "update" BY DEF Updates
<1> QED BY <1>1, <1>2 DEF AfterGet, Afters

LEMMA StepLook ==
  ASSUME FlagIInv, NEW t \in FlagTasks, NEW k, LookInCache(t, k),
         k \in [pc : {"look"}, kind : {"get"}] \/ k \in Updates({"look"})
  PROVE  FlagIInv'
<1>1. [k EXCEPT !.pc = "row"] \in [pc : {"row"}, kind : {"get"}] \cup Updates({"row"})
  BY DEF Updates
<1>2. [k EXCEPT !.pc = "row"].pc = "row" BY <1>1 DEF Updates
<1>3. PICK to : to = [k EXCEPT !.pc = "row"] OBVIOUS
<1>4. TaskFacts(to) /\ to.pc \in AtRest
  BY <1>1, <1>2, <1>3 DEF TaskFacts, AtRest
<1>5. AfterGet(k) \in Afters BY AfterGetIsAfter DEF Updates
<1>6. PICK n : n = (IF flagCache.known THEN AfterGet(k) ELSE to) OBVIOUS
<1>7. TaskFacts(n) /\ n.pc \in AtRest BY <1>4, <1>5, <1>6, AfterIsTask
<1>8. /\ step(t, n) /\ flagTask[t].pc = "idle"
      /\ UNCHANGED <<toggle, switch, bought, entRow, override, flagCache, askedFor>>
  BY <1>3, <1>6 DEF LookInCache, Begins
<1>9. "idle" \in AtRest BY DEF AtRest
<1> QED BY <1>7, <1>8, <1>9, ReadingKeeps

LEMMA StepReads ==
  ASSUME FlagIInv, NEW t \in FlagTasks,
         BeginGet(t) \/ BeginUpdate(t) \/ ReadRow(t) \/ ReadOverrides(t)
  PROVE  FlagIInv'
<1>1. TaskFacts(flagTask[t]) BY DEF FlagIInv, TasksTyped
<1>2. CASE BeginGet(t)
  <2>1. [pc |-> "look", kind |-> "get"] \in [pc : {"look"}, kind : {"get"}] OBVIOUS
  <2> QED BY <1>2, <2>1, StepLook DEF BeginGet
<1>3. CASE BeginUpdate(t)
  <2>1. PICK f \in Features, v \in BOOLEAN :
          LookInCache(t, [pc |-> "look", kind |-> "update", feature |-> f, value |-> v])
    BY <1>3 DEF BeginUpdate
  <2>2. [pc |-> "look", kind |-> "update", feature |-> f, value |-> v] \in Updates({"look"})
    BY DEF Updates
  <2> QED BY <2>1, <2>2, StepLook
<1>4. CASE ReadRow(t)
  <2>1. PICK k : k = [pc |-> "overrides", row |-> Row, after |-> AfterGet(flagTask[t])] OBVIOUS
  <2>2. AfterGet(flagTask[t]) \in Afters
    BY <1>1, <1>4, AfterGetIsAfter DEF ReadRow, TaskFacts, Updates
  <2>3. k.pc = "overrides" /\ k.after \in Afters BY <2>1, <2>2
  <2>4. TaskFacts(k) /\ k.pc \in AtRest BY <2>3 DEF TaskFacts, AtRest
  <2>5. step(t, k) /\ flagTask[t].pc \in AtRest BY <1>4, <2>1 DEF ReadRow, AtRest
  <2> QED BY <1>4, <2>4, <2>5, ReadingKeeps DEF ReadRow
<1>5. CASE ReadOverrides(t)
  <2>1. PICK k : k = [pc |-> "cache", row |-> flagTask[t].row, over |-> override,
                      after |-> flagTask[t].after]
    OBVIOUS
  <2>2. k.pc = "cache" /\ k.after \in Afters BY <1>1, <1>5, <2>1 DEF ReadOverrides, TaskFacts
  <2>4. TaskFacts(k) /\ k.pc \in AtRest BY <2>2 DEF TaskFacts, AtRest
  <2>5. step(t, k) /\ flagTask[t].pc \in AtRest BY <1>5, <2>1 DEF ReadOverrides, AtRest
  <2> QED BY <1>5, <2>4, <2>5, ReadingKeeps DEF ReadOverrides
<1> QED BY <1>2, <1>3, <1>4, <1>5

LEMMA StepSetCache == ASSUME FlagIInv, NEW t \in FlagTasks, SetCache(t) PROVE FlagIInv'
<1> DEFINE k == flagTask[t]
<1>1. /\ k.pc = "cache" /\ step(t, k.after)
      /\ flagCache' = [flags |-> FlagsOf(k.row, k.over), known |-> TRUE,
                       late |-> k.row # Row \/ k.over # override]
      /\ UNCHANGED <<toggle, switch, bought, entRow, override, askedFor>>
  BY DEF SetCache
<1>2. k.after \in Afters BY <1>1 DEF FlagIInv, TasksTyped, TaskFacts
<1>3. PICK after : after = k.after OBVIOUS
<1>4. TasksTyped'
  <2>1. TaskFacts(after) /\ step(t, after) BY <1>1, <1>2, <1>3, AfterIsTask
  <2> QED BY <2>1, TaskMoves DEF FlagIInv
<1>5. FlagsOf(k.row, k.over) \subseteq Features BY DEF FlagsOf
<1>6. PICK b \in BOOLEAN : b = (k.row # Row \/ k.over # override) OBVIOUS
<1>7. PICK flags : flags = FlagsOf(k.row, k.over) OBVIOUS
<1>8. flagCache' \in Entries /\ flagCache'.flags = flags /\ flagCache'.late = b
  BY <1>1, <1>5, <1>6, <1>7 DEF Entries
<1>9. RowsTyped' /\ Row' = Row BY <1>1 DEF FlagIInv, RowsTyped, Row
<1>10. FlagsOf(Row, override)' = FlagsOf(Row, override)
  BY <1>1 DEF Row, FlagsOf, FlagOn, PlanDecides, HistoricalLevel, ActiveLevel
<1>11. FlagsCurrent'
  <2>1. CASE b BY <1>8, <2>1 DEF FlagsCurrent
  <2>2. CASE ~b
    <3>1. flags = FlagsOf(Row, override) BY <1>6, <1>7, <2>2
    <3> QED BY <1>8, <1>10, <3>1 DEF FlagsCurrent
  <2> QED BY <2>1, <2>2
<1>12. TogglesCommute' BY <1>1 DEF FlagIInv, TogglesCommute
<1> QED BY <1>4, <1>8, <1>9, <1>11, <1>12 DEF FlagIInv

LEMMA StepWrites ==
  ASSUME FlagIInv, NEW t \in FlagTasks, WriteToggle(t) \/ WriteSwitch(t) \/ SetOverride(t)
  PROVE  FlagIInv'
<1>1. TaskFacts(flagTask[t]) BY DEF FlagIInv, TasksTyped
<1>2. flagCache \in Entries BY DEF FlagIInv
<1>3. CASE WriteToggle(t)
  <2>1. flagTask[t] \in Updates({"toggles"}) BY <1>1, <1>3 DEF WriteToggle, TaskFacts
  <2>2. PICK k : k = [flagTask[t] EXCEPT !.pc = "switches"] OBVIOUS
  <2>3. k \in Updates({"switches"}) /\ k.pc = "switches" BY <2>1, <2>2 DEF Updates
  <2>4. TaskFacts(k) /\ k.pc \notin AtRest BY <2>3 DEF TaskFacts, AtRest
  <2>5. PICK f \in Features, v \in BOOLEAN :
          /\ toggle' = [toggle EXCEPT ![f] = v] /\ askedFor' = [askedFor EXCEPT ![f] = v]
          /\ step(t, k)
    BY <1>3, <2>1, <2>2 DEF WriteToggle, Written, Updates
  <2>6. toggle' \in [Features -> BOOLEAN] /\ TogglesCommute'
    BY <2>5 DEF FlagIInv, RowsTyped, TogglesCommute
  <2>7. UNCHANGED <<switch, bought, entRow, override, flagCache>> BY <1>3 DEF WriteToggle
  <2>8. RowsTyped' BY <2>6, <2>7 DEF FlagIInv, RowsTyped
  <2> QED BY <1>2, <2>4, <2>5, <2>6, <2>7, <2>8, WritingKeeps
<1>4. CASE WriteSwitch(t)
  <2>1. flagTask[t] \in Updates({"switches"}) BY <1>1, <1>4 DEF WriteSwitch, TaskFacts
  <2>2. PICK k : k = [pc |-> "delete"] OBVIOUS
  <2>3. k.pc = "delete" /\ step(t, k) BY <1>4, <2>2 DEF WriteSwitch
  <2>4. TaskFacts(k) /\ k.pc \notin AtRest BY <2>3 DEF TaskFacts, AtRest
  <2>5. PICK f \in Features, s \in {"on", "off"} : switch' = [switch EXCEPT ![f] = s]
    BY <1>4, <2>1 DEF WriteSwitch, Updates
  <2>6. switch' \in [Features -> {Unset, "on", "off"}] BY <2>5 DEF FlagIInv, RowsTyped
  <2>7. UNCHANGED <<toggle, bought, entRow, override, flagCache, askedFor>>
    BY <1>4 DEF WriteSwitch
  <2>8. RowsTyped' /\ TogglesCommute' BY <2>6, <2>7 DEF FlagIInv, RowsTyped, TogglesCommute
  <2> QED BY <1>2, <2>3, <2>4, <2>7, <2>8, WritingKeeps
<1>5. CASE SetOverride(t)
  <2>2. PICK k : k = [pc |-> "delete"] OBVIOUS
  <2>3. k.pc = "delete" /\ step(t, k) BY <1>5, <2>2 DEF SetOverride
  <2>4. TaskFacts(k) /\ k.pc \notin AtRest BY <2>3 DEF TaskFacts, AtRest
  <2>5. PICK f \in Features, level \in GivenLevels : override' = [override EXCEPT ![f] = level]
    BY <1>5 DEF SetOverride
  <2>6. override' \in [Features -> GivenLevels] BY <2>5 DEF FlagIInv, RowsTyped
  <2>7. UNCHANGED <<toggle, switch, bought, entRow, flagCache, askedFor>>
    BY <1>5 DEF SetOverride
  <2>8. RowsTyped' /\ TogglesCommute' BY <2>6, <2>7 DEF FlagIInv, RowsTyped, TogglesCommute
  <2> QED BY <1>2, <2>3, <2>4, <2>7, <2>8, WritingKeeps
<1> QED BY <1>3, <1>4, <1>5

\* What clearing the cache leaves: nothing, or the entry that was there, marked.
LEMMA MarkedOrGone ==
  ASSUME flagCache \in Entries,
         flagCache' = NoFlags \/ flagCache' = [flagCache EXCEPT !.late = flagCache.known]
  PROVE  flagCache' \in Entries /\ (~flagCache'.known \/ flagCache'.late)
<1>1. NoFlags \in Entries /\ ~NoFlags.known BY DEF NoFlags, Entries
<1>2. PICK c : c = [flagCache EXCEPT !.late = flagCache.known] OBVIOUS
<1>3. c \in Entries /\ c.known = flagCache.known /\ c.late = flagCache.known BY <1>2 DEF Entries
<1>4. flagCache.known \in BOOLEAN BY DEF Entries
<1> QED BY <1>1, <1>2, <1>3, <1>4

LEMMA BoughtTyped == \A c \in EntChanges, b \in Boughts : Bought(c, b) \in Boughts
BY DEF EntChanges, Boughts, Bought, Subscriptions

LEMMA RecomputeTyped ==
  ASSUME NEW b \in Boughts, entRow \in EntRows
  PROVE  /\ Recompute(b) \in EntRows
         /\ Recompute(b).mode = "full" /\ Recompute(b).source # "manual_grant"
            => Recompute(b).before = Recompute(b).levels
<1>1. entRow.before \in {NoLevels, PlanLevels} BY DEF EntRows
<1> QED BY <1>1 DEF Recompute, EntRows, Boughts, Subscriptions

LEMMA StepClears ==
  ASSUME FlagIInv, NEW t \in FlagTasks, DeleteCache(t) \/ BeginRecompute(t) \/ CommitRecompute(t)
  PROVE  FlagIInv'
<1>1. TaskFacts(flagTask[t]) BY DEF FlagIInv, TasksTyped
<1>2. flagCache \in Entries BY DEF FlagIInv
<1>3. flagCache' = NoFlags \/ flagCache' = [flagCache EXCEPT !.late = flagCache.known]
  BY DEF DeleteCache, BeginRecompute, CommitRecompute, Cleared, DelRefused
<1>4. flagCache' \in Entries /\ (~flagCache'.known \/ flagCache'.late)
  BY <1>2, <1>3, MarkedOrGone
<1>5. TaskFacts(NoFlagTask) BY AfterIsTask DEF Afters
<1>6. CASE DeleteCache(t)
  <2>1. step(t, NoFlagTask) /\ UNCHANGED <<toggle, switch, bought, entRow, override, askedFor>>
    BY <1>6 DEF DeleteCache
  <2>2. RowsTyped' /\ TogglesCommute' BY <2>1 DEF FlagIInv, RowsTyped, TogglesCommute
  <2> QED BY <1>4, <1>5, <2>1, <2>2, WritingKeeps
<1>7. CASE BeginRecompute(t)
  <2>1. PICK c \in EntChanges : step(t, [pc |-> "commit", change |-> c, read |-> Bought(c, bought)])
    BY <1>7 DEF BeginRecompute
  <2>2. PICK k : k = [pc |-> "commit", change |-> c, read |-> Bought(c, bought)] OBVIOUS
  <2>3. k.pc = "commit" /\ k.change \in EntChanges /\ k.read \in Boughts
    BY <2>2, BoughtTyped DEF FlagIInv, RowsTyped
  <2>4. TaskFacts(k) /\ step(t, k) BY <2>1, <2>2, <2>3 DEF TaskFacts, AtRest
  <2>5. UNCHANGED <<toggle, switch, bought, entRow, override, askedFor>>
    BY <1>7 DEF BeginRecompute
  <2>6. RowsTyped' /\ TogglesCommute' BY <2>5 DEF FlagIInv, RowsTyped, TogglesCommute
  <2> QED BY <1>4, <2>4, <2>6, WritingKeeps
<1>8. CASE CommitRecompute(t)
  <2>1. flagTask[t].change \in EntChanges /\ flagTask[t].read \in Boughts
    BY <1>1, <1>8 DEF CommitRecompute, TaskFacts
  <2>2. /\ bought' = Bought(flagTask[t].change, bought) /\ entRow' = Recompute(flagTask[t].read)
        /\ step(t, NoFlagTask) /\ UNCHANGED <<toggle, switch, override, askedFor>>
    BY <1>8 DEF CommitRecompute
  <2>3. bought' \in Boughts BY <2>1, <2>2, BoughtTyped DEF FlagIInv, RowsTyped
  <2>4. /\ entRow' \in EntRows
        /\ entRow'.mode = "full" /\ entRow'.source # "manual_grant" => entRow'.before = entRow'.levels
    BY <2>1, <2>2, RecomputeTyped DEF FlagIInv, RowsTyped
  <2>5. EntRows' = EntRows /\ Boughts' = Boughts
    BY DEF EntRows, Boughts, NoLevels, PlanLevels, Subscriptions
  <2>6. RowsTyped' BY <2>2, <2>3, <2>4, <2>5 DEF FlagIInv, RowsTyped
  <2>7. TogglesCommute' BY <2>2 DEF FlagIInv, TogglesCommute
  <2> QED BY <1>4, <1>5, <2>2, <2>6, <2>7, WritingKeeps
<1> QED BY <1>6, <1>7, <1>8

LEMMA StepFlags == FlagIInv /\ [FlagsNext]_flagVars => FlagIInv'
<1> SUFFICES ASSUME FlagIInv, [FlagsNext]_flagVars PROVE FlagIInv'
  OBVIOUS
<1>1. CASE UNCHANGED <<toggle, switch, entRow, override, flagTask, askedFor>> /\ bought' \in Boughts
           /\ (flagCache' = flagCache \/ flagCache' = NoFlags)
  <2>1. RowsTyped' /\ TasksTyped' BY <1>1 DEF FlagIInv, RowsTyped, TasksTyped, TaskFacts
  <2>2. flagCache' \in Entries
    <3>1. NoFlags \in Entries BY DEF NoFlags, Entries
    <3> QED BY <1>1, <3>1 DEF FlagIInv, Entries
  <2>3. FlagsOf(Row, override)' = FlagsOf(Row, override)
    BY <1>1 DEF Row, FlagsOf, FlagOn, PlanDecides, HistoricalLevel, ActiveLevel
  <2>4. (Changing' <=> Changing) /\ TogglesCommute'
    BY <1>1 DEF Changing, FlagIInv, TogglesCommute
  <2>5. FlagsCurrent' BY <1>1, <2>3, <2>4 DEF FlagIInv, FlagsCurrent, NoFlags
  <2> QED BY <2>1, <2>2, <2>4, <2>5 DEF FlagIInv
<1>2. bought \in Boughts BY DEF FlagIInv, RowsTyped
<1>3. CASE AccessEnds
  <2>1. bought' \in Boughts BY <1>2, <1>3 DEF AccessEnds, Boughts, Subscriptions
  <2> QED BY <1>1, <1>3, <2>1 DEF AccessEnds
<1>4. CASE CacheExpires BY <1>1, <1>2, <1>4 DEF CacheExpires
<1>5. CASE UNCHANGED flagVars BY <1>1, <1>2, <1>5 DEF flagVars
<1>6. ASSUME NEW t \in FlagTasks, FlagTaskStep(t) PROVE FlagIInv'
  BY <1>6, StepReads, StepSetCache, StepWrites, StepClears DEF FlagTaskStep
<1> QED BY <1>3, <1>4, <1>5, <1>6 DEF FlagsNext

LEMMA FlagsAreRight == FlagIInv => FlagsInv
<1> SUFFICES ASSUME FlagIInv PROVE FlagsInv
  OBVIOUS
<1>1. FlagsTypeOK
  <2>1. \A t \in FlagTasks : flagTask[t].pc \in {"idle", "row", "overrides", "cache", "toggles",
                                                "switches", "delete", "commit"}
    BY DEF FlagIInv, TasksTyped, TaskFacts, AtRest
  <2>2. flagCache.flags \subseteq Features BY DEF FlagIInv, Entries
  <2> QED BY <2>1, <2>2 DEF FlagIInv, RowsTyped, FlagsTypeOK, Boughts, EntRows
<1>2. GateAgrees
  <2> SUFFICES ASSUME ~Lapsed, NEW f \in Features
               PROVE  FlagOn(f, Row, override) = LetThrough(f, TRUE)
    BY DEF GateAgrees
  <2>1. /\ Row.ent = entRow /\ Row.switch = switch /\ Row.toggle = toggle BY DEF Row
  <2>2. PICK known, active : /\ known = HistoricalLevel(f, Row, override)
                              /\ active = ActiveLevel(f, Row, override)
    OBVIOUS
  <2>3. /\ override[f] \in GivenLevels /\ entRow.levels[f] \in {Unset, "full"}
        /\ entRow.before[f] \in {Unset, "full"} /\ toggle[f] \in BOOLEAN
    BY DEF FlagIInv, RowsTyped, EntRows, NoLevels, PlanLevels
  <2>4. known \in GivenLevels /\ active \in GivenLevels /\ (active # Unset => known = active)
    BY <2>1, <2>2, <2>3 DEF HistoricalLevel, ActiveLevel, GivenLevels
  <2>5. PlanDecides(Row) /\ active = Unset => known = Unset
    BY <2>1, <2>2, <2>3 DEF HistoricalLevel, ActiveLevel, PlanDecides, FlagIInv, RowsTyped
  <2>6. PlanDecides(Row) => FullyEntitled BY <2>1 DEF PlanDecides, FullyEntitled
  <2>7. FlagOn(f, Row, override) <=>
          /\ switch[f] # "off"
          /\ IF PlanDecides(Row) THEN active \notin {Unset, "none"}
             ELSE IF known = Unset THEN toggle[f] ELSE known # "none"
    BY <2>1, <2>2 DEF FlagOn, Unset
  <2>8. LetThrough(f, TRUE) <=>
          /\ switch[f] # "off"
          /\ IF known # Unset THEN known # "none"
             ELSE ~(FullyEntitled /\ PlanDecides(Row)) /\ toggle[f]
    BY <2>2, <2>3, <2>4 DEF LetThrough, LevelOf, GivenLevels, Unset
  <2> QED BY <2>3, <2>4, <2>5, <2>6, <2>7, <2>8 DEF FlagOn, LetThrough
<1> QED BY <1>1, <1>2 DEF FlagIInv, FlagsInv

\* The flags that are cached are those of the rows outside the three cases that end with the 60
\* seconds of the entry, toggles of different features commute, and the panel shows as on exactly
\* the features the API lets through.
THEOREM FlagsFollowRows == FlagsSpec => []FlagsInv
<1>1. FlagsInit => FlagIInv BY InitFlags
<1>2. FlagIInv /\ [FlagsNext]_flagVars => FlagIInv' BY StepFlags
<1>3. FlagIInv => FlagsInv BY FlagsAreRight
<1> QED BY <1>1, <1>2, <1>3, PTL DEF FlagsSpec

-----------------------------------------------------------------------------
(* BrowserTabs: whoever waits for the answer to a rotation has the lock;   *)
(* in the only tab that is open the token is of the account of the cookie, *)
(* and so is the page outside a transition that has not heard from /me.    *)
MaybeAccount == Accounts \cup {NoAccount}
Ops == {"none", "load", "reload", "login", "switch", "accept", "logout"}
Steps == {"none", "waits", "refresh", "post", "me", "itself"}
Doings == [op : Ops, acct : MaybeAccount, at : Steps]
Rotations == [at : {"none", "lock", "post", "over"}, newer : BOOLEAN, sent : MaybeAccount, ok : BOOLEAN]

OpFacts(d) ==
    /\ d \in Doings
    /\ d.op \in {"login", "switch", "accept"} => d.acct \in Accounts
    /\ d.op = "none" => d.at = "none"

Queued(d) == OpFacts(d) /\ d.at \in {"none", "waits", "refresh"}

TabFacts(t) ==
    /\ token[t] \in [acct : MaybeAccount, fresh : BOOLEAN]
    /\ token[t] = NoToken \/ token[t].acct \in Accounts
    /\ shown[t] \in MaybeAccount /\ half[t] \in BOOLEAN /\ news[t] \in Seq(Accounts)
    /\ OpFacts(doing[t]) /\ Queued(next[t])
    /\ rotation[t] \in Rotations
    /\ rotation[t].at = "post" => lockedBy = t
    /\ doing[t].at \in {"post", "me", "itself"} => rotation[t].at = "none"

Shut(t) ==
    /\ token[t] = NoToken /\ shown[t] = NoAccount /\ doing[t] = Nothing /\ next[t] = Nothing
    /\ rotation[t] = NoRotation /\ news[t] = <<>>

AloneFacts(t) ==
    /\ news[t] = <<>>
    /\ token[t] # NoToken => cookie = token[t].acct
    /\ rotation[t].at = "post" => rotation[t].sent = cookie
    /\ shown[t] # NoAccount => \/ shown[t] = cookie \/ half[t]
                               \/ doing[t].at = "me" /\ doing[t].op \notin Reloads

Tabled == \A f \in {token, shown, doing, next, rotation, news, half} : DOMAIN f = Tabs

TabIInv ==
    /\ cookie \in MaybeAccount /\ opened \subseteq Tabs /\ lockedBy \in Tabs \cup {NoTab}
    /\ opened # {} => FirstTab \in opened
    /\ Tabled
    /\ \A t \in Tabs : TabFacts(t) /\ (t \notin opened => Shut(t))
    /\ opened \subseteq {FirstTab} => AloneFacts(FirstTab)

LEMMA NothingIsQueued ==
  /\ Queued(Nothing) /\ NoRotation \in Rotations
  /\ NoToken \in [acct : MaybeAccount, fresh : BOOLEAN]
BY DEF Queued, OpFacts, Nothing, Doings, Ops, Steps, MaybeAccount, NoRotation, Rotations, NoToken

LEMMA InitTabs == TabsInit => TabIInv
<1> SUFFICES ASSUME TabsInit PROVE TabIInv
  OBVIOUS
<1>1. Tabled BY DEF TabsInit, Tabled
<1>2. /\ cookie \in MaybeAccount /\ opened = {} /\ lockedBy = NoTab
      /\ \A t \in Tabs : /\ token[t] = NoToken /\ shown[t] = NoAccount /\ doing[t] = Nothing
                         /\ next[t] = Nothing /\ rotation[t] = NoRotation /\ news[t] = <<>>
                         /\ half[t] = FALSE
  BY DEF TabsInit, MaybeAccount
<1>3. ASSUME NEW t \in Tabs PROVE TabFacts(t) /\ Shut(t)
  <2>1. <<>> \in Seq(Accounts) /\ NoAccount \in MaybeAccount BY DEF MaybeAccount
  <2>2. NoRotation.at = "none" /\ Queued(Nothing) BY NothingIsQueued DEF NoRotation
  <2> QED BY <1>2, <2>1, <2>2, NothingIsQueued DEF TabFacts, Shut, Queued
<1>4. AloneFacts(FirstTab)
  BY <1>2, TabConstants DEF AloneFacts, NoRotation
<1> QED BY <1>1, <1>2, <1>3, <1>4 DEF TabIInv

\* A step of one open tab: the others hear of it at most by a broadcast.
OnlyTab(t) ==
    /\ Tabled' /\ UNCHANGED opened
    /\ \A u \in Tabs \ {t} :
        /\ token'[u] = token[u] /\ shown'[u] = shown[u] /\ doing'[u] = doing[u]
        /\ next'[u] = next[u] /\ rotation'[u] = rotation[u] /\ half'[u] = half[u]
        /\ \/ news'[u] = news[u]
           \/ u \in opened /\ \E a \in Accounts : news'[u] = Append(news[u], a)

LEMMA TabMoves ==
  ASSUME TabIInv, NEW t \in opened, OnlyTab(t), TabFacts(t)',
         cookie' \in MaybeAccount, lockedBy' \in Tabs \cup {NoTab},
         lockedBy \in Tabs \ {t} => lockedBy' = lockedBy,
         opened \subseteq {t} /\ AloneFacts(t) => AloneFacts(t)'
  PROVE  TabIInv'
<1>1. t \in Tabs BY DEF TabIInv
<1>2. ASSUME NEW u \in Tabs, u # t PROVE TabFacts(u)' /\ (u \notin opened' => Shut(u)')
  <2>1. TabFacts(u) /\ (u \notin opened => Shut(u)) BY DEF TabIInv
  <2>2. news'[u] \in Seq(Accounts)
    <3>1. news[u] \in Seq(Accounts) BY <2>1 DEF TabFacts
    <3>2. CASE news'[u] = news[u] BY <3>1, <3>2
    <3>3. CASE news'[u] # news[u]
      <4>1. PICK a \in Accounts : news'[u] = Append(news[u], a) BY <1>2, <3>3 DEF OnlyTab
      <4> QED BY <3>1, <4>1
    <3> QED BY <3>2, <3>3
  <2>3. TabFacts(u)' BY <1>2, <2>1, <2>2 DEF OnlyTab, TabFacts
  <2>4. u \notin opened' => Shut(u)' BY <1>2, <2>1 DEF OnlyTab, Shut
  <2> QED BY <2>3, <2>4
<1>3. opened' \subseteq {FirstTab} => AloneFacts(FirstTab)'
  <2> SUFFICES ASSUME opened \subseteq {FirstTab} PROVE AloneFacts(FirstTab)'
    BY DEF OnlyTab
  <2>1. t = FirstTab OBVIOUS
  <2> QED BY <2>1 DEF TabIInv
<1> QED BY <1>1, <1>2, <1>3 DEF TabIInv, OnlyTab

QueueMoved(t) ==
    /\ DOMAIN doing' = Tabs /\ DOMAIN next' = Tabs
    /\ \A u \in Tabs \ {t} : doing'[u] = doing[u] /\ next'[u] = next[u]
    /\ OpFacts(doing'[t]) /\ Queued(next'[t])

LEMMA QueueLeft ==
  ASSUME TabIInv, NEW t \in Tabs, Leaves(t) \/ LeavesRefused(t)
  PROVE  QueueMoved(t) /\ doing'[t].at \in {"none", "waits", "refresh"}
<1>1. Queued(next[t]) /\ DOMAIN doing = Tabs /\ DOMAIN next = Tabs
  BY DEF TabIInv, TabFacts, Tabled
<1>2. Queued(Reload)
  <2>1. Nothing \in Doings BY NothingIsQueued DEF Queued, OpFacts
  <2>2. Reload \in Doings /\ Reload.op = "reload" /\ Reload.at = "refresh"
    BY <2>1 DEF Reload, Doings, Ops, Steps
  <2> QED BY <2>2 DEF Queued, OpFacts
<1>3. CASE Leaves(t) BY <1>1, <1>3, NothingIsQueued DEF Leaves, QueueMoved, Queued
<1>4. CASE doing' = [doing EXCEPT ![t] = Reload] /\ UNCHANGED next
  BY <1>1, <1>2, <1>4 DEF QueueMoved, Queued
<1> QED BY <1>3, <1>4 DEF LeavesRefused

LEMMA QueueEntered ==
  ASSUME TabIInv, NEW t \in Tabs, NEW op \in Ops \ {"none"}, NEW a \in MaybeAccount,
         op \in {"login", "switch", "accept"} => a \in Accounts, Enters(t, op, a)
  PROVE  /\ QueueMoved(t)
         /\ doing'[t] = doing[t] \/ (doing[t].op = "none" /\ doing'[t].at \in {"waits", "refresh"})
<1> DEFINE it == [op |-> op, acct |-> a, at |-> IF op \in Reloads THEN "refresh" ELSE "waits"]
<1>1. it.at \in {"waits", "refresh"} /\ Queued(it)
  BY DEF Queued, OpFacts, Doings, Ops, Steps, Reloads
<1>2. OpFacts(doing[t]) /\ Queued(next[t]) /\ DOMAIN doing = Tabs /\ DOMAIN next = Tabs
  BY DEF TabIInv, TabFacts, Tabled
<1>3. \/ doing[t].op = "none" /\ doing' = [doing EXCEPT ![t] = it] /\ next' = next
      \/ doing' = doing /\ (next' = next \/ next' = [next EXCEPT ![t] = it])
  BY DEF Enters, Busy
<1> HIDE DEF it
<1> QED BY <1>1, <1>2, <1>3 DEF QueueMoved, Queued

LEMMA QueueGoes ==
  ASSUME TabIInv, NEW t \in Tabs, NEW s \in Steps, doing[t].op # "none", GoesTo(t, s)
  PROVE  QueueMoved(t) /\ doing'[t].at = s /\ doing'[t].op = doing[t].op
<1>1. OpFacts(doing[t]) /\ Queued(next[t]) /\ DOMAIN doing = Tabs BY DEF TabIInv, TabFacts, Tabled
<1>2. PICK d : d = [doing[t] EXCEPT !.at = s] OBVIOUS
<1>3. OpFacts(d) /\ d.at = s /\ d.op = doing[t].op BY <1>1, <1>2 DEF OpFacts, Doings
<1>4. doing' = [doing EXCEPT ![t] = d] /\ next' = next BY <1>2 DEF GoesTo
<1> QED BY <1>1, <1>3, <1>4 DEF QueueMoved, TabIInv, Tabled

\* What the steps of the rotation do to the rows of the rotations.
LEMMA RotationMoves ==
  ASSUME TabIInv, NEW t \in Tabs, NEW r, rotation' = [rotation EXCEPT ![t] = r]
  PROVE  /\ DOMAIN rotation' = Tabs /\ rotation'[t] = r
         /\ \A u \in Tabs \ {t} : rotation'[u] = rotation[u]
BY DEF TabIInv, Tabled

\* A step of a tab that is shut would be one it cannot take.
LEMMA StepsAreOfOpenTabs ==
  ASSUME TabIInv, NEW t \in Tabs,
         \/ doing[t].at # "none" \/ rotation[t].at # "none" \/ news[t] # <<>> \/ token[t] # NoToken
         \/ shown[t] # NoAccount \/ doing[t].op # "none"
  PROVE  t \in opened
BY DEF TabIInv, Shut, Nothing, NoRotation

LEMMA StepTakesLock == ASSUME TabIInv, NEW t \in Tabs, TakesLock(t) PROVE TabIInv'
<1>1. /\ rotation[t].at = "lock" /\ lockedBy = NoTab
      /\ UNCHANGED <<cookie, opened, token, shown, doing, next, news, half>>
  BY DEF TakesLock, LockFree
<1>2. t \in opened BY <1>1, StepsAreOfOpenTabs
<1>3. TabFacts(t) /\ Tabled /\ cookie \in MaybeAccount BY DEF TabIInv
<1>4. PICK r : /\ rotation' = [rotation EXCEPT ![t] = r] /\ r \in Rotations
               /\ \/ r.at = "over" /\ lockedBy' = lockedBy
                  \/ r.at = "post" /\ r.sent = cookie /\ lockedBy' = t
  <2>1. rotation[t] \in Rotations BY <1>3 DEF TabFacts
  <2>2. CASE token[t] # NoToken /\ rotation[t].newer
    <3> DEFINE r == [rotation[t] EXCEPT !.at = "over", !.ok = TRUE]
    <3>1. r \in Rotations /\ r.at = "over" BY <2>1 DEF Rotations
    <3>2. rotation' = [rotation EXCEPT ![t] = r] /\ lockedBy' = lockedBy
      BY <2>2, <1>3 DEF TakesLock, Tabled
    <3> QED BY <3>1, <3>2
  <2>3. CASE ~(token[t] # NoToken /\ rotation[t].newer)
    <3> DEFINE r == [rotation[t] EXCEPT !.at = "post", !.sent = cookie]
    <3>1. r \in Rotations /\ r.at = "post" /\ r.sent = cookie BY <1>3, <2>1 DEF Rotations
    <3>2. rotation' = [rotation EXCEPT ![t] = r] /\ lockedBy' = t
      BY <2>3, <1>3 DEF TakesLock, Tabled
    <3> QED BY <3>1, <3>2
  <2> QED BY <2>2, <2>3
<1>5. /\ DOMAIN rotation' = Tabs /\ rotation'[t] = r
      /\ \A u \in Tabs \ {t} : rotation'[u] = rotation[u]
  BY <1>4, RotationMoves
<1>6. OnlyTab(t) BY <1>1, <1>3, <1>5 DEF OnlyTab, Tabled
<1>7. TabFacts(t)' BY <1>1, <1>3, <1>4, <1>5 DEF TabFacts
<1>8. AloneFacts(t) => AloneFacts(t)' BY <1>1, <1>4, <1>5 DEF AloneFacts
<1>9. lockedBy \notin Tabs BY <1>1, TabConstants DEF NoTab
<1>10. cookie' \in MaybeAccount /\ lockedBy' \in Tabs \cup {NoTab} BY <1>1, <1>3, <1>4
<1> QED BY <1>2, <1>6, <1>7, <1>8, <1>9, <1>10, TabMoves

\* The end of a post: the lock is free, and the rotation is over.
LEMMA RotationEnds ==
  ASSUME TabIInv, NEW t \in Tabs, NEW b \in BOOLEAN, rotation[t].at = "post",
         rotation' = [rotation EXCEPT ![t].at = "over", ![t].ok = b], lockedBy' = NoTab
  PROVE  /\ DOMAIN rotation' = Tabs /\ rotation'[t] \in Rotations /\ rotation'[t].at = "over"
         /\ \A u \in Tabs \ {t} : rotation'[u] = rotation[u]
         /\ t \in opened /\ lockedBy = t
         /\ doing[t].at \notin {"post", "me", "itself"}
         /\ rotation[t].sent \in MaybeAccount
<1>1. TabFacts(t) /\ Tabled BY DEF TabIInv
<1>2. rotation[t] \in Rotations /\ DOMAIN rotation = Tabs BY <1>1 DEF TabFacts, Tabled
<1>3. PICK r : r = [rotation[t] EXCEPT !.at = "over", !.ok = b] OBVIOUS
<1>4. r \in Rotations /\ r.at = "over" /\ rotation[t].sent \in MaybeAccount
  BY <1>2, <1>3 DEF Rotations
<1>5. rotation' = [rotation EXCEPT ![t] = r] BY <1>2, <1>3
<1>6. t \in opened BY StepsAreOfOpenTabs
<1> QED BY <1>1, <1>4, <1>5, <1>6, RotationMoves DEF TabFacts

LEMMA TokenHeld ==
  ASSUME TabIInv, NEW t \in Tabs, NEW a \in Accounts, Holds(t, a)
  PROVE  /\ DOMAIN token' = Tabs /\ DOMAIN news' = Tabs
         /\ token'[t] \in [acct : MaybeAccount, fresh : BOOLEAN] /\ token'[t].acct = a
         /\ news'[t] = news[t]
         /\ \A u \in Tabs \ {t} : /\ token'[u] = token[u]
                                  /\ \/ news'[u] = news[u]
                                     \/ u \in opened /\ news'[u] = Append(news[u], a)
<1>1. /\ token' = [token EXCEPT ![t] = Fresh(a)]
      /\ news' = [s \in Tabs |-> IF s \in Others(t) \cap opened THEN Append(news[s], a) ELSE news[s]]
  BY DEF Holds
<1>2. Fresh(a) \in [acct : MaybeAccount, fresh : BOOLEAN] /\ Fresh(a).acct = a
  BY DEF Fresh, MaybeAccount
<1> QED BY <1>1, <1>2 DEF Others, TabIInv, Tabled

LEMMA StepRotated == ASSUME TabIInv, NEW t \in Tabs, Rotated(t) PROVE TabIInv'
<1> DEFINE a == rotation[t].sent
<1>1. /\ rotation[t].at = "post" /\ a # NoAccount /\ cookie' = a /\ Holds(t, a)
      /\ rotation' = [rotation EXCEPT ![t].at = "over", ![t].ok = TRUE] /\ lockedBy' = NoTab
      /\ UNCHANGED <<opened, shown, doing, next, half>>
  BY DEF Rotated
<1>2. /\ DOMAIN rotation' = Tabs /\ rotation'[t] \in Rotations /\ rotation'[t].at = "over"
      /\ \A u \in Tabs \ {t} : rotation'[u] = rotation[u]
      /\ t \in opened /\ lockedBy = t
      /\ doing[t].at \notin {"post", "me", "itself"} /\ a \in MaybeAccount
  BY <1>1, RotationEnds
<1>3. PICK acct \in Accounts : acct = a BY <1>1, <1>2 DEF MaybeAccount
<1>4. /\ DOMAIN token' = Tabs /\ DOMAIN news' = Tabs
      /\ token'[t] \in [acct : MaybeAccount, fresh : BOOLEAN] /\ token'[t].acct = a
      /\ news'[t] = news[t]
      /\ \A u \in Tabs \ {t} : /\ token'[u] = token[u]
                               /\ \/ news'[u] = news[u]
                                  \/ u \in opened /\ news'[u] = Append(news[u], acct)
  BY <1>1, <1>3, TokenHeld
<1>5. TabFacts(t) /\ Tabled BY DEF TabIInv
<1>6. OnlyTab(t) BY <1>1, <1>2, <1>4, <1>5 DEF OnlyTab, Tabled
<1>7. TabFacts(t)' BY <1>1, <1>2, <1>3, <1>4, <1>5 DEF TabFacts
<1>8. AloneFacts(t) => AloneFacts(t)' BY <1>1, <1>2, <1>4 DEF AloneFacts
<1>9. cookie' \in MaybeAccount /\ lockedBy' \in Tabs \cup {NoTab} BY <1>1, <1>2
<1> QED BY <1>2, <1>6, <1>7, <1>8, <1>9, TabMoves

LEMMA StepRotationRefused == ASSUME TabIInv, NEW t \in Tabs, RotationRefused(t) PROVE TabIInv'
<1>1. /\ rotation[t].at = "post" /\ token' = [token EXCEPT ![t] = NoToken]
      /\ rotation' = [rotation EXCEPT ![t].at = "over", ![t].ok = FALSE] /\ lockedBy' = NoTab
      /\ UNCHANGED <<cookie, opened, shown, news, half>>
      /\ UNCHANGED <<doing, next>> \/ Enters(t, "reload", NoAccount)
  BY DEF RotationRefused
<1>2. /\ DOMAIN rotation' = Tabs /\ rotation'[t] \in Rotations /\ rotation'[t].at = "over"
      /\ \A u \in Tabs \ {t} : rotation'[u] = rotation[u]
      /\ t \in opened /\ lockedBy = t
      /\ doing[t].at \notin {"post", "me", "itself"}
  BY <1>1, RotationEnds
<1>3. TabFacts(t) /\ Tabled /\ cookie \in MaybeAccount BY DEF TabIInv
<1>4. QueueMoved(t) /\ doing'[t].at \notin {"post", "me", "itself"}
  <2>1. CASE UNCHANGED <<doing, next>> BY <1>2, <1>3, <2>1 DEF QueueMoved, TabFacts, Tabled
  <2>2. CASE Enters(t, "reload", NoAccount)
    <3>1. "reload" \in Ops \ {"none"} /\ NoAccount \in MaybeAccount BY DEF Ops, MaybeAccount
    <3>2. /\ QueueMoved(t)
          /\ doing'[t] = doing[t] \/ (doing[t].op = "none" /\ doing'[t].at \in {"waits", "refresh"})
      BY <2>2, <3>1, QueueEntered
    <3> QED BY <1>2, <3>2
  <2> QED BY <1>1, <2>1, <2>2
<1>5. DOMAIN token' = Tabs /\ token'[t] = NoToken /\ \A u \in Tabs \ {t} : token'[u] = token[u]
  BY <1>1, <1>3 DEF Tabled
<1>6. OnlyTab(t) BY <1>1, <1>2, <1>3, <1>4, <1>5 DEF OnlyTab, Tabled, QueueMoved
<1>7. TabFacts(t)' BY <1>1, <1>2, <1>3, <1>4, <1>5, NothingIsQueued DEF TabFacts, QueueMoved
<1>8. AloneFacts(t) => AloneFacts(t)' BY <1>1, <1>2, <1>5 DEF AloneFacts
<1> QED BY <1>1, <1>2, <1>3, <1>6, <1>7, <1>8, TabMoves

LEMMA StepRotationFails == ASSUME TabIInv, NEW t \in Tabs, RotationFails(t) PROVE TabIInv'
<1>1. /\ rotation[t].at = "post"
      /\ rotation' = [rotation EXCEPT ![t].at = "over", ![t].ok = FALSE] /\ lockedBy' = NoTab
      /\ UNCHANGED <<cookie, opened, token, shown, doing, next, news, half>>
  BY DEF RotationFails
<1>2. /\ DOMAIN rotation' = Tabs /\ rotation'[t] \in Rotations /\ rotation'[t].at = "over"
      /\ \A u \in Tabs \ {t} : rotation'[u] = rotation[u]
      /\ t \in opened /\ lockedBy = t
      /\ doing[t].at \notin {"post", "me", "itself"}
  BY <1>1, RotationEnds
<1>3. TabFacts(t) /\ Tabled /\ cookie \in MaybeAccount BY DEF TabIInv
<1>6. OnlyTab(t) BY <1>1, <1>2, <1>3 DEF OnlyTab, Tabled
<1>7. TabFacts(t)' BY <1>1, <1>2, <1>3 DEF TabFacts
<1>8. AloneFacts(t) => AloneFacts(t)' BY <1>1, <1>2 DEF AloneFacts
<1> QED BY <1>1, <1>2, <1>3, <1>6, <1>7, <1>8, TabMoves

LEMMA StepAsksRefresh ==
  ASSUME TabIInv, NEW t \in Tabs, AsksRefresh(t) \/ PageRefreshes(t)
  PROVE  TabIInv'
<1>1. /\ rotation[t].at \in {"none", "over"} /\ t \in opened
      /\ doing[t].at \notin {"post", "me", "itself"}
      /\ rotation' = [rotation EXCEPT ![t] = [NoRotation EXCEPT !.at = "lock"]]
      /\ UNCHANGED <<cookie, opened, token, shown, doing, next, lockedBy, news, half>>
  <2>1. TabFacts(t) BY DEF TabIInv
  <2>2. CASE AsksRefresh(t)
    <3>1. doing[t].at = "refresh" /\ rotation[t].at = "none" BY <2>2 DEF AsksRefresh, At
    <3> QED BY <2>2, <3>1, StepsAreOfOpenTabs DEF AsksRefresh, Rotates, Rotating
  <2>3. CASE PageRefreshes(t)
    <3>1. doing[t].op = "none" /\ ~Rotating(t) BY <2>3 DEF PageRefreshes, Busy
    <3>2. rotation[t].at \in {"none", "over"} /\ doing[t].at = "none"
      BY <2>1, <3>1 DEF Rotating, TabFacts, Rotations, OpFacts
    <3> QED BY <2>3, <3>1, <3>2 DEF PageRefreshes, Rotates
  <2> QED BY <2>2, <2>3
<1>2. PICK r : r = [NoRotation EXCEPT !.at = "lock"] OBVIOUS
<1>3. r \in Rotations /\ r.at = "lock" BY <1>2, NothingIsQueued DEF Rotations
<1>4. /\ DOMAIN rotation' = Tabs /\ rotation'[t] = r
      /\ \A u \in Tabs \ {t} : rotation'[u] = rotation[u]
  BY <1>1, <1>2, RotationMoves
<1>5. TabFacts(t) /\ Tabled /\ cookie \in MaybeAccount /\ lockedBy \in Tabs \cup {NoTab}
  BY DEF TabIInv
<1>6. OnlyTab(t) BY <1>1, <1>4, <1>5 DEF OnlyTab, Tabled
<1>7. TabFacts(t)' BY <1>1, <1>3, <1>4, <1>5 DEF TabFacts
<1>8. AloneFacts(t) => AloneFacts(t)' BY <1>1, <1>3, <1>4 DEF AloneFacts
<1> QED BY <1>1, <1>5, <1>6, <1>7, <1>8, TabMoves

LEMMA StepRefreshOver == ASSUME TabIInv, NEW t \in Tabs, RefreshOver(t) PROVE TabIInv'
<1>1. /\ rotation[t].at = "over" /\ rotation' = [rotation EXCEPT ![t] = NoRotation]
      /\ UNCHANGED <<cookie, opened, token, lockedBy, news, half>>
  BY DEF RefreshOver
<1>2. t \in opened BY <1>1, StepsAreOfOpenTabs
<1>3. TabFacts(t) /\ Tabled /\ cookie \in MaybeAccount /\ lockedBy \in Tabs \cup {NoTab}
  BY DEF TabIInv
<1>4. /\ DOMAIN rotation' = Tabs /\ rotation'[t] = NoRotation
      /\ \A u \in Tabs \ {t} : rotation'[u] = rotation[u]
  BY <1>1, RotationMoves
<1>5. QueueMoved(t) /\ (doing[t].at = "me" => doing'[t] = doing[t])
      /\ (shown' = shown \/ shown' = [shown EXCEPT ![t] = NoAccount])
  <2>0. doing[t].op \in Ops /\ (doing[t].at = "refresh" => doing[t].op # "none")
    BY <1>3 DEF TabFacts, OpFacts, Doings
  <2>1. \/ doing[t].at = "refresh" /\ (\E s \in {"me", "post"} : GoesTo(t, s)) /\ shown' = shown
        \/ /\ doing[t].at = "refresh" /\ Leaves(t)
           /\ shown' = shown \/ shown' = [shown EXCEPT ![t] = NoAccount]
        \/ UNCHANGED <<doing, next, shown>>
    <3>1. CASE At(t, Reloads \union {"switch"}, "refresh") /\ rotation[t].ok
      BY <3>1 DEF RefreshOver, At
    <3>2. CASE At(t, Reloads, "refresh") /\ ~rotation[t].ok
      BY <3>2 DEF RefreshOver, At, Reloads
    <3>3. CASE At(t, {"switch"}, "refresh") /\ ~rotation[t].ok
      BY <3>3 DEF RefreshOver, At, Reloads
    <3>4. CASE /\ ~(At(t, Reloads \union {"switch"}, "refresh") /\ rotation[t].ok)
               /\ ~(At(t, Reloads, "refresh") /\ ~rotation[t].ok)
               /\ ~(At(t, {"switch"}, "refresh") /\ ~rotation[t].ok)
      BY <3>4 DEF RefreshOver
    <3> QED BY <3>1, <3>2, <3>3, <3>4
  <2>2. CASE doing[t].at = "refresh" /\ (\E s \in {"me", "post"} : GoesTo(t, s)) /\ shown' = shown
    BY <2>0, <2>2, QueueGoes DEF Steps
  <2>3. CASE /\ doing[t].at = "refresh" /\ Leaves(t)
             /\ shown' = shown \/ shown' = [shown EXCEPT ![t] = NoAccount]
    BY <2>3, QueueLeft
  <2>4. CASE UNCHANGED <<doing, next, shown>>
    BY <1>3, <2>4 DEF QueueMoved, TabFacts, Tabled
  <2> QED BY <2>1, <2>2, <2>3, <2>4
<1>6. /\ DOMAIN shown' = Tabs /\ \A u \in Tabs \ {t} : shown'[u] = shown[u]
      /\ shown'[t] = shown[t] \/ shown'[t] = NoAccount
  BY <1>3, <1>5 DEF Tabled
<1>7. OnlyTab(t) BY <1>1, <1>3, <1>4, <1>5, <1>6 DEF OnlyTab, Tabled, QueueMoved
<1>8. TabFacts(t)'
  <2>1. NoRotation.at = "none" /\ NoAccount \in MaybeAccount BY DEF NoRotation, MaybeAccount
  <2> QED BY <1>1, <1>3, <1>4, <1>5, <1>6, <2>1, NothingIsQueued DEF TabFacts, QueueMoved
<1>9. AloneFacts(t) => AloneFacts(t)' BY <1>1, <1>4, <1>5, <1>6 DEF AloneFacts, NoRotation
<1> QED BY <1>1, <1>2, <1>3, <1>7, <1>8, <1>9, TabMoves

\* Steps of the transition that touch nothing but its place.
LEMMA StepPlaces ==
  ASSUME TabIInv, NEW t \in opened, QueueMoved(t),
         doing'[t].at \in {"post", "me", "itself"} => rotation[t].at = "none",
         doing[t].at # "me" \/ doing'[t] = doing[t],
         UNCHANGED <<cookie, opened, token, shown, rotation, lockedBy, news, half>>
  PROVE  TabIInv'
<1>1. TabFacts(t) /\ Tabled /\ cookie \in MaybeAccount /\ lockedBy \in Tabs \cup {NoTab}
  BY DEF TabIInv
<1>2. OnlyTab(t) BY <1>1 DEF OnlyTab, Tabled, QueueMoved
<1>3. TabFacts(t)' BY <1>1 DEF TabFacts, QueueMoved
<1>4. AloneFacts(t) => AloneFacts(t)' BY <1>1 DEF AloneFacts
<1> QED BY <1>1, <1>2, <1>3, <1>4, TabMoves

LEMMA StepWaits ==
  ASSUME TabIInv, NEW t \in Tabs,
         Waited(t) \/ WaitsForItself(t) \/ TimerReloads(t)
           \/ (\E b \in BOOLEAN : PostFails(t, b))
           \/ \E op \in {"login", "accept", "switch", "logout"}, a \in MaybeAccount : UserAsks(t, op, a)
  PROVE  TabIInv'
<1>1. TabFacts(t) BY DEF TabIInv
<1>2. CASE Waited(t) \/ WaitsForItself(t)
  <2>1. PICK s \in Steps : GoesTo(t, s)
    BY <1>2 DEF Waited, WaitsForItself, Steps
  <2>2. doing[t].at = "waits" /\ rotation[t].at = "none"
        /\ UNCHANGED <<cookie, opened, token, shown, rotation, lockedBy, news, half>>
    BY <1>2 DEF Waited, WaitsForItself, Quiet
  <2>3. doing[t].op # "none" /\ t \in opened
    BY <1>1, <2>2, StepsAreOfOpenTabs DEF TabFacts, OpFacts
  <2> QED BY <2>1, <2>2, <2>3, QueueGoes, StepPlaces
<1>3. CASE TimerReloads(t)
  <2>1. /\ Enters(t, "reload", NoAccount) /\ t \in opened /\ doing[t].op = "none"
        /\ UNCHANGED <<cookie, opened, token, shown, rotation, lockedBy, news, half>>
    BY <1>3 DEF TimerReloads, Busy
  <2>2. "reload" \in Ops \ {"none"} /\ NoAccount \in MaybeAccount BY DEF Ops, MaybeAccount
  <2>3. /\ QueueMoved(t)
        /\ doing'[t] = doing[t] \/ (doing[t].op = "none" /\ doing'[t].at \in {"waits", "refresh"})
    BY <2>1, <2>2, QueueEntered
  <2>4. doing[t].at = "none" BY <1>1, <2>1 DEF TabFacts, OpFacts
  <2> QED BY <2>1, <2>3, <2>4, StepPlaces
<1>4. ASSUME NEW b \in BOOLEAN, PostFails(t, b) PROVE TabIInv'
  <2>1. /\ doing[t].at = "post" /\ (Leaves(t) \/ LeavesRefused(t))
        /\ UNCHANGED <<cookie, opened, token, shown, rotation, lockedBy, news, half>>
    BY <1>4 DEF PostFails, At
  <2>2. QueueMoved(t) /\ doing'[t].at \in {"none", "waits", "refresh"} /\ t \in opened
    BY <2>1, QueueLeft, StepsAreOfOpenTabs
  <2> QED BY <2>1, <2>2, StepPlaces
<1>5. ASSUME NEW op \in {"login", "accept", "switch", "logout"}, NEW a \in MaybeAccount,
             UserAsks(t, op, a)
      PROVE  TabIInv'
  <2>1. /\ t \in opened /\ Enters(t, op, a) /\ (op = "logout" <=> a = NoAccount)
        /\ UNCHANGED <<cookie, opened, token, shown, rotation, lockedBy, news, half>>
    BY <1>5 DEF UserAsks
  <2>2. op \in Ops \ {"none"} /\ (op \in {"login", "switch", "accept"} => a \in Accounts)
    BY <2>1 DEF Ops, MaybeAccount
  <2>3. /\ QueueMoved(t)
        /\ doing'[t] = doing[t] \/ (doing[t].op = "none" /\ doing'[t].at \in {"waits", "refresh"})
    BY <2>1, <2>2, QueueEntered
  <2>4. doing[t].op = "none" => doing[t].at = "none" BY <1>1 DEF TabFacts, OpFacts
  <2>5. doing[t].at \in {"post", "me", "itself"} => rotation[t].at = "none" BY <1>1 DEF TabFacts
  <2>6. doing'[t].at \in {"post", "me", "itself"} => rotation[t].at = "none" BY <2>3, <2>5
  <2>7. doing[t].at # "me" \/ doing'[t] = doing[t] BY <2>3, <2>4
  <2> QED BY <2>1, <2>3, <2>6, <2>7, StepPlaces
<1> QED BY <1>1, <1>2, <1>3, <1>4, <1>5

LEMMA StepPosted == ASSUME TabIInv, NEW t \in Tabs, Posted(t) PROVE TabIInv'
<1>1. TabFacts(t) /\ Tabled /\ lockedBy \in Tabs \cup {NoTab} BY DEF TabIInv
<1>2. /\ doing[t].op \in {"login", "switch", "accept"} /\ doing[t].at = "post"
      /\ cookie' = doing[t].acct /\ Holds(t, doing[t].acct) /\ GoesTo(t, "me")
      /\ UNCHANGED <<opened, shown, rotation, lockedBy, half>>
  BY DEF Posted, At
<1>3. PICK a \in Accounts : a = doing[t].acct BY <1>1, <1>2 DEF TabFacts, OpFacts
<1>4. /\ DOMAIN token' = Tabs /\ DOMAIN news' = Tabs
      /\ token'[t] \in [acct : MaybeAccount, fresh : BOOLEAN] /\ token'[t].acct = a
      /\ news'[t] = news[t]
      /\ \A u \in Tabs \ {t} : /\ token'[u] = token[u]
                               /\ \/ news'[u] = news[u]
                                  \/ u \in opened /\ news'[u] = Append(news[u], a)
  BY <1>2, <1>3, TokenHeld
<1>5. QueueMoved(t) /\ doing'[t].at = "me" /\ doing'[t].op = doing[t].op
  BY <1>2, QueueGoes DEF Steps
<1>6. t \in opened BY <1>2, StepsAreOfOpenTabs
<1>7. OnlyTab(t) BY <1>1, <1>2, <1>4, <1>5 DEF OnlyTab, Tabled, QueueMoved
<1>8. TabFacts(t)' BY <1>1, <1>2, <1>3, <1>4, <1>5 DEF TabFacts, QueueMoved
<1>9. AloneFacts(t) => AloneFacts(t)'
  <2>1. rotation[t].at = "none" BY <1>1, <1>2 DEF TabFacts
  <2> QED BY <1>2, <1>3, <1>4, <1>5, <2>1 DEF AloneFacts, Reloads
<1> QED BY <1>1, <1>2, <1>3, <1>6, <1>7, <1>8, <1>9, TabMoves DEF MaybeAccount

LEMMA StepMe == ASSUME TabIInv, NEW t \in Tabs, Me(t) PROVE TabIInv'
<1>1. TabFacts(t) /\ Tabled /\ cookie \in MaybeAccount /\ lockedBy \in Tabs \cup {NoTab}
  BY DEF TabIInv
<1>2. /\ doing[t].at = "me" /\ token[t].fresh /\ Leaves(t)
      /\ shown' = [shown EXCEPT ![t] = token[t].acct] /\ half' = [half EXCEPT ![t] = FALSE]
      /\ UNCHANGED <<cookie, opened, token, rotation, lockedBy, news>>
  BY DEF Me
<1>3. QueueMoved(t) /\ doing'[t].at \in {"none", "waits", "refresh"} /\ t \in opened
  BY <1>2, QueueLeft, StepsAreOfOpenTabs
<1>4. /\ DOMAIN shown' = Tabs /\ DOMAIN half' = Tabs
      /\ shown'[t] = token[t].acct /\ half'[t] = FALSE
      /\ \A u \in Tabs \ {t} : shown'[u] = shown[u] /\ half'[u] = half[u]
  BY <1>1, <1>2 DEF Tabled
<1>5. token[t] # NoToken /\ token[t].acct \in MaybeAccount BY <1>1, <1>2 DEF NoToken, TabFacts
<1>6. OnlyTab(t) BY <1>1, <1>2, <1>3, <1>4 DEF OnlyTab, Tabled, QueueMoved
<1>7. TabFacts(t)' BY <1>1, <1>2, <1>3, <1>4, <1>5 DEF TabFacts, QueueMoved
<1>8. AloneFacts(t) => AloneFacts(t)' BY <1>2, <1>4, <1>5 DEF AloneFacts
<1> QED BY <1>1, <1>2, <1>3, <1>6, <1>7, <1>8, TabMoves

\* What /me or the logout leaves behind: nothing of the session, or all of it and a mark.
Forgets(t) ==
    /\ UNCHANGED <<opened, rotation, lockedBy, news>>
    /\ \/ /\ token' = [token EXCEPT ![t] = NoToken] /\ shown' = [shown EXCEPT ![t] = NoAccount]
          /\ half' = [half EXCEPT ![t] = FALSE] /\ cookie' \in {cookie, NoAccount}
       \/ /\ UNCHANGED <<cookie, shown, token>> /\ half' = [half EXCEPT ![t] = TRUE]

LEMMA StepForgets ==
  ASSUME TabIInv, NEW t \in Tabs, MeFails(t) \/ \E b \in BOOLEAN : LoggedOut(t, b)
  PROVE  TabIInv'
<1>1. TabFacts(t) /\ Tabled /\ cookie \in MaybeAccount /\ lockedBy \in Tabs \cup {NoTab}
  BY DEF TabIInv
<1>2. doing[t].at \in {"post", "me"} /\ (Leaves(t) \/ LeavesRefused(t)) /\ Forgets(t)
  <2>1. CASE MeFails(t) BY <2>1 DEF MeFails, Forgets
  <2>2. ASSUME NEW b \in BOOLEAN, LoggedOut(t, b)
        PROVE  doing[t].at \in {"post", "me"} /\ (Leaves(t) \/ LeavesRefused(t)) /\ Forgets(t)
    BY <2>2 DEF LoggedOut, At, Forgets
  <2> QED BY <2>1, <2>2
<1>3. QueueMoved(t) /\ doing'[t].at \in {"none", "waits", "refresh"} /\ t \in opened
  BY <1>2, QueueLeft, StepsAreOfOpenTabs
<1>4. /\ DOMAIN token' = Tabs /\ DOMAIN shown' = Tabs /\ DOMAIN half' = Tabs
      /\ \A u \in Tabs \ {t} : token'[u] = token[u] /\ shown'[u] = shown[u] /\ half'[u] = half[u]
      /\ \/ token'[t] = NoToken /\ shown'[t] = NoAccount /\ half'[t] = FALSE
         \/ /\ token'[t] = token[t] /\ shown'[t] = shown[t] /\ half'[t] = TRUE
            /\ cookie' = cookie
  BY <1>1, <1>2 DEF Tabled, Forgets
<1>5. /\ UNCHANGED <<opened, rotation, lockedBy, news>> /\ cookie' \in MaybeAccount
      /\ NoAccount \in MaybeAccount /\ rotation[t].at = "none"
  BY <1>1, <1>2 DEF Forgets, MaybeAccount, TabFacts
<1>6. OnlyTab(t) BY <1>1, <1>3, <1>4, <1>5 DEF OnlyTab, Tabled, QueueMoved
<1>7. TabFacts(t)' BY <1>1, <1>3, <1>4, <1>5, NothingIsQueued DEF TabFacts, QueueMoved
<1>8. AloneFacts(t) => AloneFacts(t)' BY <1>4, <1>5 DEF AloneFacts
<1> QED BY <1>1, <1>3, <1>5, <1>6, <1>7, <1>8, TabMoves

LEMMA StepHears == ASSUME TabIInv, NEW t \in Tabs, Hears(t) PROVE TabIInv'
<1>1. TabFacts(t) /\ Tabled /\ cookie \in MaybeAccount /\ lockedBy \in Tabs \cup {NoTab}
  BY DEF TabIInv
<1>2. /\ news[t] # <<>> /\ news' = [news EXCEPT ![t] = Tail(@)]
      /\ token' = [token EXCEPT ![t] = Fresh(Head(news[t]))]
      /\ rotation' = [rotation EXCEPT ![t].newer = Rotating(t)]
      /\ UNCHANGED <<cookie, opened, shown, doing, next, lockedBy, half>>
  BY DEF Hears
<1>3. t \in opened BY <1>2, StepsAreOfOpenTabs
<1>4. Head(news[t]) \in Accounts /\ Tail(news[t]) \in Seq(Accounts) BY <1>1, <1>2 DEF TabFacts
<1>5. PICK tok : tok = Fresh(Head(news[t])) OBVIOUS
<1>6. tok \in [acct : MaybeAccount, fresh : BOOLEAN] /\ tok.acct \in Accounts
  BY <1>4, <1>5 DEF Fresh, MaybeAccount
<1>7. PICK r : r = [rotation[t] EXCEPT !.newer = Rotating(t)] OBVIOUS
<1>8. r \in Rotations /\ r.at = rotation[t].at /\ r.sent = rotation[t].sent
  <2>1. rotation[t] \in Rotations /\ Rotating(t) \in BOOLEAN BY <1>1 DEF TabFacts, Rotating
  <2> QED BY <1>7, <2>1 DEF Rotations
<1>9. /\ rotation' = [rotation EXCEPT ![t] = r] /\ token' = [token EXCEPT ![t] = tok]
      /\ news' = [news EXCEPT ![t] = Tail(news[t])]
  BY <1>1, <1>2, <1>5, <1>7 DEF Tabled
<1>10. /\ DOMAIN token' = Tabs /\ DOMAIN rotation' = Tabs /\ DOMAIN news' = Tabs
       /\ token'[t] = tok /\ rotation'[t] = r /\ news'[t] = Tail(news[t])
       /\ \A u \in Tabs \ {t} : /\ token'[u] = token[u] /\ rotation'[u] = rotation[u]
                                /\ news'[u] = news[u]
  BY <1>1, <1>9 DEF Tabled
<1>11. OnlyTab(t) BY <1>1, <1>2, <1>10 DEF OnlyTab, Tabled
<1>12. TabFacts(t)' BY <1>1, <1>2, <1>4, <1>6, <1>8, <1>10 DEF TabFacts
<1>13. ~AloneFacts(t) BY <1>2 DEF AloneFacts
<1> QED BY <1>1, <1>2, <1>3, <1>11, <1>12, <1>13, TabMoves

LEMMA StepTokenRunsOut == ASSUME TabIInv, NEW t \in Tabs, TokenRunsOut(t) PROVE TabIInv'
<1>1. TabFacts(t) /\ Tabled /\ cookie \in MaybeAccount /\ lockedBy \in Tabs \cup {NoTab}
  BY DEF TabIInv
<1>2. /\ token[t] # NoToken /\ token' = [token EXCEPT ![t].fresh = FALSE]
      /\ UNCHANGED <<cookie, opened, shown, doing, next, rotation, lockedBy, news, half>>
  BY DEF TokenRunsOut
<1>3. t \in opened BY <1>2, StepsAreOfOpenTabs
<1>4. PICK tok : tok = [token[t] EXCEPT !.fresh = FALSE] OBVIOUS
<1>5. tok \in [acct : MaybeAccount, fresh : BOOLEAN] /\ tok.acct = token[t].acct
  BY <1>1, <1>4 DEF TabFacts
<1>6. DOMAIN token' = Tabs /\ token'[t] = tok /\ \A u \in Tabs \ {t} : token'[u] = token[u]
  BY <1>1, <1>2, <1>4 DEF Tabled
<1>7. OnlyTab(t) BY <1>1, <1>2, <1>6 DEF OnlyTab, Tabled
<1>8. TabFacts(t)' BY <1>1, <1>2, <1>5, <1>6 DEF TabFacts
<1>9. AloneFacts(t) => AloneFacts(t)' BY <1>2, <1>5, <1>6 DEF AloneFacts
<1> QED BY <1>1, <1>2, <1>3, <1>7, <1>8, <1>9, TabMoves

LEMMA StepOpensTab == ASSUME TabIInv, NEW t \in Tabs, OpensTab(t) PROVE TabIInv'
<1>1. /\ t \notin opened /\ (t = FirstTab \/ FirstTab \in opened) /\ opened' = opened \cup {t}
      /\ Enters(t, "load", NoAccount)
      /\ UNCHANGED <<cookie, token, shown, rotation, lockedBy, news, half>>
  BY DEF OpensTab
<1>2. TabFacts(t) /\ Shut(t) /\ Tabled BY <1>1 DEF TabIInv
<1>3. QueueMoved(t)
  <2>1. "load" \in Ops \ {"none"} /\ NoAccount \in MaybeAccount BY DEF Ops, MaybeAccount
  <2> QED BY <1>1, <2>1, QueueEntered
<1>4. Tabled' BY <1>1, <1>2, <1>3 DEF Tabled, QueueMoved
<1>5. rotation[t].at = "none" /\ shown[t] = NoAccount BY <1>2 DEF Shut, NoRotation
<1>6. TabFacts(t)' BY <1>1, <1>2, <1>3, <1>5 DEF TabFacts, QueueMoved
<1>7. ASSUME NEW u \in Tabs \ {t} PROVE TabFacts(u)' /\ (u \notin opened' => Shut(u)')
  <2>1. TabFacts(u) /\ (u \notin opened => Shut(u)) BY DEF TabIInv
  <2>2. doing'[u] = doing[u] /\ next'[u] = next[u] BY <1>3 DEF QueueMoved
  <2> QED BY <1>1, <2>1, <2>2 DEF TabFacts, Shut
<1>8. ASSUME opened' \subseteq {FirstTab} PROVE AloneFacts(FirstTab)'
  <2>1. t = FirstTab /\ opened = {} BY <1>1, <1>8 DEF TabIInv
  <2>2. AloneFacts(t) BY <2>1 DEF TabIInv
  <2> QED BY <1>1, <1>5, <2>1, <2>2 DEF AloneFacts
<1>9. FirstTab \in opened' BY <1>1
<1> QED BY <1>1, <1>4, <1>6, <1>7, <1>8, <1>9 DEF TabIInv

LEMMA StepTabs == TabIInv /\ [TabsNext]_tabVars => TabIInv'
<1> SUFFICES ASSUME TabIInv, [TabsNext]_tabVars PROVE TabIInv'
  OBVIOUS
<1>1. CASE UNCHANGED tabVars
  BY <1>1 DEF tabVars, TabIInv, TabFacts, Shut, AloneFacts, Tabled
<1>2. ASSUME NEW t \in Tabs, TabStep(t) PROVE TabIInv'
  BY <1>2, StepTakesLock, StepRotated, StepRotationRefused, StepRotationFails, StepAsksRefresh,
     StepRefreshOver, StepWaits, StepPosted, StepMe, StepForgets
     DEF TabStep
<1>3. CASE TabsNext
  BY <1>2, <1>3, StepOpensTab, StepAsksRefresh, StepWaits, StepHears, StepTokenRunsOut
     DEF TabsNext, MaybeAccount
<1> QED BY <1>1, <1>3

\* What a tab shows is what it asks as, and two tabs never spend one cookie: all that is said of
\* the tabs but that their transitions can move, which speaks of ENABLED.
TabsSafe == TabsTypeOK /\ AccountAgrees /\ RotationsApart

LEMMA TabsAreSafe == TabIInv => TabsSafe
<1> SUFFICES ASSUME TabIInv PROVE TabsSafe
  OBVIOUS
<1>1. TabsTypeOK
  <2>1. ASSUME NEW t \in Tabs
        PROVE  /\ token[t] = NoToken \/ token[t].acct \in Accounts
               /\ shown[t] \in Accounts \union {NoAccount}
               /\ doing[t].op \in {"none", "load", "reload", "login", "switch", "accept", "logout"}
               /\ doing[t].at \in {"none", "waits", "refresh", "post", "me", "itself"}
               /\ rotation[t].at \in {"none", "lock", "post", "over"}
    BY DEF TabIInv, TabFacts, OpFacts, Doings, Ops, Steps, Rotations, MaybeAccount
  <2> QED BY <2>1 DEF TabIInv, MaybeAccount, TabsTypeOK
<1>2. AccountAgrees
  <2> SUFFICES ASSUME opened = {FirstTab}, Still(FirstTab), ~half[FirstTab]
               PROVE  /\ shown[FirstTab] # NoAccount /\ token[FirstTab] # NoToken
                         => shown[FirstTab] = token[FirstTab].acct
                      /\ token[FirstTab] # NoToken => cookie = token[FirstTab].acct
    BY DEF AccountAgrees
  <2>1. AloneFacts(FirstTab) /\ doing[FirstTab].at = "none"
    BY TabConstants DEF TabIInv, TabFacts, OpFacts, Still, Busy
  <2> QED BY <2>1 DEF AloneFacts
<1>3. RotationsApart BY DEF TabIInv, TabFacts, RotationsApart
<1> QED BY <1>1, <1>2, <1>3 DEF TabsSafe

\* With one tab open the page shows the account its requests go out as, and the cookie is of that
\* account; and two tabs never rotate one cookie at the same time.
THEOREM TabsAgree == TabsSpec => []TabsSafe
<1>1. TabsInit => TabIInv BY InitTabs
<1>2. TabIInv /\ [TabsNext]_tabVars => TabIInv' BY StepTabs
<1>3. TabIInv => TabsSafe BY TabsAreSafe
<1> QED BY <1>1, <1>2, <1>3, PTL DEF TabsSpec

-----------------------------------------------------------------------------
(* Access as a whole, in every scene of the company.                       *)
LEMMA AccessStarts == Init => SesIInv /\ LinkIInv /\ TabIInv /\ FlagIInv
BY InitSessions, InitLinks, InitTabs, InitFlags DEF Init

LEMMA AccessSteps ==
  [Next]_companyVars => /\ [SessionsNext]_sesVars /\ [LinksNext]_linkVars
                        /\ [TabsNext]_tabVars /\ [FlagsNext]_flagVars
BY DEF Next, companyVars, others

\* No revoked family of sessions alive, no link used twice, no page that asks as another than it
\* shows, no two tabs with one cookie, and flags that are those of the rows and of the gate: all of
\* it, given that the transitions of the tabs can move.
THEOREM AccessIsRight == Spec /\ []TransitionsMove => []AccessInv
<1>1. Init => SesIInv /\ LinkIInv /\ TabIInv /\ FlagIInv BY AccessStarts
<1>2. SesIInv /\ LinkIInv /\ TabIInv /\ FlagIInv /\ [Next]_companyVars
        => SesIInv' /\ LinkIInv' /\ TabIInv' /\ FlagIInv'
  BY AccessSteps, StepSessions, StepLinks, StepTabs, StepFlags
<1>3. SesIInv /\ LinkIInv /\ TabIInv /\ FlagIInv /\ TransitionsMove => AccessInv
  BY SessionsAreRight, LinksAreRight, TabsAreSafe, FlagsAreRight DEF TabsSafe, TabsInv, AccessInv
<1> QED BY <1>1, <1>2, <1>3, PTL DEF Spec
=============================================================================
