----------------------------- MODULE RecordProofs -----------------------------
(***************************************************************************)
(* What is proved of the components that keep the records of a company:    *)
(* experiments, campaigns, leads, the plan and its changes, and members.   *)
(***************************************************************************)
EXTENDS MCCompany, FiniteSetTheorems, TLAPS

-----------------------------------------------------------------------------
(* Experiments: an experiment that runs while the start of another has     *)
(* been checked is an overlap of the two starts.                           *)
ExpStatus == {"none", "draft", "running", "paused", "stopped"}

ExpTypes ==
  /\ experiment \in [ExperimentIds -> ExpStatus]
  /\ assigned \in [ExperimentIds -> SUBSET inCampaign]
  /\ expStarts \in [ExperimentIds -> {"none", "looked", "checked"}]
  /\ expOverlap \in BOOLEAN
ExpTasks == [exp : ExperimentIds, who : ExpLeads \cup {"call"}, phase : {"looked", "evaluated"},
             trips : BOOLEAN]
TasksTyped == expTasks \subseteq ExpTasks
TasksApart == \A t, u \in expTasks : t.who = u.who => t = u
StartsApart ==
  \A x, y \in ExperimentIds : x # y /\ Runs(x) /\ (Runs(y) \/ expStarts[y] = "checked") => expOverlap

ExpIInv == ExpTypes /\ TasksTyped /\ TasksApart /\ StartsApart

LEMMA ExpIsInv == ExpIInv => ExpInv
BY DEF ExpIInv, ExpInv, ExpTypes, TasksApart, StartsApart, ExpTypeOK, OneExperimentRuns, ExpStatus

LEMMA StepExp == ExpIInv /\ [ExpNext]_expVars => ExpIInv'
<1> SUFFICES ASSUME ExpIInv, [ExpNext]_expVars PROVE ExpIInv'
  OBVIOUS
<1> USE DEF ExpIInv, ExpTypes, TasksTyped, TasksApart, StartsApart, Runs, ExpStatus
<1>1. CASE UNCHANGED expVars BY <1>1 DEF expVars
<1>2. ASSUME NEW x \in ExperimentIds, CreateExperiment(x) PROVE ExpIInv' BY <1>2 DEF CreateExperiment
<1>3. ASSUME NEW x \in ExperimentIds, StartLook(x) PROVE ExpIInv' BY <1>3 DEF StartLook
<1>4. ASSUME NEW x \in ExperimentIds, StartCheck(x) PROVE ExpIInv' BY <1>4 DEF StartCheck, Alone
<1>5. ASSUME NEW x \in ExperimentIds, StartCommit(x) PROVE ExpIInv'
  BY <1>5 DEF StartCommit, StillStartable
<1>6. ASSUME NEW x \in ExperimentIds, Trip(x) PROVE ExpIInv' BY <1>6 DEF Trip
<1>7. ASSUME NEW x \in ExperimentIds, NEW to \in {"paused", "stopped"}, HaltExperiment(x, to)
      PROVE  ExpIInv'
  BY <1>7 DEF HaltExperiment
<1>8. ASSUME NEW x \in ExperimentIds, NEW who \in ExpLeads \cup {"call"}, BeginTask(x, who)
      PROVE  ExpIInv'
  <2> DEFINE to == [exp |-> x, who |-> who, phase |-> "looked", trips |-> FALSE]
  <2>1. to \in ExpTasks /\ to.who = who BY DEF ExpTasks
  <2>2. expTasks' = expTasks \cup {to} /\ \A t \in expTasks : t.who # who BY <1>8 DEF BeginTask
  <2> HIDE DEF to
  <2>3. TasksTyped' /\ TasksApart' BY <2>1, <2>2
  <2> QED BY <1>8, <2>3 DEF BeginTask
<1>9. ASSUME NEW l \in ExpLeads, TieLead(l) PROVE ExpIInv' BY <1>9 DEF TieLead
<1>10. ASSUME NEW t \in expTasks, Evaluate(t) PROVE ExpIInv'
  <2> DEFINE to == [t EXCEPT !.phase = "evaluated", !.trips = Runs(t.exp) /\ t.exp \in tripped]
  <2>0. t \in ExpTasks OBVIOUS
  <2>1. to \in ExpTasks /\ to.who = t.who
    <3>1. (Runs(t.exp) /\ t.exp \in tripped) \in BOOLEAN OBVIOUS
    <3> QED BY <2>0, <3>1 DEF ExpTasks
  <2>2. expTasks' = (expTasks \ {t}) \cup {to} BY <1>10 DEF Evaluate, Step
  <2> HIDE DEF to
  <2>3. TasksTyped' /\ TasksApart' BY <2>1, <2>2
  <2> QED BY <1>10, <2>3 DEF Evaluate
<1>11. ASSUME NEW t \in expTasks, TripWrites(t) PROVE ExpIInv' BY <1>11 DEF TripWrites
<1>12. ASSUME NEW t \in expTasks, AssignWrites(t) PROVE ExpIInv' BY <1>12 DEF AssignWrites, Refuses
<1>13. ASSUME NEW t \in expTasks, TaskOver(t) PROVE ExpIInv' BY <1>13 DEF TaskOver
<1> QED BY <1>1, <1>2, <1>3, <1>4, <1>5, <1>6, <1>7, <1>8, <1>9, <1>10, <1>11, <1>12, <1>13 DEF ExpNext

LEMMA InitExp == ExpInit => ExpIInv
BY DEF ExpInit, ExpIInv, ExpTypes, TasksTyped, TasksApart, StartsApart, Runs, ExpStatus

\* Two experiments of a campaign run at once only when their starts overlapped; every
\* lead is in one task at a time and only leads of the campaign are assigned.
THEOREM OneExperiment == ExpSpec => []ExpInv
<1>1. ExpInit => ExpIInv BY InitExp
<1>2. ExpIInv /\ [ExpNext]_expVars => ExpIInv' BY StepExp
<1>3. ExpIInv => ExpInv BY ExpIsInv
<1> QED BY <1>1, <1>2, <1>3, PTL DEF ExpSpec

\* A stopped experiment stays stopped: no start that looked before, pause or guardrail
\* brings it back.
LEMMA StepStopped ==
  ExpIInv /\ [ExpNext]_expVars =>
    \A x \in ExperimentIds : experiment[x] = "stopped" => experiment'[x] = "stopped"
BY DEF ExpIInv, ExpTypes, ExpNext, expVars, CreateExperiment, StartLook, StartCheck, StartCommit,
       StillStartable, Trip, HaltExperiment, BeginTask, TieLead, Evaluate, TripWrites, AssignWrites,
       TaskOver, Runs, ExpStatus

THEOREM StoppedStays == ExpSpec => StoppedForGood
<1>1. ExpInit => ExpIInv BY InitExp
<1>2. ExpIInv /\ [ExpNext]_expVars => ExpIInv' BY StepExp
<1>3. ExpIInv /\ [ExpNext]_expVars =>
        [\A x \in ExperimentIds : experiment[x] = "stopped" => experiment'[x] = "stopped"]_expVars
  BY StepStopped
<1> QED BY <1>1, <1>2, <1>3, PTL DEF ExpSpec, StoppedForGood
-----------------------------------------------------------------------------
(* Campaigns: what is ready, runs or is paused is as published, a session  *)
(* that has the lock of a campaign shows all of it, and a call whose second*)
(* look is not older than the campaign fits it.                            *)
CampStatus == {"none", "draft", "ready", "running", "paused", "completed", "archived"}
CampRows == [status : CampStatus, lock : Nat, version : 0..MaxVersions, team : Teams]
CampCalls == [lead : CampLeads, to : CampaignIds \cup {NoCampaign}, crew : Crews, sure : BOOLEAN,
              touched : BOOLEAN]

CampRowsTyped == campaign \in [CampaignIds -> CampRows]
VersionsKnown ==
  /\ DOMAIN published = CampaignIds
  /\ \A c \in CampaignIds : /\ DOMAIN published[c] = 1..campaign[c].version
                            /\ campaign[c].status = "none" => campaign[c].version = 0
CallsApart == /\ starting \subseteq CampCalls
              /\ \A s, t \in starting : s.lead = t.lead => s = t
AsPublished ==
  \A c \in CampaignIds : campaign[c].status \in {"ready", "running", "paused"} =>
    campaign[c].version > 0 /\ published[c][campaign[c].version] = campaign[c].team
SeenIsShown ==
  /\ DOMAIN seen = Editors
  /\ \A e \in Editors, c \in CampaignIds : seen[e].id = c =>
       /\ seen[e] = [id |-> c, as |-> seen[e].as]
       /\ campaign[c].status # "none"
       /\ seen[e].as.lock \in Nat /\ seen[e].as.lock <= campaign[c].lock
       /\ seen[e].as.lock = campaign[c].lock => seen[e].as = campaign[c]
CallsFit == \A s \in starting : s.sure /\ ~s.touched => CrewFits(s)
Ghosts == campGhost = [blind |-> {}, stray |-> {}]

CampIInv ==
  /\ CampRowsTyped /\ VersionsKnown /\ CallsApart /\ AsPublished /\ SeenIsShown /\ CallsFit /\ Ghosts

LEMMA CampIsInv == CampIInv => CampInv
<1> SUFFICES ASSUME CampIInv PROVE CampInv
  OBVIOUS
<1>1. \A c \in CampaignIds : campaign[c].status \in CampStatus /\ campaign[c].version \in 0..MaxVersions
  BY DEF CampIInv, CampRowsTyped, CampRows
<1>2. CampTypeOK BY <1>1 DEF CampIInv, CampTypeOK, VersionsKnown, CallsApart, CampStatus
<1>3. RunsAsPublished BY DEF CampIInv, AsPublished, RunsAsPublished, RunningCampaigns
<1> QED BY <1>2, <1>3 DEF CampIInv, CampInv, Ghosts, NoBlindChange, CallFitsCampaign

\* Whoever has the lock of a campaign shows it as it is.
LEMMA LockShows ==
  ASSUME CampIInv, NEW e \in Editors, NEW c \in CampaignIds, SameLock(e, c)
  PROVE  seen[e] = Shown(c)
BY DEF CampIInv, SeenIsShown, SameLock, Shown

\* An accepted change moves the lock on, so that older views do not have it any more,
\* and touches the calls on their way to the campaign.
LEMMA ChangeKeeps ==
  ASSUME CampIInv, NEW e \in Editors, NEW c \in CampaignIds, SameLock(e, c),
         NEW to \in CampRows, Changed(e, c, to), to.lock = campaign[c].lock + 1,
         to.status # "none", VersionsKnown', AsPublished'
  PROVE  CampIInv'
<1>1. /\ campaign' = [campaign EXCEPT ![c] = to]
      /\ starting' = {[s EXCEPT !.touched = @ \/ s.to = c] : s \in starting}
      /\ UNCHANGED <<seen, tied, campGhost>>
  BY LockShows DEF Changed
<1>2. CampRowsTyped' BY <1>1 DEF CampIInv, CampRowsTyped
<1>3. campaign[c].lock \in Nat BY DEF CampIInv, CampRowsTyped, CampRows
<1>4. \A d \in CampaignIds : d # c => campaign'[d] = campaign[d] BY <1>1
<1>5. campaign'[c] = to BY <1>1 DEF CampIInv, CampRowsTyped
<1>6. SeenIsShown'
  <2> SUFFICES ASSUME NEW f \in Editors, NEW d \in CampaignIds, seen[f].id = d
               PROVE  /\ seen[f] = [id |-> d, as |-> seen[f].as]
                      /\ campaign'[d].status # "none"
                      /\ seen[f].as.lock \in Nat /\ seen[f].as.lock <= campaign'[d].lock
                      /\ seen[f].as.lock = campaign'[d].lock => seen[f].as = campaign'[d]
    BY <1>1 DEF CampIInv, SeenIsShown
  <2>1. CASE d # c BY <1>4, <2>1 DEF CampIInv, SeenIsShown
  <2>2. CASE d = c BY <1>3, <1>5, <2>2 DEF CampIInv, SeenIsShown
  <2> QED BY <2>1, <2>2
<1>7. ASSUME NEW t \in starting'
      PROVE  \E s \in starting : /\ t = [s EXCEPT !.touched = @ \/ s.to = c]
                                 /\ t \in CampCalls /\ t.lead = s.lead /\ t.to = s.to /\ t.crew = s.crew
                                 /\ t.sure = s.sure /\ (t.touched <=> s.touched \/ s.to = c)
  <2>1. PICK s \in starting : t = [s EXCEPT !.touched = @ \/ s.to = c] BY <1>1
  <2>2. s \in CampCalls BY DEF CampIInv, CallsApart
  <2>3. (s.touched \/ s.to = c) \in BOOLEAN OBVIOUS
  <2>4. /\ t \in CampCalls /\ t.lead = s.lead /\ t.to = s.to /\ t.crew = s.crew /\ t.sure = s.sure
        /\ t.touched = (s.touched \/ s.to = c)
    BY <2>1, <2>2, <2>3 DEF CampCalls
  <2> QED BY <2>1, <2>4
<1>8. CallsApart'
  <2>1. starting' \subseteq CampCalls BY <1>7
  <2>2. ASSUME NEW t \in starting', NEW u \in starting', t.lead = u.lead PROVE t = u
    BY <1>7, <2>2 DEF CampIInv, CallsApart
  <2> QED BY <2>1, <2>2 DEF CallsApart, CampCalls
<1>9. CallsFit'
  <2> SUFFICES ASSUME NEW t \in starting', t.sure, ~t.touched PROVE CrewFits(t)'
    BY DEF CallsFit
  <2>1. PICK s \in starting : /\ t.to = s.to /\ t.crew = s.crew /\ s.sure /\ ~s.touched /\ s.to # c
    BY <1>7
  <2>2. CrewFits(s) BY <2>1 DEF CampIInv, CallsFit
  <2> QED BY <1>4, <2>1, <2>2 DEF CrewFits, RunningCampaigns
<1>10. Ghosts' BY <1>1 DEF CampIInv, Ghosts
<1> QED BY <1>2, <1>6, <1>8, <1>9, <1>10 DEF CampIInv

LEMMA RowOf == ASSUME CampIInv, NEW c \in CampaignIds
               PROVE  /\ campaign[c] \in CampRows /\ campaign[c].status \in CampStatus
                      /\ campaign[c].lock \in Nat /\ campaign[c].version \in 0..MaxVersions
                      /\ campaign[c].team \in Teams /\ MaxVersions \in Nat
BY CampaignConstants DEF CampIInv, CampRowsTyped, CampRows

\* The rows that a move, a publication and an edit leave.
Moved(row, st) == [row EXCEPT !.status = st, !.lock = @ + 1]
Published(row, st, v) == [row EXCEPT !.status = st, !.version = v, !.lock = @ + 1]
Edited(row, team) == [row EXCEPT !.team = team, !.lock = @ + 1, !.status = AfterEdit(@)]

LEMMA MovedRow ==
  ASSUME NEW row \in CampRows, NEW st \in CampStatus,
         NEW to, to = Moved(row, st)
  PROVE  /\ to \in CampRows /\ to.status = st /\ to.lock = row.lock + 1
         /\ to.version = row.version /\ to.team = row.team
<1>1. row.lock + 1 \in Nat BY DEF CampRows
<1>2. to = [row EXCEPT !.status = st, !.lock = row.lock + 1] BY DEF Moved
<1> QED BY <1>1, <1>2 DEF CampRows

LEMMA PublishedRow ==
  ASSUME NEW row \in CampRows, NEW st \in CampStatus, NEW v \in 0..MaxVersions,
         NEW to, to = Published(row, st, v)
  PROVE  /\ to \in CampRows /\ to.status = st /\ to.lock = row.lock + 1
         /\ to.version = v /\ to.team = row.team
<1>1. row.lock + 1 \in Nat BY DEF CampRows
<1>2. to = [row EXCEPT !.status = st, !.version = v, !.lock = row.lock + 1] BY DEF Published
<1> QED BY <1>1, <1>2 DEF CampRows

LEMMA EditedRow ==
  ASSUME NEW row \in CampRows, NEW st \in CampStatus, NEW team \in Teams, st = AfterEdit(row.status),
         NEW to, to = Edited(row, team)
  PROVE  /\ to \in CampRows /\ to.status = st /\ to.lock = row.lock + 1
         /\ to.version = row.version /\ to.team = team
<1>1. row.lock + 1 \in Nat BY DEF CampRows
<1>2. to = [row EXCEPT !.team = team, !.lock = row.lock + 1, !.status = st] BY DEF Edited
<1> QED BY <1>1, <1>2 DEF CampRows

\* A version is added behind the others, which stay as they were.
LEMMA VersionAdded ==
  ASSUME CampIInv, NEW c \in CampaignIds, NEW team,
         published' = WithVersion(c, team), NEW to, campaign' = [campaign EXCEPT ![c] = to],
         to.version = campaign[c].version + 1, to.team = team, to.status # "none"
  PROVE  VersionsKnown' /\ AsPublished'
<1>1. campaign[c].version \in Nat BY RowOf
<1>2. DOMAIN published = CampaignIds /\ DOMAIN campaign = CampaignIds
  BY DEF CampIInv, VersionsKnown, CampRowsTyped
<1>3. campaign'[c] = to /\ \A d \in CampaignIds : d # c => campaign'[d] = campaign[d] BY <1>2
<1>4. /\ DOMAIN published' = CampaignIds
      /\ \A d \in CampaignIds : d # c => published'[d] = published[d]
      /\ published'[c] = [v \in DOMAIN published[c] \cup {NextVersion(c)} |->
                            IF v = NextVersion(c) THEN team ELSE published[c][v]]
  BY <1>2 DEF WithVersion
<1>5. DOMAIN published[c] = 1..campaign[c].version BY DEF CampIInv, VersionsKnown
<1>6. DOMAIN published'[c] = 1..to.version BY <1>1, <1>4, <1>5 DEF NextVersion
<1>7. VersionsKnown' BY <1>3, <1>4, <1>6 DEF CampIInv, VersionsKnown
<1>8. published'[c][to.version] = team /\ to.version > 0 BY <1>1, <1>4, <1>5 DEF NextVersion
<1>9. AsPublished' BY <1>3, <1>4, <1>8 DEF CampIInv, AsPublished
<1> QED BY <1>7, <1>9

\* What is neither ready, running nor paused afterwards, or keeps version and team, needs no
\* new version.
LEMMA VersionsStay ==
  ASSUME CampIInv, NEW c \in CampaignIds, published' = published,
         NEW to, campaign' = [campaign EXCEPT ![c] = to], to.version = campaign[c].version,
         to.status # "none",
         \/ to.status \notin {"ready", "running", "paused"}
         \/ to.team = campaign[c].team /\ campaign[c].status \in {"ready", "running", "paused"}
  PROVE  VersionsKnown' /\ AsPublished'
<1>2. DOMAIN published = CampaignIds /\ DOMAIN campaign = CampaignIds
  BY DEF CampIInv, VersionsKnown, CampRowsTyped
<1>3. campaign'[c] = to /\ \A d \in CampaignIds : d # c => campaign'[d] = campaign[d] BY <1>2
<1> QED BY <1>3 DEF CampIInv, VersionsKnown, AsPublished

LEMMA StepEdit ==
  ASSUME CampIInv, NEW e \in Editors, NEW c \in CampaignIds, NEW team \in Teams,
         EditCampaign(e, c, team)
  PROVE  CampIInv'
<1> DEFINE runs == campaign[c].status = "running"
           to == [campaign[c] EXCEPT !.team = team, !.lock = @ + 1, !.status = AfterEdit(@)]
           toV == [to EXCEPT !.version = IF runs THEN @ + 1 ELSE @]
<1>1. /\ SameLock(e, c) /\ (runs => NextVersion(c) <= MaxVersions)
      /\ published' = (IF runs THEN WithVersion(c, team) ELSE published)
      /\ Changed(e, c, toV)
  BY DEF EditCampaign
<1>2. campaign[c] \in CampRows /\ campaign[c].version \in 0..MaxVersions /\ MaxVersions \in Nat
  BY RowOf
<1>3. to \in CampRows /\ to.version = campaign[c].version /\ to.team = team
      /\ to.lock = campaign[c].lock + 1 /\ to.status = (IF runs THEN "running" ELSE "draft")
  <2> DEFINE st == IF runs THEN "running" ELSE "draft"
  <2>1. campaign[c] \in CampRows /\ st \in CampStatus /\ st = AfterEdit(campaign[c].status)
    BY RowOf DEF CampStatus, AfterEdit
  <2>2. to = Edited(campaign[c], team) BY DEF Edited
  <2> HIDE DEF to, st
  <2>3. /\ to \in CampRows /\ to.status = st /\ to.lock = campaign[c].lock + 1
        /\ to.version = campaign[c].version /\ to.team = team
    BY <2>1, <2>2, EditedRow
  <2> QED BY <2>3 DEF st
<1>4. /\ toV \in CampRows /\ toV.version = (IF runs THEN campaign[c].version + 1 ELSE campaign[c].version)
      /\ toV.team = team /\ toV.lock = campaign[c].lock + 1
      /\ toV.status = (IF runs THEN "running" ELSE "draft")
  <2> HIDE DEF to
  <2>1. (IF runs THEN to.version + 1 ELSE to.version) \in 0..MaxVersions
    BY <1>1, <1>2, <1>3 DEF NextVersion
  <2> QED BY <1>3, <2>1 DEF CampRows
<1>5. campaign' = [campaign EXCEPT ![c] = toV] BY <1>1 DEF Changed
<1> HIDE DEF to, toV
<1>7. toV.status # "none" BY <1>4
<1>6. VersionsKnown' /\ AsPublished'
  <2>1. CASE runs BY <1>1, <1>4, <1>5, <1>7, <2>1, VersionAdded
  <2>2. CASE ~runs BY <1>1, <1>4, <1>5, <1>7, <2>2, VersionsStay
  <2> QED BY <2>1, <2>2
<1> QED BY <1>1, <1>4, <1>6, <1>7, ChangeKeeps

LEMMA StepPublish ==
  ASSUME CampIInv, NEW e \in Editors, NEW c \in CampaignIds, PublishCampaign(e, c)
  PROVE  CampIInv'
<1> DEFINE to == [campaign[c] EXCEPT !.status = "ready", !.version = NextVersion(c),
                                     !.lock = LockAfterPublish(@)]
<1>1. /\ SameLock(e, c) /\ NextVersion(c) <= MaxVersions
      /\ published' = WithVersion(c, campaign[c].team) /\ Changed(e, c, to)
  BY DEF PublishCampaign
<1>2. /\ to \in CampRows /\ to.version = campaign[c].version + 1 /\ to.team = campaign[c].team
      /\ to.lock = campaign[c].lock + 1 /\ to.status = "ready"
  <2> DEFINE st == "ready"
             v == NextVersion(c)
  <2>1. campaign[c] \in CampRows /\ st \in CampStatus /\ v \in 0..MaxVersions
    BY <1>1, RowOf DEF CampStatus, NextVersion
  <2>2. to = Published(campaign[c], st, v) BY DEF Published, LockAfterPublish
  <2>3. v = campaign[c].version + 1 BY DEF NextVersion
  <2> HIDE DEF to, v
  <2> QED BY <2>1, <2>2, <2>3, PublishedRow
<1>3. campaign' = [campaign EXCEPT ![c] = to] BY <1>1 DEF Changed
<1> HIDE DEF to
<1>5. to.status # "none" BY <1>2
<1>4. VersionsKnown' /\ AsPublished' BY <1>1, <1>2, <1>3, <1>5, VersionAdded
<1> QED BY <1>1, <1>2, <1>4, <1>5, ChangeKeeps

LEMMA StepMove ==
  ASSUME CampIInv, NEW e \in Editors, NEW c \in CampaignIds,
         NEW st \in {"running", "paused", "completed", "archived"}, MoveCampaign(e, c, st)
  PROVE  CampIInv'
<1> DEFINE to == [campaign[c] EXCEPT !.status = st, !.lock = @ + 1]
<1>1. /\ SameLock(e, c) /\ campaign[c].status \in AllowedFrom(st) /\ Changed(e, c, to)
      /\ published' = published
  BY DEF MoveCampaign
<1>2. /\ to \in CampRows /\ to.version = campaign[c].version /\ to.team = campaign[c].team
      /\ to.lock = campaign[c].lock + 1 /\ to.status = st
  <2>1. campaign[c] \in CampRows /\ st \in CampStatus BY RowOf DEF CampStatus
  <2>2. to = Moved(campaign[c], st) BY DEF Moved
  <2> HIDE DEF to
  <2> QED BY <2>1, <2>2, MovedRow
<1>3. campaign' = [campaign EXCEPT ![c] = to] BY <1>1 DEF Changed
<1>4. st \in {"running", "paused"} => campaign[c].status \in {"ready", "running", "paused"}
  BY <1>1 DEF AllowedFrom
<1> HIDE DEF to
<1>6. to.status # "none" BY <1>2
<1>5. VersionsKnown' /\ AsPublished' BY <1>1, <1>2, <1>3, <1>4, <1>6, VersionsStay
<1> QED BY <1>1, <1>2, <1>5, <1>6, ChangeKeeps

\* A campaign that appears was shown to nobody and has no calls.
LEMMA StepCreate ==
  ASSUME CampIInv, NEW c \in CampaignIds, NEW team \in Teams, CreateCampaign(c, team)
  PROVE  CampIInv'
<1> DEFINE to == [status |-> "draft", lock |-> 1, version |-> 0, team |-> team]
<1>1. /\ campaign[c].status = "none" /\ campaign' = [campaign EXCEPT ![c] = to]
      /\ UNCHANGED <<published, seen, tied, starting, campGhost>>
  BY DEF CreateCampaign
<1>2. to \in CampRows BY CampaignConstants DEF CampRows, CampStatus
<1>3. DOMAIN campaign = CampaignIds BY DEF CampIInv, CampRowsTyped
<1>4. campaign'[c] = to /\ \A d \in CampaignIds : d # c => campaign'[d] = campaign[d] BY <1>1, <1>3
<1>5. to.status = "draft" /\ to.version = 0 OBVIOUS
<1> HIDE DEF to
<1>6. CampRowsTyped' BY <1>1, <1>2 DEF CampIInv, CampRowsTyped
<1>7. SeenIsShown' BY <1>1, <1>4 DEF CampIInv, SeenIsShown
<1>8. CallsApart' /\ Ghosts' BY <1>1 DEF CampIInv, CallsApart, Ghosts
<1>9. CallsFit' 
  <2> SUFFICES ASSUME NEW s \in starting, s.sure, ~s.touched PROVE CrewFits(s)'
    BY <1>1 DEF CallsFit
  <2>1. CrewFits(s) BY DEF CampIInv, CallsFit
  <2>2. s.to # c \/ s.to = NoCampaign BY <1>1, <2>1 DEF CrewFits, RunningCampaigns
  <2> QED BY <1>4, <2>1, <2>2 DEF CrewFits, RunningCampaigns
<1>10. VersionsKnown' /\ AsPublished'
  <2>1. campaign[c].version = 0 BY <1>1 DEF CampIInv, VersionsKnown
  <2>2. to.status \notin {"ready", "running", "paused"} /\ to.status # "none" BY <1>5
  <2> QED BY <1>1, <1>5, <2>1, <2>2, VersionsStay
<1> QED BY <1>6, <1>7, <1>8, <1>9, <1>10 DEF CampIInv

\* What a session shows is the campaign as it is at that moment.
LEMMA StepLookAt ==
  ASSUME CampIInv, NEW e \in Editors, NEW c \in CampaignIds, Look(e, c)
  PROVE  CampIInv'
<1>1. /\ campaign[c].status # "none" /\ seen' = [seen EXCEPT ![e] = Shown(c)]
      /\ UNCHANGED <<campaign, published, tied, starting, campGhost>>
  BY DEF Look
<1>2. SeenIsShown'
  <2> SUFFICES ASSUME NEW f \in Editors, NEW d \in CampaignIds, seen'[f].id = d
               PROVE  /\ seen'[f] = [id |-> d, as |-> seen'[f].as]
                      /\ campaign[d].status # "none"
                      /\ seen'[f].as.lock \in Nat /\ seen'[f].as.lock <= campaign[d].lock
                      /\ seen'[f].as.lock = campaign[d].lock => seen'[f].as = campaign[d]
    BY <1>1 DEF CampIInv, SeenIsShown
  <2>0. DOMAIN seen = Editors BY DEF CampIInv, SeenIsShown
  <2>1. CASE f # e BY <1>1, <2>0, <2>1 DEF CampIInv, SeenIsShown
  <2>2. CASE f = e
    <3>1. seen'[f] = Shown(c) BY <1>1, <2>0, <2>2
    <3>2. seen'[f].id = c /\ seen'[f].as = campaign[c] BY <3>1 DEF Shown
    <3> QED BY <1>1, <3>1, <3>2, RowOf DEF Shown
  <2> QED BY <2>1, <2>2
<1> QED BY <1>1, <1>2 DEF CampIInv, CampRowsTyped, VersionsKnown, CallsApart, AsPublished, CallsFit,
                          CrewFits, RunningCampaigns, Ghosts

LEMMA StepPick ==
  ASSUME CampIInv, NEW l \in CampLeads, NEW c \in CampaignIds \cup {NoCampaign}, NEW crew \in Crews,
         PickCrew(l, c, crew)
  PROVE  CampIInv'
<1> DEFINE new == [lead |-> l, to |-> c, crew |-> crew, sure |-> FALSE, touched |-> FALSE]
<1>1. /\ \A s \in starting : s.lead # l
      /\ starting' = starting \cup {new}
      /\ UNCHANGED <<campaign, published, seen, tied, campGhost>>
  BY DEF PickCrew
<1>2. new \in CampCalls /\ new.lead = l /\ ~new.sure BY DEF CampCalls
<1> HIDE DEF new
<1>3. CallsApart' BY <1>1, <1>2 DEF CampIInv, CallsApart
<1>4. CallsFit' BY <1>1, <1>2 DEF CampIInv, CallsFit, CrewFits, RunningCampaigns
<1> QED BY <1>1, <1>3, <1>4 DEF CampIInv, CampRowsTyped, VersionsKnown, AsPublished, SeenIsShown, Ghosts

\* A campaign that the second look found runs and has the crew, or the lead is tied to one
\* that runs and has it, or no campaign runs.
LEMMA LookFits ==
  ASSUME CampIInv, NEW s \in starting, NEW c \in LookedAgain(s)
  PROVE  c \in CampaignIds \cup {NoCampaign}
         /\ (c = NoCampaign \/ (c \in RunningCampaigns /\ s.crew \in campaign[c].team))
BY DEF LookedAgain, ResolvedFor, Resolved, RunningCampaigns

LEMMA StepLooks ==
  ASSUME CampIInv, NEW s \in starting, StartLooks(s)
  PROVE  CampIInv'
<1>1. UNCHANGED <<campaign, published, seen, tied, campGhost>> BY DEF StartLooks
<1>2. s \in CampCalls BY DEF CampIInv, CallsApart
<1>3. CallsApart' /\ CallsFit'
  <2>1. CASE starting' = starting \ {s}
    BY <1>1, <2>1 DEF CampIInv, CallsApart, CallsFit, CrewFits, RunningCampaigns
  <2>2. ASSUME NEW c \in LookedAgain(s),
               starting' = (starting \ {s}) \cup {[s EXCEPT !.to = c, !.sure = TRUE, !.touched = FALSE]}
        PROVE  CallsApart' /\ CallsFit'
    <3> DEFINE new == [s EXCEPT !.to = c, !.sure = TRUE, !.touched = FALSE]
    <3>1. c \in CampaignIds \cup {NoCampaign} BY LookFits
    <3>2. new \in CampCalls /\ new.lead = s.lead /\ new.to = c /\ new.crew = s.crew
      BY <1>2, <3>1 DEF CampCalls
    <3>3. CrewFits(new) BY <3>2, LookFits DEF CrewFits
    <3>4. starting' = (starting \ {s}) \cup {new} BY <2>2
    <3> HIDE DEF new
    <3>5. CallsApart' BY <3>2, <3>4 DEF CampIInv, CallsApart
    <3>6. CallsFit'
      <4> SUFFICES ASSUME NEW t \in starting', t.sure, ~t.touched PROVE CrewFits(t)'
        BY DEF CallsFit
      <4>1. CrewFits(t) BY <3>3, <3>4 DEF CampIInv, CallsFit
      <4> QED BY <1>1, <4>1 DEF CrewFits, RunningCampaigns
    <3> QED BY <3>5, <3>6
  <2> QED BY <2>1, <2>2 DEF StartLooks
<1> QED BY <1>1, <1>3 DEF CampIInv, CampRowsTyped, VersionsKnown, AsPublished, SeenIsShown, Ghosts

LEMMA StepCommits ==
  ASSUME CampIInv, NEW s \in starting, StartCommits(s)
  PROVE  CampIInv'
<1>1. s.sure /\ starting' = starting \ {s} /\ UNCHANGED <<campaign, published, seen>>
  BY DEF StartCommits
<1>2. CrewFits(s) \/ s.touched BY <1>1 DEF CampIInv, CallsFit
<1>3. campGhost' = campGhost BY <1>2 DEF StartCommits
<1>4. CallsFit' BY <1>1 DEF CampIInv, CallsFit, CrewFits, RunningCampaigns
<1> QED BY <1>1, <1>3, <1>4 DEF CampIInv, CampRowsTyped, VersionsKnown, CallsApart, AsPublished,
                                 SeenIsShown, Ghosts

LEMMA InitCamp == CampInit => CampIInv
<1> SUFFICES ASSUME CampInit PROVE CampIInv
  OBVIOUS
<1> DEFINE row == [status |-> "none", lock |-> 0, version |-> 0, team |-> {}]
<1>1. campaign = [c \in CampaignIds |-> row] /\ row \in CampRows
  BY CampaignConstants DEF CampInit, CampRows, CampStatus, Teams
<1>2. row.status = "none" /\ row.version = 0 OBVIOUS
<1> HIDE DEF row
<1>3. CampRowsTyped BY <1>1 DEF CampRowsTyped
<1>4. VersionsKnown /\ AsPublished
  <2>1. \A c \in CampaignIds : DOMAIN published[c] = {} BY DEF CampInit
  <2>2. 1..0 = {} OBVIOUS
  <2> QED BY <1>1, <1>2, <2>1, <2>2 DEF CampInit, VersionsKnown, AsPublished
<1>5. SeenIsShown BY CampaignConstants DEF CampInit, SeenIsShown
<1> QED BY <1>3, <1>4, <1>5 DEF CampInit, CampIInv, CallsApart, CallsFit, Ghosts

LEMMA StepCamp == CampIInv /\ [CampNext]_campVars => CampIInv'
<1> SUFFICES ASSUME CampIInv, [CampNext]_campVars PROVE CampIInv'
  OBVIOUS
<1>1. CASE UNCHANGED campVars
  BY <1>1 DEF campVars, CampIInv, CampRowsTyped, VersionsKnown, CallsApart, AsPublished, SeenIsShown,
              CallsFit, CrewFits, RunningCampaigns, Ghosts
<1>2. CASE CampNext
  BY <1>2, StepCreate, StepLookAt, StepPublish, StepEdit, StepMove, StepPick, StepLooks, StepCommits
     DEF CampNext
<1> QED BY <1>1, <1>2

\* A running campaign is as published, nobody changes a campaign that his view does not show,
\* and a call starts with a crew of a campaign that runs unless it was changed after the look.
THEOREM AsPublishedAndSeen == CampSpec => []CampInv
<1>1. CampInit => CampIInv BY InitCamp
<1>2. CampIInv /\ [CampNext]_campVars => CampIInv' BY StepCamp
<1>3. CampIInv => CampInv BY CampIsInv
<1> QED BY <1>1, <1>2, <1>3, PTL DEF CampSpec

\* What a change may do to the row and to the versions of a campaign.
LEMMA VersionsOnlyGrow ==
  ASSUME CampIInv, NEW c \in CampaignIds, NEW team, published' = WithVersion(c, team)
  PROVE  \A d \in CampaignIds : \A v \in DOMAIN published[d] : published'[d][v] = published[d][v]
<1>1. campaign[c].version \in Nat BY RowOf
<1>2. DOMAIN published = CampaignIds /\ DOMAIN published[c] = 1..campaign[c].version
  BY DEF CampIInv, VersionsKnown
<1>3. NextVersion(c) \notin DOMAIN published[c] BY <1>1, <1>2 DEF NextVersion
<1> QED BY <1>2, <1>3 DEF WithVersion

\* A completed campaign can only be archived, an archived one does not change, and a version
\* stays as it was published.
LEMMA StepHistory ==
  CampIInv /\ [CampNext]_campVars =>
    \A c \in CampaignIds :
        /\ campaign[c].status = "completed" => campaign'[c] = campaign[c] \/ campaign'[c].status = "archived"
        /\ campaign[c].status = "archived" => campaign'[c] = campaign[c]
        /\ \A v \in DOMAIN published[c] : published'[c][v] = published[c][v]
<1> SUFFICES ASSUME CampIInv, [CampNext]_campVars, NEW d \in CampaignIds
             PROVE  /\ campaign[d].status = "completed" =>
                         campaign'[d] = campaign[d] \/ campaign'[d].status = "archived"
                    /\ campaign[d].status = "archived" => campaign'[d] = campaign[d]
                    /\ \A v \in DOMAIN published[d] : published'[d][v] = published[d][v]
  OBVIOUS
<1>0. DOMAIN campaign = CampaignIds BY DEF CampIInv, CampRowsTyped
<1>1. CASE UNCHANGED <<campaign, published>> BY <1>1
<1>2. ASSUME NEW c \in CampaignIds, NEW team \in Teams, CreateCampaign(c, team)
      PROVE  /\ published' = published
             /\ d = c => campaign[d].status = "none"
             /\ d # c => campaign'[d] = campaign[d]
  BY <1>0, <1>2 DEF CreateCampaign
<1>3. ASSUME NEW e \in Editors, NEW c \in CampaignIds, NEW team \in Teams, EditCampaign(e, c, team)
      PROVE  /\ published' = published \/ published' = WithVersion(c, team)
             /\ d = c => campaign[d].status \notin {"completed", "archived"}
             /\ d # c => campaign'[d] = campaign[d]
  BY <1>0, <1>3 DEF EditCampaign, Changed
<1>4. ASSUME NEW e \in Editors, NEW c \in CampaignIds, PublishCampaign(e, c)
      PROVE  /\ published' = WithVersion(c, campaign[c].team)
             /\ d = c => campaign[d].status \notin {"completed", "archived"}
             /\ d # c => campaign'[d] = campaign[d]
  BY <1>0, <1>4 DEF PublishCampaign, Changed
<1>5. ASSUME NEW e \in Editors, NEW c \in CampaignIds,
             NEW st \in {"running", "paused", "completed", "archived"}, MoveCampaign(e, c, st)
      PROVE  /\ published' = published
             /\ d = c => campaign[d].status # "archived"
             /\ d = c /\ campaign[d].status = "completed" => campaign'[d].status = "archived"
             /\ d # c => campaign'[d] = campaign[d]
  <2>1. SameLock(e, c) /\ campaign[c].status \in AllowedFrom(st) /\ published' = published
        /\ campaign' = [campaign EXCEPT ![c] = [campaign[c] EXCEPT !.status = st, !.lock = @ + 1]]
    BY <1>5 DEF MoveCampaign, Changed
  <2>2. campaign[c].status # "archived" BY <2>1 DEF AllowedFrom
  <2>3. campaign[c].status = "completed" => st = "archived" BY <2>1 DEF AllowedFrom
  <2>4. campaign'[c] = Moved(campaign[c], st) BY <1>0, <2>1 DEF Moved
  <2>5. st \in CampStatus /\ campaign[c] \in CampRows BY RowOf DEF CampStatus
  <2>6. campaign'[c].status = st BY <2>4, <2>5, MovedRow
  <2> QED BY <1>0, <2>1, <2>2, <2>3, <2>6
<1>6. CASE \/ \E e \in Editors, c \in CampaignIds : Look(e, c)
           \/ \E l \in CampLeads, c \in CampaignIds \cup {NoCampaign}, crew \in Crews : PickCrew(l, c, crew)
           \/ \E s \in starting : StartLooks(s) \/ StartCommits(s)
  BY <1>6 DEF Look, PickCrew, StartLooks, StartCommits
<1> QED BY <1>1, <1>2, <1>3, <1>4, <1>5, <1>6, VersionsOnlyGrow DEF CampNext, campVars
-----------------------------------------------------------------------------
(* Changes of the plan: rows and tasks fit each other, the keys of Stripe  *)
(* count what it executed, and a change that waits for its payment is told *)
(* to Stripe, is being told, or lost its process.                          *)
Kinds == {"seat_change", "plan_change"}
ChangeRows == [kind : Kinds, plan : Plans, to : Totals, status : Open \cup {"applied", "canceled", "failed"}]
CheckedTasks == [pc : {"checked"}, kind : Kinds, plan : Plans, to : Totals, extra : Nat, later : BOOLEAN]
CallTasks == [pc : {"base", "seat"}, kind : Kinds, plan : Plans, extra : Nat, due : BOOLEAN]
ChangeTasks == {NoTask} \cup CheckedTasks \cup CallTasks \cup {[pc |-> "mark"], [pc |-> "over"]}
ChangeGhosts == [done : [Changes -> Nat], told : [Changes -> Int], broken : SUBSET Changes]

RowsTyped == chgRow \in [Changes -> {NoChange} \cup ChangeRows]
TasksOfChanges == chgTask \in [Changes -> ChangeTasks]
PlansTyped ==
  /\ stripePlan \in PlanStates /\ paidPlan \in PlanStates /\ chgFaults \in 0..MaxFaults
  /\ keysSeen \subseteq Changes \X {"base", "seat"} /\ chgGhost \in ChangeGhosts
RowFitsTask ==
  \A c \in Changes : /\ chgTask[c].pc \in {"idle", "checked"} => chgRow[c] = NoChange
                     /\ chgTask[c].pc \in {"base", "seat", "mark"} => chgRow[c] # NoChange
OpenAlone == \A c, d \in Changes : chgRow[c].status \in Open /\ chgRow[d].status \in Open => c = d
KeysCount ==
  \A c \in Changes : /\ <<c, "seat">> \in keysSeen => chgGhost.done[c] = 1
                     /\ <<c, "seat">> \notin keysSeen => chgGhost.done[c] = 0
ToldOrOnItsWay ==
  \A c \in Changes :
    /\ chgTask[c].pc = "mark" => chgGhost.done[c] > 0
    /\ chgRow[c].status = "applied" => c \in chgGhost.broken \/ chgGhost.done[c] > 0
    /\ chgRow[c].status = "pending_payment" =>
         \/ c \in chgGhost.broken \/ chgGhost.done[c] > 0 \/ chgTask[c].pc \in {"base", "seat"}

ChgIInv ==
  /\ RowsTyped /\ TasksOfChanges /\ PlansTyped
  /\ RowFitsTask /\ OpenAlone /\ KeysCount /\ ToldOrOnItsWay

LEMMA ChgIsInv == ChgIInv => ChangesInv
<1> SUFFICES ASSUME ChgIInv PROVE ChangesInv
  OBVIOUS
<1>1. \A c \in Changes : /\ chgRow[c].status \in Open \cup {"none", "applied", "canceled", "failed"}
                         /\ chgTask[c].pc \in {"idle", "checked", "base", "seat", "mark", "over"}
  BY DEF ChgIInv, RowsTyped, TasksOfChanges, NoChange, ChangeRows, ChangeTasks, NoTask, CheckedTasks,
         CallTasks
<1>2. ChangesTypeOK BY <1>1 DEF ChgIInv, PlansTyped, ChangesTypeOK
<1>3. OneChangeOpen
  <2> DEFINE S == {c \in Changes : chgRow[c].status \in Open}
  <2>1. S = {} \/ \E c \in S : S = {c} BY DEF ChgIInv, OpenAlone
  <2>2. Cardinality({}) = 0 /\ \A c : Cardinality({c}) = 1 BY FS_EmptySet, FS_Singleton
  <2>3. Cardinality(S) <= 1
    <3> HIDE DEF S
    <3> QED BY <2>1, <2>2
  <2> QED BY <2>3 DEF OneChangeOpen
<1>4. ToldOnce
  <2>1. \A c \in Changes : chgGhost.done[c] \in {0, 1} BY DEF ChgIInv, KeysCount
  <2> QED BY <2>1 DEF ToldOnce
<1>5. AppliedWasTold BY DEF ChgIInv, ToldOrOnItsWay, AppliedWasTold
<1> QED BY <1>2, <1>3, <1>4, <1>5 DEF ChangesInv

LEMMA SeatsAbove == ASSUME NEW n \in Totals, NEW p \in Plans PROVE Above(n, IncludedIn[p]) \in Nat
BY ChangesConstants DEF Above, Plans

LEMMA StepAskSeats ==
  ASSUME ChgIInv, NEW c \in Changes, NEW n \in Totals, AskSeats(c, n) PROVE ChgIInv'
<1> DEFINE to == [pc |-> "checked", kind |-> "seat_change", plan |-> paidPlan.plan, to |-> n,
                  extra |-> Above(n, IncludedIn[paidPlan.plan]),
                  later |-> n < IncludedIn[paidPlan.plan] + paidPlan.extra]
<1>1. /\ chgTask[c] = NoTask /\ chgTask' = [chgTask EXCEPT ![c] = to]
      /\ UNCHANGED <<chgRow, stripePlan, paidPlan, keysSeen, periodOver, subEnded, chgFaults, chgGhost>>
  BY DEF AskSeats
<1>2. to \in CheckedTasks
  <2>1. paidPlan.plan \in Plans BY DEF ChgIInv, PlansTyped, PlanStates
  <2>2. Above(n, IncludedIn[paidPlan.plan]) \in Nat BY <2>1, SeatsAbove
  <2>3. (n < IncludedIn[paidPlan.plan] + paidPlan.extra) \in BOOLEAN OBVIOUS
  <2> QED BY <2>1, <2>2, <2>3 DEF CheckedTasks, Kinds
<1>3. to.pc = "checked" OBVIOUS
<1> HIDE DEF to
<1>4. TasksOfChanges' BY <1>1, <1>2 DEF ChgIInv, TasksOfChanges, ChangeTasks
<1>5. RowFitsTask' BY <1>1, <1>3 DEF ChgIInv, RowFitsTask, TasksOfChanges, NoTask
<1>6. ToldOrOnItsWay' BY <1>1, <1>3 DEF ChgIInv, ToldOrOnItsWay, TasksOfChanges, NoTask
<1> QED BY <1>1, <1>4, <1>5, <1>6 DEF ChgIInv, RowsTyped, PlansTyped, OpenAlone, KeysCount

LEMMA StepAskPlan ==
  ASSUME ChgIInv, NEW c \in Changes, NEW p \in Plans, NEW n \in Totals, AskPlan(c, p, n) PROVE ChgIInv'
<1> DEFINE to == [pc |-> "checked", kind |-> "plan_change", plan |-> p, to |-> n,
                  extra |-> Above(n, IncludedIn[p]), later |-> RankOf[p] < RankOf[paidPlan.plan]]
<1>1. /\ chgTask[c] = NoTask /\ chgTask' = [chgTask EXCEPT ![c] = to]
      /\ UNCHANGED <<chgRow, stripePlan, paidPlan, keysSeen, periodOver, subEnded, chgFaults, chgGhost>>
  BY DEF AskPlan
<1>2. to \in CheckedTasks
  <2>1. Above(n, IncludedIn[p]) \in Nat BY SeatsAbove
  <2>2. (RankOf[p] < RankOf[paidPlan.plan]) \in BOOLEAN OBVIOUS
  <2> QED BY <2>1, <2>2 DEF CheckedTasks, Kinds
<1>3. to.pc = "checked" OBVIOUS
<1> HIDE DEF to
<1>4. TasksOfChanges' BY <1>1, <1>2 DEF ChgIInv, TasksOfChanges, ChangeTasks
<1>5. RowFitsTask' BY <1>1, <1>3 DEF ChgIInv, RowFitsTask, TasksOfChanges, NoTask
<1>6. ToldOrOnItsWay' BY <1>1, <1>3 DEF ChgIInv, ToldOrOnItsWay, TasksOfChanges, NoTask
<1> QED BY <1>1, <1>4, <1>5, <1>6 DEF ChgIInv, RowsTyped, PlansTyped, OpenAlone, KeysCount

LEMMA StepInsert == ASSUME ChgIInv, NEW c \in Changes, InsertChange(c) PROVE ChgIInv'
<1> DEFINE t == chgTask[c]
           row == [kind |-> t.kind, plan |-> t.plan, to |-> t.to,
                   status |-> IF t.later THEN "scheduled" ELSE "pending_payment"]
           to == IF t.later THEN [pc |-> "over"]
                 ELSE [pc |-> FirstCall(t.kind), kind |-> t.kind, plan |-> t.plan, extra |-> t.extra,
                       due |-> FALSE]
           over == [pc |-> "over"]
<1>0. t \in CheckedTasks /\ t.pc = "checked"
  BY DEF InsertChange, ChgIInv, TasksOfChanges, ChangeTasks, NoTask, CallTasks
<1>1. /\ UNCHANGED <<stripePlan, paidPlan, keysSeen, periodOver, subEnded, chgFaults, chgGhost>>
      /\ \/ chgTask' = [chgTask EXCEPT ![c] = over] /\ chgRow' = chgRow
         \/ /\ chgRow' = [chgRow EXCEPT ![c] = row] /\ chgTask' = [chgTask EXCEPT ![c] = to]
            /\ \A d \in Changes : chgRow[d].status \notin Open
  BY DEF InsertChange, MayInsert
<1>2. row \in ChangeRows /\ row # NoChange /\ row.status \in Open
  <2>1. (IF t.later THEN "scheduled" ELSE "pending_payment") \in Open BY DEF Open
  <2>2. t.kind \in Kinds /\ t.plan \in Plans /\ t.to \in Totals BY <1>0 DEF CheckedTasks
  <2> HIDE DEF t
  <2>3. row \in ChangeRows BY <2>1, <2>2 DEF ChangeRows
  <2>4. row.status # "none" BY <2>1 DEF Open
  <2> QED BY <2>1, <2>3, <2>4 DEF NoChange
<1>3. /\ to \in ChangeTasks /\ to.pc \in {"over", "base", "seat"}
      /\ row.status = "pending_payment" => to.pc \in {"base", "seat"}
  <2>1. CASE t.later BY <2>1 DEF ChangeTasks
  <2>2. CASE ~t.later
    <3>1. /\ t.kind \in Kinds /\ t.plan \in Plans /\ t.extra \in Nat /\ FALSE \in BOOLEAN
          /\ FirstCall(t.kind) \in {"base", "seat"}
      BY <1>0 DEF CheckedTasks, FirstCall
    <3>2. to = [pc |-> FirstCall(t.kind), kind |-> t.kind, plan |-> t.plan, extra |-> t.extra,
                due |-> FALSE]
      BY <2>2
    <3> HIDE DEF t, to
    <3>3. to \in CallTasks /\ to.pc \in {"base", "seat"} BY <3>1, <3>2 DEF CallTasks
    <3> QED BY <3>3 DEF ChangeTasks
  <2> QED BY <2>1, <2>2
<1>4. over \in ChangeTasks /\ over.pc = "over" BY DEF ChangeTasks
<1>5. chgRow[c] = NoChange BY <1>0 DEF ChgIInv, RowFitsTask
<1>6. DOMAIN chgRow = Changes /\ DOMAIN chgTask = Changes BY DEF ChgIInv, RowsTyped, TasksOfChanges
<1> HIDE DEF row, to, over, t
<1>7. CASE chgTask' = [chgTask EXCEPT ![c] = over] /\ chgRow' = chgRow
  <2>1. RowFitsTask' /\ ToldOrOnItsWay'
    BY <1>1, <1>4, <1>5, <1>6, <1>7 DEF ChgIInv, RowFitsTask, ToldOrOnItsWay, NoChange
  <2>2. TasksOfChanges' BY <1>4, <1>7 DEF ChgIInv, TasksOfChanges
  <2> QED BY <1>1, <1>7, <2>1, <2>2 DEF ChgIInv, RowsTyped, PlansTyped, OpenAlone, KeysCount
<1>8. CASE /\ chgRow' = [chgRow EXCEPT ![c] = row] /\ chgTask' = [chgTask EXCEPT ![c] = to]
           /\ \A d \in Changes : chgRow[d].status \notin Open
  <2>1. RowFitsTask' BY <1>1, <1>2, <1>3, <1>6, <1>8 DEF ChgIInv, RowFitsTask
  <2>2. ToldOrOnItsWay'
    BY <1>1, <1>2, <1>3, <1>6, <1>8 DEF ChgIInv, ToldOrOnItsWay, Open
  <2>3. TasksOfChanges' BY <1>3, <1>8 DEF ChgIInv, TasksOfChanges
  <2>4. RowsTyped' BY <1>2, <1>8 DEF ChgIInv, RowsTyped
  <2>5. OpenAlone' BY <1>6, <1>8 DEF OpenAlone
  <2> QED BY <1>1, <2>1, <2>2, <2>3, <2>4, <2>5 DEF ChgIInv, PlansTyped, KeysCount
<1> QED BY <1>1, <1>7, <1>8

LEMMA StepApply == ASSUME ChgIInv, NEW c \in Changes, ApplyScheduled(c) PROVE ChgIInv'
<1> DEFINE r == chgRow[c]
           canceled == [r EXCEPT !.status = "canceled"]
           seats == IF r.kind = "plan_change" THEN Above(r.to, IncludedIn[r.plan]) ELSE r.to
           to == [pc |-> FirstCall(r.kind), kind |-> r.kind, plan |-> r.plan, due |-> TRUE, extra |-> seats]
<1>1. /\ r.status = "scheduled" /\ chgTask[c].pc = "over"
      /\ UNCHANGED <<stripePlan, paidPlan, keysSeen, periodOver, subEnded, chgFaults, chgGhost>>
      /\ \/ chgRow' = [chgRow EXCEPT ![c] = canceled] /\ chgTask' = chgTask
         \/ chgTask' = [chgTask EXCEPT ![c] = to] /\ chgRow' = chgRow
  BY DEF ApplyScheduled
<1>2. r \in ChangeRows BY <1>1 DEF ChgIInv, RowsTyped, NoChange
<1>3. r # NoChange BY <1>1 DEF NoChange
<1>4. canceled \in ChangeRows /\ canceled.status = "canceled" BY <1>2 DEF ChangeRows
<1>5. canceled # NoChange BY <1>4 DEF NoChange
<1>6. to \in CallTasks /\ to.pc \in {"base", "seat"}
  <2>1. r.kind \in Kinds /\ r.plan \in Plans /\ r.to \in Totals BY <1>2 DEF ChangeRows
  <2>2. seats \in Nat
    <3>1. Above(r.to, IncludedIn[r.plan]) \in Nat /\ r.to \in Nat BY <2>1, SeatsAbove, ChangesConstants
    <3> QED BY <3>1
  <2>3. FirstCall(r.kind) \in {"base", "seat"} BY DEF FirstCall
  <2> HIDE DEF r, seats
  <2> QED BY <2>1, <2>2, <2>3 DEF CallTasks
<1>7. DOMAIN chgRow = Changes /\ DOMAIN chgTask = Changes BY DEF ChgIInv, RowsTyped, TasksOfChanges
<1> HIDE DEF canceled, to, seats
<1>8. CASE chgRow' = [chgRow EXCEPT ![c] = canceled] /\ chgTask' = chgTask
  <2>1. RowFitsTask' BY <1>1, <1>3, <1>5, <1>7, <1>8 DEF ChgIInv, RowFitsTask
  <2>2. ToldOrOnItsWay' BY <1>1, <1>4, <1>7, <1>8 DEF ChgIInv, ToldOrOnItsWay
  <2>3. RowsTyped' BY <1>4, <1>8 DEF ChgIInv, RowsTyped
  <2>4. OpenAlone' BY <1>4, <1>7, <1>8 DEF ChgIInv, OpenAlone, Open
  <2> QED BY <1>1, <1>8, <2>1, <2>2, <2>3, <2>4 DEF ChgIInv, TasksOfChanges, PlansTyped, KeysCount
<1>9. CASE chgTask' = [chgTask EXCEPT ![c] = to] /\ chgRow' = chgRow
  <2>1. RowFitsTask' BY <1>1, <1>3, <1>6, <1>7, <1>9 DEF ChgIInv, RowFitsTask
  <2>2. ToldOrOnItsWay' BY <1>1, <1>6, <1>7, <1>9 DEF ChgIInv, ToldOrOnItsWay
  <2>3. TasksOfChanges' BY <1>6, <1>9 DEF ChgIInv, TasksOfChanges, ChangeTasks
  <2> QED BY <1>1, <1>9, <2>1, <2>2, <2>3 DEF ChgIInv, RowsTyped, PlansTyped, OpenAlone, KeysCount
<1> QED BY <1>1, <1>8, <1>9

\* The task of a change that talks to Stripe.
LEMMA CallOf ==
  ASSUME ChgIInv, NEW c \in Changes, chgTask[c].pc \in {"base", "seat"}
  PROVE  /\ chgTask[c] \in CallTasks /\ chgTask[c].plan \in Plans /\ chgTask[c].extra \in Nat
         /\ chgRow[c] \in ChangeRows /\ chgRow[c] # NoChange
BY DEF ChgIInv, TasksOfChanges, ChangeTasks, NoTask, CheckedTasks, CallTasks, RowsTyped, RowFitsTask

LEMMA StepCallBase == ASSUME ChgIInv, NEW c \in Changes, CallBase(c) PROVE ChgIInv'
<1> DEFINE t == chgTask[c]
           to == [t EXCEPT !.pc = "seat"]
           told == [stripePlan EXCEPT !.plan = t.plan]
<1>1. /\ t.pc = "base" /\ chgTask' = [chgTask EXCEPT ![c] = to]
      /\ stripePlan' \in {stripePlan, told}
      /\ keysSeen' = keysSeen \cup {<<c, "base">>}
      /\ UNCHANGED <<chgRow, paidPlan, periodOver, subEnded, chgFaults, chgGhost>>
  BY DEF CallBase
<1>2. t \in CallTasks /\ t.plan \in Plans /\ chgRow[c] # NoChange BY <1>1, CallOf
<1>3. to \in CallTasks /\ to.pc = "seat" BY <1>2 DEF CallTasks
<1>4. told \in PlanStates BY <1>2 DEF ChgIInv, PlansTyped, PlanStates
<1> HIDE DEF to, told
<1>5. PlansTyped' BY <1>1, <1>4 DEF ChgIInv, PlansTyped
<1>6. TasksOfChanges' BY <1>1, <1>3 DEF ChgIInv, TasksOfChanges, ChangeTasks
<1>7. DOMAIN chgTask = Changes BY DEF ChgIInv, TasksOfChanges
<1>8. RowFitsTask' /\ ToldOrOnItsWay'
  BY <1>1, <1>2, <1>3, <1>7 DEF ChgIInv, RowFitsTask, ToldOrOnItsWay
<1>9. KeysCount' BY <1>1 DEF ChgIInv, KeysCount
<1> QED BY <1>1, <1>5, <1>6, <1>8, <1>9 DEF ChgIInv, RowsTyped, OpenAlone

\* Stripe executes the call for the seats of a change: the key is new, and the change is told.
LEMMA StepCallSeat == ASSUME ChgIInv, NEW c \in Changes, CallSeat(c) PROVE ChgIInv'
<1> DEFINE t == chgTask[c]
           to == [pc |-> IF t.due THEN "mark" ELSE "over"]
           told == [stripePlan EXCEPT !.extra = t.extra]
           done == [chgGhost.done EXCEPT ![c] = @ + 1]
<1>1. /\ t.pc = "seat" /\ chgTask' = [chgTask EXCEPT ![c] = to]
      /\ IF <<c, "seat">> \in keysSeen THEN stripePlan' = stripePlan /\ chgGhost' = chgGhost
         ELSE /\ stripePlan' = told
              /\ chgGhost' = [chgGhost EXCEPT !.done[c] = @ + 1, !.told[c] = t.extra]
      /\ keysSeen' = keysSeen \cup {<<c, "seat">>}
      /\ UNCHANGED <<chgRow, paidPlan, periodOver, subEnded, chgFaults>>
  BY DEF CallSeat, Replayed
<1>2. t \in CallTasks /\ t.extra \in Nat /\ chgRow[c] # NoChange BY <1>1, CallOf
<1>3. to \in ChangeTasks /\ to.pc \in {"mark", "over"} BY DEF ChangeTasks
<1>4. told \in PlanStates BY <1>2 DEF ChgIInv, PlansTyped, PlanStates
<1> HIDE DEF to, told
<1>5. /\ chgGhost.done \in [Changes -> Nat] /\ chgGhost.told \in [Changes -> Int]
      /\ chgGhost.broken \in SUBSET Changes /\ chgGhost \in ChangeGhosts
  BY DEF ChgIInv, PlansTyped, ChangeGhosts
<1>6. /\ chgGhost' \in ChangeGhosts /\ chgGhost'.broken = chgGhost.broken
      /\ chgGhost'.done = (IF <<c, "seat">> \in keysSeen THEN chgGhost.done ELSE done)
  <2>1. CASE <<c, "seat">> \in keysSeen BY <1>1, <1>5, <2>1
  <2>2. CASE <<c, "seat">> \notin keysSeen
    <3> DEFINE tolds == [chgGhost.told EXCEPT ![c] = t.extra]
    <3>1. chgGhost' = [chgGhost EXCEPT !.done = done, !.told = tolds] BY <1>1, <2>2
    <3>2. done \in [Changes -> Nat] /\ tolds \in [Changes -> Int] BY <1>2, <1>5
    <3> HIDE DEF done, tolds
    <3> QED BY <1>5, <2>2, <3>1, <3>2 DEF ChangeGhosts
  <2> QED BY <2>1, <2>2
<1>7. /\ \A d \in Changes : d # c => chgGhost'.done[d] = chgGhost.done[d]
      /\ chgGhost'.done[c] = 1
  BY <1>5, <1>6 DEF ChgIInv, KeysCount
<1>8. KeysCount' BY <1>1, <1>7 DEF ChgIInv, KeysCount
<1>9. PlansTyped' BY <1>1, <1>4, <1>6 DEF ChgIInv, PlansTyped
<1>10. TasksOfChanges' BY <1>1, <1>3 DEF ChgIInv, TasksOfChanges
<1>11. DOMAIN chgTask = Changes BY DEF ChgIInv, TasksOfChanges
<1>12. RowFitsTask' BY <1>1, <1>2, <1>3, <1>11 DEF ChgIInv, RowFitsTask
<1>13. ToldOrOnItsWay' BY <1>1, <1>3, <1>6, <1>7, <1>11 DEF ChgIInv, ToldOrOnItsWay
<1> QED BY <1>1, <1>8, <1>9, <1>10, <1>12, <1>13 DEF ChgIInv, RowsTyped, OpenAlone

LEMMA StepCallFails == ASSUME ChgIInv, NEW c \in Changes, CallFails(c) PROVE ChgIInv'
<1> DEFINE failed == [chgRow[c] EXCEPT !.status = "failed"]
           over == [pc |-> "over"]
<1>1. /\ chgTask[c].pc \in {"base", "seat"} /\ (chgFaults > 0 \/ subEnded)
      /\ chgRow' = [chgRow EXCEPT ![c] = failed] /\ chgTask' = [chgTask EXCEPT ![c] = over]
      /\ chgFaults' = (IF subEnded THEN chgFaults ELSE chgFaults - 1)
      /\ UNCHANGED <<stripePlan, paidPlan, keysSeen, periodOver, subEnded, chgGhost>>
  BY DEF CallFails
<1>2. chgRow[c] \in ChangeRows BY <1>1, CallOf
<1>3. failed \in ChangeRows /\ failed.status = "failed" BY <1>2 DEF ChangeRows
<1>4. over \in ChangeTasks /\ over.pc = "over" BY DEF ChangeTasks
<1>5. DOMAIN chgRow = Changes /\ DOMAIN chgTask = Changes BY DEF ChgIInv, RowsTyped, TasksOfChanges
<1> HIDE DEF failed, over
<1>6. RowsTyped' BY <1>1, <1>3 DEF ChgIInv, RowsTyped
<1>7. TasksOfChanges' BY <1>1, <1>4 DEF ChgIInv, TasksOfChanges
<1>8. PlansTyped' BY <1>1, ChangesConstants DEF ChgIInv, PlansTyped
<1>9. RowFitsTask' /\ ToldOrOnItsWay'
  BY <1>1, <1>3, <1>4, <1>5 DEF ChgIInv, RowFitsTask, ToldOrOnItsWay
<1>10. OpenAlone' BY <1>1, <1>3, <1>5 DEF ChgIInv, OpenAlone, Open
<1> QED BY <1>1, <1>6, <1>7, <1>8, <1>9, <1>10 DEF ChgIInv, KeysCount

LEMMA StepMark == ASSUME ChgIInv, NEW c \in Changes, MarkPending(c) PROVE ChgIInv'
<1> DEFINE marked == Marked(chgRow[c])
           over == [pc |-> "over"]
<1>1. /\ chgTask[c].pc = "mark"
      /\ chgRow' = [chgRow EXCEPT ![c] = marked] /\ chgTask' = [chgTask EXCEPT ![c] = over]
      /\ UNCHANGED <<stripePlan, paidPlan, keysSeen, periodOver, subEnded, chgFaults, chgGhost>>
  BY DEF MarkPending
<1>2. chgRow[c] \in ChangeRows /\ chgGhost.done[c] > 0
  BY <1>1 DEF ChgIInv, RowFitsTask, RowsTyped, ToldOrOnItsWay
<1>3. /\ marked \in ChangeRows
      /\ marked.status = IF chgRow[c].status = "scheduled" THEN "pending_payment" ELSE chgRow[c].status
  BY <1>2 DEF ChangeRows, Marked, Open
<1>4. over \in ChangeTasks /\ over.pc = "over" BY DEF ChangeTasks
<1>5. DOMAIN chgRow = Changes /\ DOMAIN chgTask = Changes BY DEF ChgIInv, RowsTyped, TasksOfChanges
<1> HIDE DEF marked, over
<1>6. RowsTyped' BY <1>1, <1>3 DEF ChgIInv, RowsTyped
<1>7. TasksOfChanges' BY <1>1, <1>4 DEF ChgIInv, TasksOfChanges
<1>8. RowFitsTask' BY <1>1, <1>4, <1>5 DEF ChgIInv, RowFitsTask
<1>9. ToldOrOnItsWay' BY <1>1, <1>2, <1>4, <1>5 DEF ChgIInv, ToldOrOnItsWay
<1>10. OpenAlone' BY <1>1, <1>3, <1>5 DEF ChgIInv, OpenAlone, Open
<1> QED BY <1>1, <1>6, <1>7, <1>8, <1>9, <1>10 DEF ChgIInv, PlansTyped, KeysCount

LEMMA StepProcessDies == ASSUME ChgIInv, NEW c \in Changes, ProcessDies(c) PROVE ChgIInv'
<1> DEFINE over == [pc |-> "over"]
<1>1. /\ chgTask[c].pc \in {"base", "seat", "mark"} /\ chgFaults > 0
      /\ chgTask' = [chgTask EXCEPT ![c] = over] /\ chgFaults' = chgFaults - 1
      /\ chgGhost' = [chgGhost EXCEPT !.broken = chgGhost.broken \cup {c}]
      /\ UNCHANGED <<chgRow, stripePlan, paidPlan, keysSeen, periodOver, subEnded>>
  BY DEF ProcessDies
<1>2. over \in ChangeTasks /\ over.pc = "over" BY DEF ChangeTasks
<1>3. /\ chgGhost' \in ChangeGhosts /\ chgGhost'.done = chgGhost.done
      /\ chgGhost'.broken = chgGhost.broken \cup {c}
  BY <1>1 DEF ChgIInv, PlansTyped, ChangeGhosts
<1>4. DOMAIN chgTask = Changes BY DEF ChgIInv, TasksOfChanges
<1> HIDE DEF over
<1>5. TasksOfChanges' BY <1>1, <1>2 DEF ChgIInv, TasksOfChanges
<1>6. PlansTyped' BY <1>1, <1>3, ChangesConstants DEF ChgIInv, PlansTyped
<1>7. RowFitsTask' BY <1>1, <1>2, <1>4 DEF ChgIInv, RowFitsTask
<1>8. ToldOrOnItsWay' BY <1>1, <1>2, <1>3, <1>4 DEF ChgIInv, ToldOrOnItsWay
<1>9. KeysCount' BY <1>1, <1>3 DEF ChgIInv, KeysCount
<1> QED BY <1>1, <1>5, <1>6, <1>7, <1>8, <1>9 DEF ChgIInv, RowsTyped, OpenAlone

LEMMA StepCancel == ASSUME ChgIInv, NEW c \in Changes, CancelPending(c) PROVE ChgIInv'
<1> DEFINE canceled == [chgRow[c] EXCEPT !.status = "canceled"]
<1>1. /\ chgRow[c].status = "scheduled" /\ chgRow' = [chgRow EXCEPT ![c] = canceled]
      /\ UNCHANGED <<chgTask, stripePlan, paidPlan, keysSeen, periodOver, subEnded, chgFaults, chgGhost>>
  BY DEF CancelPending
<1>2. chgRow[c] \in ChangeRows BY <1>1 DEF ChgIInv, RowsTyped, NoChange
<1>3. canceled \in ChangeRows /\ canceled.status = "canceled" BY <1>2 DEF ChangeRows
<1>4. chgRow[c] # NoChange /\ canceled # NoChange BY <1>1, <1>3 DEF NoChange
<1>5. DOMAIN chgRow = Changes BY DEF ChgIInv, RowsTyped
<1> HIDE DEF canceled
<1>6. RowsTyped' BY <1>1, <1>3 DEF ChgIInv, RowsTyped
<1>7. RowFitsTask' BY <1>1, <1>4, <1>5 DEF ChgIInv, RowFitsTask
<1>8. ToldOrOnItsWay' BY <1>1, <1>3, <1>5 DEF ChgIInv, ToldOrOnItsWay
<1>9. OpenAlone' BY <1>1, <1>3, <1>5 DEF ChgIInv, OpenAlone, Open
<1> QED BY <1>1, <1>6, <1>7, <1>8, <1>9 DEF ChgIInv, TasksOfChanges, PlansTyped, KeysCount

\* Rows that only change their status, and what they become.
LEMMA StatusSet ==
  ASSUME ChgIInv, NEW c \in Changes, chgRow[c] # NoChange,
         NEW st \in Open \cup {"applied", "canceled", "failed"}
  PROVE  /\ [chgRow[c] EXCEPT !.status = st] \in ChangeRows
         /\ [chgRow[c] EXCEPT !.status = st].status = st
<1>1. chgRow[c] \in ChangeRows BY DEF ChgIInv, RowsTyped
<1> QED BY <1>1 DEF ChangeRows

LEMMA StepInvoicePaid == ASSUME ChgIInv, InvoicePaid PROVE ChgIInv'
<1> DEFINE waits(c) == chgRow[c].status = "pending_payment"
           calling == {c \in Changes : chgTask[c].pc \in {"base", "seat"}}
<1>1. /\ paidPlan' = stripePlan
      /\ chgRow' = [c \in Changes |-> IF waits(c) THEN [chgRow[c] EXCEPT !.status = "applied"]
                                      ELSE chgRow[c]]
      /\ chgGhost' = [chgGhost EXCEPT !.broken = chgGhost.broken \cup calling]
      /\ UNCHANGED <<chgTask, stripePlan, keysSeen, periodOver, subEnded, chgFaults>>
  BY DEF InvoicePaid, WaitsForPayment
<1>2. ASSUME NEW c \in Changes
      PROVE  /\ waits(c) => chgRow'[c] \in ChangeRows /\ chgRow'[c].status = "applied"
             /\ ~waits(c) => chgRow'[c] = chgRow[c]
             /\ waits(c) => chgRow[c] # NoChange
  BY <1>1, StatusSet DEF NoChange
<1>3. ASSUME NEW c \in Changes PROVE chgRow'[c] = NoChange <=> chgRow[c] = NoChange
  BY <1>2 DEF NoChange
<1>4. calling \in SUBSET Changes OBVIOUS
<1>5. /\ chgGhost' \in ChangeGhosts /\ chgGhost'.done = chgGhost.done
      /\ chgGhost'.broken = chgGhost.broken \cup calling
  <2> HIDE DEF calling
  <2> QED BY <1>1, <1>4 DEF ChgIInv, PlansTyped, ChangeGhosts
<1>6. RowsTyped'
  <2>1. \A c \in Changes : chgRow'[c] \in {NoChange} \cup ChangeRows
    BY <1>2 DEF ChgIInv, RowsTyped
  <2>2. chgRow' = [c \in Changes |-> chgRow'[c]] BY <1>1
  <2> QED BY <2>1, <2>2 DEF RowsTyped
<1>7. PlansTyped' BY <1>1, <1>5 DEF ChgIInv, PlansTyped
<1>8. RowFitsTask' BY <1>1, <1>3 DEF ChgIInv, RowFitsTask
<1>9. OpenAlone' BY <1>2 DEF ChgIInv, OpenAlone, Open
<1>10. ToldOrOnItsWay' BY <1>1, <1>2, <1>5 DEF ChgIInv, ToldOrOnItsWay
<1>11. KeysCount' BY <1>1, <1>5 DEF ChgIInv, KeysCount
<1> QED BY <1>1, <1>6, <1>7, <1>8, <1>9, <1>10, <1>11 DEF ChgIInv, TasksOfChanges

LEMMA StepDeleted == ASSUME ChgIInv, SubscriptionDeleted PROVE ChgIInv'
<1> DEFINE open(c) == chgRow[c].status \in Open
<1>1. /\ chgRow' = [c \in Changes |-> IF open(c) THEN [chgRow[c] EXCEPT !.status = "canceled"]
                                      ELSE chgRow[c]]
      /\ UNCHANGED <<chgTask, stripePlan, paidPlan, keysSeen, periodOver, chgFaults, chgGhost>>
  BY DEF SubscriptionDeleted
<1>2. ASSUME NEW c \in Changes
      PROVE  /\ open(c) => chgRow'[c] \in ChangeRows /\ chgRow'[c].status = "canceled"
             /\ ~open(c) => chgRow'[c] = chgRow[c]
             /\ open(c) => chgRow[c] # NoChange
  <2>1. open(c) => chgRow[c] # NoChange BY DEF NoChange, Open
  <2> HIDE DEF open
  <2> QED BY <1>1, <2>1, StatusSet
<1>3. ASSUME NEW c \in Changes PROVE chgRow'[c] = NoChange <=> chgRow[c] = NoChange
  BY <1>2 DEF NoChange
<1>4. RowsTyped'
  <2>1. \A c \in Changes : chgRow'[c] \in {NoChange} \cup ChangeRows
    BY <1>2 DEF ChgIInv, RowsTyped
  <2>2. chgRow' = [c \in Changes |-> chgRow'[c]] BY <1>1
  <2> QED BY <2>1, <2>2 DEF RowsTyped
<1>5. RowFitsTask' BY <1>1, <1>3 DEF ChgIInv, RowFitsTask
<1>6. OpenAlone' BY <1>2 DEF OpenAlone, Open
<1>7. ToldOrOnItsWay' BY <1>1, <1>2 DEF ChgIInv, ToldOrOnItsWay, Open
<1> QED BY <1>1, <1>4, <1>5, <1>6, <1>7 DEF ChgIInv, TasksOfChanges, PlansTyped, KeysCount

LEMMA InitChanges == ChangesInit => ChgIInv
<1> SUFFICES ASSUME ChangesInit PROVE ChgIInv
  OBVIOUS
<1>1. /\ chgRow = [c \in Changes |-> NoChange] /\ chgTask = [c \in Changes |-> NoTask]
      /\ paidPlan = stripePlan /\ keysSeen = {} /\ chgFaults = MaxFaults
      /\ chgGhost = [done |-> [c \in Changes |-> 0], told |-> [c \in Changes |-> -1], broken |-> {}]
  BY DEF ChangesInit
<1>2. stripePlan \in PlanStates BY DEF ChangesInit, PlanStates
<1>3. chgGhost \in ChangeGhosts /\ chgGhost.done = [c \in Changes |-> 0] BY <1>1 DEF ChangeGhosts
<1>4. PlansTyped BY <1>1, <1>2, <1>3, ChangesConstants DEF PlansTyped
<1> QED BY <1>1, <1>3, <1>4 DEF ChgIInv, RowsTyped, TasksOfChanges, RowFitsTask, OpenAlone, KeysCount,
                                ToldOrOnItsWay, NoChange, NoTask, ChangeTasks, Open

LEMMA StepChanges == ChgIInv /\ [ChangesNext]_chgVars => ChgIInv'
<1> SUFFICES ASSUME ChgIInv, [ChangesNext]_chgVars PROVE ChgIInv'
  OBVIOUS
<1>1. CASE UNCHANGED chgVars \/ PeriodEnds
  BY <1>1 DEF chgVars, PeriodEnds, ChgIInv, RowsTyped, TasksOfChanges, PlansTyped, RowFitsTask,
              OpenAlone, KeysCount, ToldOrOnItsWay
<1>2. CASE ChangesNext /\ ~PeriodEnds
  BY <1>2, StepAskSeats, StepAskPlan, StepInsert, StepApply, StepCallBase, StepCallSeat,
     StepCallFails, StepMark, StepProcessDies, StepCancel, StepInvoicePaid, StepDeleted
     DEF ChangesNext, ChangeStep
<1> QED BY <1>1, <1>2

\* However requests, the worker, cancellations, invoices and crashes meet, at most one change
\* is open, each is told to Stripe at most once, and none is applied untold whose process lived.
THEOREM ChangesToldOnce == ChangesSpec => []ChangesInv
<1>1. ChangesInit => ChgIInv BY InitChanges
<1>2. ChgIInv /\ [ChangesNext]_chgVars => ChgIInv' BY StepChanges
<1>3. ChgIInv => ChangesInv BY ChgIsInv
<1> QED BY <1>1, <1>2, <1>3, PTL DEF ChangesSpec

\* Nothing opens a change again that was canceled or applied.
LEMMA StepClosed ==
  ChgIInv /\ [ChangesNext]_chgVars =>
    \A c \in Changes : chgRow[c].status \in {"canceled", "applied"}
                         => chgRow'[c].status \in {"canceled", "applied", "failed"}
<1> SUFFICES ASSUME ChgIInv, [ChangesNext]_chgVars, NEW c \in Changes,
                    chgRow[c].status \in {"canceled", "applied"}
             PROVE  chgRow'[c].status \in {"canceled", "applied", "failed"}
  OBVIOUS
<1>0. DOMAIN chgRow = Changes /\ chgRow[c] # NoChange BY DEF ChgIInv, RowsTyped, NoChange
<1>1. CASE chgRow' = chgRow BY <1>1
<1>2. ASSUME NEW d \in Changes, InsertChange(d) PROVE chgRow'[c] = chgRow[c]
  <2>1. chgRow[d] = NoChange BY <1>2 DEF InsertChange, ChgIInv, RowFitsTask
  <2> QED BY <1>0, <1>2, <2>1 DEF InsertChange
<1>3. ASSUME NEW d \in Changes, ApplyScheduled(d) \/ CancelPending(d) PROVE chgRow'[c] = chgRow[c]
  BY <1>0, <1>3 DEF ApplyScheduled, CancelPending
<1>4. ASSUME NEW d \in Changes, CallFails(d)
      PROVE  chgRow'[c] = chgRow[c] \/ chgRow'[c].status = "failed"
  BY <1>0, <1>4, StatusSet DEF CallFails
<1>5. ASSUME NEW d \in Changes, MarkPending(d) PROVE chgRow'[c] = chgRow[c]
  BY <1>0, <1>5 DEF MarkPending, Marked
<1>6. CASE InvoicePaid \/ SubscriptionDeleted
  BY <1>6 DEF InvoicePaid, SubscriptionDeleted, WaitsForPayment, Open
<1> QED BY <1>1, <1>2, <1>3, <1>4, <1>5, <1>6
        DEF ChangesNext, ChangeStep, chgVars, AskSeats, AskPlan, CallBase, CallSeat, ProcessDies, PeriodEnds
-----------------------------------------------------------------------------
(* What is over stays over, in every scene of the company.                 *)
LEMMA SceneSteps ==
  [Next]_companyVars => /\ [ChangesNext]_chgVars
                        /\ [CampNext]_campVars
                        /\ [ExpNext]_expVars
BY DEF Next, companyVars, others

LEMMA SceneStarts == Init => ChgIInv /\ CampIInv /\ ExpIInv
BY InitChanges, InitCamp, InitExp DEF Init

\* A canceled or applied change never opens again, a completed campaign can only be archived,
\* an archived one and every published version stay as they are, a stopped experiment stays
\* stopped.
THEOREM HistoryStays == Spec => HistoryKept
<1>1. Init => ChgIInv /\ CampIInv /\ ExpIInv BY SceneStarts
<1>2. ChgIInv /\ CampIInv /\ ExpIInv /\ [Next]_companyVars => ChgIInv' /\ CampIInv' /\ ExpIInv'
  BY SceneSteps, StepChanges, StepCamp, StepExp
<1>3. ChgIInv /\ [Next]_companyVars =>
        [\A c \in Changes : chgRow[c].status \in {"canceled", "applied"}
           => chgRow'[c].status \in {"canceled", "applied", "failed"}]_chgVars
  BY SceneSteps, StepClosed
<1>4. CampIInv /\ [Next]_companyVars =>
        [\A c \in CampaignIds :
          /\ campaign[c].status = "completed" => campaign'[c] = campaign[c] \/ campaign'[c].status = "archived"
          /\ campaign[c].status = "archived" => campaign'[c] = campaign[c]
          /\ \A v \in DOMAIN published[c] : published'[c][v] = published[c][v]]_campVars
  BY SceneSteps, StepHistory
<1>5. ExpIInv /\ [Next]_companyVars =>
        [\A x \in ExperimentIds : experiment[x] = "stopped" => experiment'[x] = "stopped"]_expVars
  BY SceneSteps, StepStopped
<1> QED BY <1>1, <1>2, <1>3, <1>4, <1>5, PTL
        DEF Spec, HistoryKept, ClosedStaysClosed, CampaignHistoryKept, StoppedForGood
-----------------------------------------------------------------------------
(* The book of leads: a creation under way knows who is on the list unless *)
(* that changed for a phone of its own, the rows that a creation or a      *)
(* reservation holds keep their phone and their place on the list, and a   *)
(* correction that nothing crossed still carries the suppression.          *)
LeadRows == [phone : Phones \cup {Anonymous}, here : BOOLEAN, flag : BOOLEAN, call : BOOLEAN,
             callback : BOOLEAN]
FixRows == [lead : LeadIds, from : Phones, to : Phones, carried : BOOLEAN, crossed : BOOLEAN]

BookRows ==
  /\ book \in [LeadIds -> LeadRows]
  /\ \A l \in LeadIds \ Rows : book[l].phone = Anonymous /\ ~book[l].call
  /\ \A l, k \in Rows : book[l].phone = book[k].phone /\ book[l].phone \in Phones => l = k
BookSets ==
  /\ optOuts \subseteq Phones /\ offers \subseteq Rows /\ removals \subseteq LeadIds
  /\ bookGhost \in [refused : SUBSET LeadIds, raced : SUBSET Phones]
RowsFit == IsFiniteSet(Rows) /\ Cardinality(Rows) <= LeadLimit
DraftsFit ==
  /\ \A d, e \in drafts : d = e
  /\ \A d \in drafts : /\ d.phones \in SUBSET Phones /\ d.rows \in SUBSET Rows
                       /\ d.phones = {} \/ Cardinality(Rows) + Cardinality(d.phones) <= LeadLimit
DraftsKnow ==
  \A d \in drafts :
    /\ \A l \in d.rows : /\ book[l].phone \in Phones
                         /\ book[l].phone \in d.flagged <=> book[l].phone \in optOuts
    /\ \A p \in d.phones : p \notin bookGhost.raced => (p \in d.flagged <=> p \in optOuts)
OffersKnow == \A l \in offers : book[l].phone \notin optOuts
FixesKnow ==
  /\ fixes \subseteq FixRows
  /\ \A f, g \in fixes : f = g
  /\ \A f \in fixes : /\ book[f.lead].phone \in {f.from, Anonymous}
                      /\ ~f.crossed => (f.carried <=> f.from \in optOuts)

BookIInv ==
  /\ BookRows /\ BookSets /\ RowsFit /\ DraftsFit /\ DraftsKnow /\ OffersKnow /\ FixesKnow
  /\ RefusalFollows /\ FlagFollowsList

LEMMA BookIsInv == BookIInv => BookInv
<1> SUFFICES ASSUME BookIInv PROVE BookInv
  OBVIOUS
<1>1. \A l \in LeadIds : book[l].phone \in Phones \cup {Anonymous}
  BY DEF BookIInv, BookRows, LeadRows
<1>2. BookTypeOK BY <1>1 DEF BookIInv, BookTypeOK, BookRows, BookSets
<1>3. LeadQuotaKept BY DEF BookIInv, RowsFit, LeadQuotaKept
<1> QED BY <1>2, <1>3 DEF BookIInv, BookInv

\* What the steps know of a row.
LEMMA LeadOf ==
  ASSUME BookIInv, NEW l \in LeadIds
  PROVE  /\ book[l] \in LeadRows /\ book[l].phone \in Phones \cup {Anonymous}
         /\ book[l].here \in BOOLEAN /\ book[l].flag \in BOOLEAN /\ book[l].call \in BOOLEAN
         /\ book[l].callback \in BOOLEAN
BY DEF BookIInv, BookRows, LeadRows

\* Steps that leave the rows, the list and the ghosts alone: the locks stay apart.
LEMMA SameBook ==
  ASSUME BookIInv, UNCHANGED <<book, optOuts, bookGhost>>,
         DraftsFit', DraftsKnow', offers' \subseteq Rows, OffersKnow', removals' \subseteq LeadIds,
         FixesKnow'
  PROVE  BookIInv'
<1>1. Rows' = Rows BY DEF Rows
<1> QED BY <1>1 DEF BookIInv, BookRows, BookSets, RowsFit, RefusalFollows, FlagFollowsList

LEMMA StepSave ==
  ASSUME BookIInv, NEW ps \in SUBSET Phones, SaveLeads(ps) PROVE BookIInv'
<1> DEFINE d == Draft(ps, ps \cap optOuts)
<1>1. /\ drafts = {} /\ drafts' = drafts \cup {d} /\ Fits(d.phones)
      /\ UNCHANGED <<book, optOuts, offers, fixes, removals, bookGhost>>
  BY DEF SaveLeads, CompanyLockFree
<1>2. /\ d.phones = {p \in ps : RowsOf(p) = {}} /\ d.flagged = ps \cap optOuts
      /\ d.rows = UNION {RowsOf(p) : p \in ps}
  BY DEF Draft
<1> HIDE DEF d
<1>3. ASSUME NEW l \in d.rows PROVE l \in Rows /\ book[l].phone \in ps
  <2>1. PICK p \in ps : l \in RowsOf(p) BY <1>2
  <2> QED BY <2>1 DEF RowsOf
<1>4. Rows' = Rows /\ drafts' = {d} BY <1>1 DEF Rows
<1>5. DraftsFit' BY <1>1, <1>2, <1>3, <1>4 DEF DraftsFit, Fits
<1>6. DraftsKnow' BY <1>1, <1>2, <1>3, <1>4 DEF DraftsKnow
<1> QED BY <1>1, <1>4, <1>5, <1>6, SameBook DEF BookIInv, BookSets, OffersKnow, FixesKnow

LEMMA StepTyped ==
  ASSUME BookIInv, NEW p \in Phones, TypedLead(p) PROVE BookIInv'
<1> DEFINE d == Draft({p}, {})
<1>1. /\ drafts = {} /\ drafts' = drafts \cup {d} /\ Fits({p}) /\ RowsOf(p) = {} /\ p \notin optOuts
      /\ UNCHANGED <<book, optOuts, offers, fixes, removals, bookGhost>>
  BY DEF TypedLead, CompanyLockFree, MayType
<1>2. d.phones = {p} /\ d.flagged = {} /\ d.rows = {} BY <1>1 DEF Draft
<1> HIDE DEF d
<1>4. Rows' = Rows /\ drafts' = {d} BY <1>1 DEF Rows
<1>5. DraftsFit' BY <1>1, <1>2, <1>4 DEF DraftsFit, Fits
<1>6. DraftsKnow' BY <1>1, <1>2, <1>4 DEF DraftsKnow
<1> QED BY <1>1, <1>4, <1>5, <1>6, SameBook DEF BookIInv, BookSets, OffersKnow, FixesKnow

LEMMA StepLocksOnly ==
  ASSUME BookIInv,
         \/ \E d \in drafts : DraftAborts(d)
         \/ \E l \in LeadIds : OfferBegins(l) \/ OfferAborts(l) \/ RemovalLooks(l)
         \/ \E l \in LeadIds, p \in Phones : CorrectionReads(l, p)
         \/ CorrectionAborts
  PROVE  BookIInv'
<1>0. Rows \subseteq LeadIds BY DEF Rows
<1>1. ASSUME NEW d \in drafts, DraftAborts(d) PROVE BookIInv'
  <2>1. drafts' \subseteq drafts /\ UNCHANGED <<book, optOuts, offers, fixes, removals, bookGhost>>
    BY <1>1 DEF DraftAborts
  <2>2. Rows' = Rows BY <2>1 DEF Rows
  <2> QED BY <2>1, <2>2, SameBook
          DEF BookIInv, BookSets, OffersKnow, FixesKnow, DraftsFit, DraftsKnow
<1>2. ASSUME NEW l \in LeadIds, OfferBegins(l) PROVE BookIInv'
  <2>1. /\ l \in Rows /\ book[l].phone \notin optOuts /\ offers' = offers \cup {l}
        /\ UNCHANGED <<book, optOuts, drafts, fixes, removals, bookGhost>>
    BY <1>2 DEF OfferBegins
  <2>2. Rows' = Rows BY <2>1 DEF Rows
  <2> QED BY <2>1, <2>2, SameBook
          DEF BookIInv, BookSets, OffersKnow, FixesKnow, DraftsFit, DraftsKnow
<1>3. ASSUME NEW l \in LeadIds, OfferAborts(l) \/ RemovalLooks(l) PROVE BookIInv'
  <2>1. /\ offers' \subseteq offers /\ removals' \subseteq removals \cup {l}
        /\ UNCHANGED <<book, optOuts, drafts, fixes, bookGhost>>
    BY <1>3 DEF OfferAborts, RemovalLooks
  <2>2. Rows' = Rows BY <2>1 DEF Rows
  <2> QED BY <2>1, <2>2, SameBook
          DEF BookIInv, BookSets, OffersKnow, FixesKnow, DraftsFit, DraftsKnow
<1>4. ASSUME NEW l \in LeadIds, NEW p \in Phones, CorrectionReads(l, p) PROVE BookIInv'
  <2> DEFINE f == [lead |-> l, from |-> book[l].phone, to |-> p,
                   carried |-> Carried(book[l].phone), crossed |-> FALSE]
  <2>1. /\ l \in Rows /\ fixes' = {f} /\ book[l].phone \in Phones
        /\ UNCHANGED <<book, optOuts, drafts, offers, removals, bookGhost>>
    BY <1>4 DEF CorrectionReads
  <2>2. Carried(book[l].phone) \in BOOLEAN /\ (Carried(book[l].phone) <=> book[l].phone \in optOuts)
    BY DEF Carried
  <2>3. /\ f \in FixRows /\ f.lead = l /\ f.from = book[l].phone /\ ~f.crossed
        /\ f.carried = Carried(book[l].phone)
    BY <2>1, <2>2 DEF FixRows
  <2> HIDE DEF f
  <2>4. FixesKnow' BY <2>1, <2>2, <2>3 DEF FixesKnow
  <2>5. Rows' = Rows BY <2>1 DEF Rows
  <2> QED BY <2>1, <2>4, <2>5, SameBook
          DEF BookIInv, BookSets, OffersKnow, DraftsFit, DraftsKnow
<1>5. CASE CorrectionAborts
  <2>1. fixes' = {} /\ UNCHANGED <<book, optOuts, drafts, offers, removals, bookGhost>>
    BY <1>5 DEF CorrectionAborts
  <2>2. Rows' = Rows BY <2>1 DEF Rows
  <2> QED BY <2>1, <2>2, SameBook
          DEF BookIInv, BookSets, OffersKnow, FixesKnow, DraftsFit, DraftsKnow
<1> QED BY <1>1, <1>2, <1>3, <1>4, <1>5

\* Steps that only write flags, calls and callbacks of rows that stay: no phone changes.
SamePhones == \A l \in LeadIds : book'[l].phone = book[l].phone /\ book'[l].here = book[l].here

LEMMA RowsStay == ASSUME SamePhones
                  PROVE  Rows' = Rows /\ \A p : RowsOf(p)' = RowsOf(p)
BY DEF SamePhones, Rows, RowsOf

LEMMA FlagsOnly ==
  ASSUME BookIInv, SamePhones, book' \in [LeadIds -> LeadRows],
         \A l \in LeadIds \ Rows : ~book'[l].call
  PROVE  /\ BookRows' /\ RowsFit' /\ Rows' = Rows
         /\ (drafts' \subseteq drafts => DraftsFit')
<1>1. Rows' = Rows BY RowsStay
<1>2. BookRows' BY <1>1 DEF BookIInv, BookRows, SamePhones, Rows
<1> QED BY <1>1, <1>2 DEF BookIInv, RowsFit, DraftsFit

\* A phone goes on the list or off it: the rows with that phone are not held by anybody.
LEMMA ListChanges ==
  ASSUME BookIInv, NEW p \in Phones, NEW on \in BOOLEAN,
         \A l \in RowsOf(p) : RowUnlocked(l),
         optOuts' = IF on THEN optOuts \cup {p} ELSE optOuts \ {p},
         book' = [l \in LeadIds |-> IF l \in RowsOf(p) THEN [book[l] EXCEPT !.flag = on] ELSE book[l]],
         bookGhost' = [refused |-> IF on THEN bookGhost.refused \cup RowsOf(p)
                                   ELSE bookGhost.refused \ RowsOf(p), raced |-> RacedOn(p)],
         fixes' = FixesCrossed(p), UNCHANGED <<drafts, offers, removals>>
  PROVE  BookIInv'
<1>1. ASSUME NEW l \in LeadIds
      PROVE  /\ book'[l] \in LeadRows /\ book'[l].phone = book[l].phone /\ book'[l].here = book[l].here
             /\ book'[l].call = book[l].call
             /\ book'[l].flag = IF l \in RowsOf(p) THEN on ELSE book[l].flag
  <2>1. book[l] \in LeadRows BY LeadOf
  <2>2. /\ [book[l] EXCEPT !.flag = on] \in LeadRows
        /\ [book[l] EXCEPT !.flag = on].phone = book[l].phone
        /\ [book[l] EXCEPT !.flag = on].here = book[l].here
        /\ [book[l] EXCEPT !.flag = on].call = book[l].call
        /\ [book[l] EXCEPT !.flag = on].flag = on
    BY <2>1 DEF LeadRows
  <2> QED BY <2>1, <2>2
<1>2. SamePhones BY <1>1 DEF SamePhones
<1>3. book' \in [LeadIds -> LeadRows] BY <1>1
<1>4. \A l \in LeadIds \ Rows : ~book'[l].call BY <1>1 DEF BookIInv, BookRows
<1>5. BookRows' /\ RowsFit' /\ Rows' = Rows /\ DraftsFit' BY <1>2, <1>3, <1>4, FlagsOnly
<1>6. /\ RacedOn(p) \in SUBSET Phones
      /\ \A q \in Phones : q # p => (q \in RacedOn(p) <=> q \in bookGhost.raced)
      /\ (Drafted(p) => p \in RacedOn(p)) /\ RowsOf(p) \subseteq LeadIds
  BY DEF RacedOn, BookIInv, BookSets, RowsOf, Rows
<1>7. /\ bookGhost'.raced = RacedOn(p)
      /\ bookGhost'.refused = IF on THEN bookGhost.refused \cup RowsOf(p)
                              ELSE bookGhost.refused \ RowsOf(p)
      /\ bookGhost' \in [refused : SUBSET LeadIds, raced : SUBSET Phones]
  <2> DEFINE now == IF on THEN bookGhost.refused \cup RowsOf(p) ELSE bookGhost.refused \ RowsOf(p)
  <2>1. bookGhost.refused \subseteq LeadIds BY DEF BookIInv, BookSets
  <2>2. now \in SUBSET LeadIds BY <1>6, <2>1
  <2>3. bookGhost' = [refused |-> now, raced |-> RacedOn(p)] OBVIOUS
  <2> HIDE DEF now
  <2>4. bookGhost'.raced = RacedOn(p) /\ bookGhost'.refused = now
        /\ bookGhost' \in [refused : SUBSET LeadIds, raced : SUBSET Phones]
    BY <1>6, <2>2, <2>3
  <2> QED BY <2>4 DEF now
<1>8. BookSets' BY <1>5, <1>7 DEF BookIInv, BookSets
<1>9. \A l \in Rows : book[l].phone = p => l \in RowsOf(p) BY DEF RowsOf
<1>10. DraftsKnow'
  <2> SUFFICES ASSUME NEW d \in drafts
               PROVE  /\ \A l \in d.rows : /\ book'[l].phone \in Phones
                                           /\ book'[l].phone \in d.flagged <=> book'[l].phone \in optOuts'
                      /\ \A q \in d.phones : q \notin bookGhost'.raced => (q \in d.flagged <=> q \in optOuts')
    BY DEF DraftsKnow
  <2>1. d.rows \subseteq Rows /\ d.phones \subseteq Phones BY DEF BookIInv, DraftsFit
  <2>2. \A l \in d.rows : ~RowUnlocked(l) BY DEF RowUnlocked
  <2>3. \A l \in d.rows : l \in LeadIds /\ book[l].phone # p BY <1>9, <2>1, <2>2 DEF Rows
  <2>4. p \in d.phones => Drafted(p) BY DEF Drafted
  <2>5. \A q \in Phones : q # p => (q \in optOuts' <=> q \in optOuts) OBVIOUS
  <2>6. \A l \in d.rows : book[l].phone \in Phones BY DEF BookIInv, DraftsKnow
  <2>7. ASSUME NEW l \in d.rows
        PROVE  /\ book'[l].phone \in Phones
               /\ book'[l].phone \in d.flagged <=> book'[l].phone \in optOuts'
    BY <1>1, <2>3, <2>5, <2>6 DEF BookIInv, DraftsKnow
  <2>8. ASSUME NEW q \in d.phones, q \notin bookGhost'.raced PROVE q \in d.flagged <=> q \in optOuts'
    <3>1. q \in Phones /\ q # p BY <1>6, <1>7, <2>1, <2>4, <2>8
    <3>2. q \notin bookGhost.raced BY <1>6, <1>7, <2>8, <3>1
    <3> QED BY <2>5, <3>1, <3>2 DEF BookIInv, DraftsKnow
  <2> QED BY <2>7, <2>8
<1>11. OffersKnow'
  <2> SUFFICES ASSUME NEW l \in offers PROVE book'[l].phone \notin optOuts'
    BY DEF OffersKnow
  <2>1. l \in Rows /\ l \in LeadIds /\ ~RowUnlocked(l) BY DEF BookIInv, BookSets, Rows, RowUnlocked
  <2>2. book[l].phone # p BY <1>9, <2>1
  <2> QED BY <1>1, <2>1, <2>2 DEF BookIInv, OffersKnow
<1>12. FixesKnow'
  <2>1. ASSUME NEW g \in fixes'
        PROVE  \E f \in fixes : /\ g \in FixRows /\ g.lead = f.lead /\ g.from = f.from /\ g.to = f.to
                                /\ g.carried = f.carried
                                /\ g.crossed = (f.crossed \/ p \in {f.from, f.to})
                                /\ g = [f EXCEPT !.crossed = @ \/ p \in {f.from, f.to}]
    <3>1. PICK f \in fixes : g = [f EXCEPT !.crossed = @ \/ p \in {f.from, f.to}]
      BY DEF FixesCrossed
    <3>2. f \in FixRows BY DEF BookIInv, FixesKnow
    <3>3. (f.crossed \/ p \in {f.from, f.to}) \in BOOLEAN OBVIOUS
    <3> QED BY <3>1, <3>2, <3>3 DEF FixRows
  <2>2. fixes' \subseteq FixRows BY <2>1
  <2>3. \A f, g \in fixes' : f = g BY <2>1 DEF BookIInv, FixesKnow
  <2>4. ASSUME NEW g \in fixes'
        PROVE  /\ book'[g.lead].phone \in {g.from, Anonymous}
               /\ ~g.crossed => (g.carried <=> g.from \in optOuts')
    <3>1. PICK f \in fixes : /\ g.lead = f.lead /\ g.from = f.from /\ g.carried = f.carried
                             /\ g.crossed = (f.crossed \/ p \in {f.from, f.to})
      BY <2>1
    <3>2. f.lead \in LeadIds /\ f.from \in Phones BY DEF BookIInv, FixesKnow, FixRows
    <3>3. book[f.lead].phone \in {f.from, Anonymous} /\ (~f.crossed => (f.carried <=> f.from \in optOuts))
      BY DEF BookIInv, FixesKnow
    <3>4. book'[g.lead].phone \in {g.from, Anonymous} BY <1>1, <3>1, <3>2, <3>3
    <3>5. ~g.crossed => ~f.crossed /\ p # f.from BY <3>1
    <3> QED BY <3>1, <3>3, <3>4, <3>5
  <2> QED BY <2>2, <2>3, <2>4 DEF FixesKnow
<1>13. RefusalFollows'
  <2> SUFFICES ASSUME NEW l \in bookGhost'.refused PROVE book'[l].phone \in optOuts'
    BY DEF RefusalFollows
  <2>1. l \in LeadIds BY <1>7
  <2>2. CASE l \in RowsOf(p) BY <1>1, <1>7, <2>1, <2>2 DEF RowsOf
  <2>3. CASE l \notin RowsOf(p)
    <3>1. l \in bookGhost.refused /\ book[l].phone \in optOuts
      BY <1>7, <2>3 DEF BookIInv, RefusalFollows
    <3>2. l \in Rows
      BY <2>1, <3>1, BookConstants DEF BookIInv, BookRows, BookSets
    <3>3. book[l].phone # p BY <1>9, <2>3, <3>2
    <3> QED BY <1>1, <2>1, <3>1, <3>3
  <2> QED BY <2>2, <2>3
<1>14. FlagFollowsList'
  <2> SUFFICES ASSUME NEW l \in Rows, book'[l].phone \in Phones \ bookGhost'.raced
               PROVE  book'[l].flag <=> book'[l].phone \in optOuts'
    BY <1>5 DEF FlagFollowsList
  <2>1. l \in LeadIds BY DEF Rows
  <2>2. CASE l \in RowsOf(p) BY <1>1, <2>1, <2>2 DEF RowsOf
  <2>3. CASE l \notin RowsOf(p)
    <3>1. book[l].phone # p BY <1>9, <2>3
    <3>2. book[l].phone \in Phones \ bookGhost.raced BY <1>1, <1>6, <1>7, <2>1, <3>1
    <3>3. book[l].flag <=> book[l].phone \in optOuts BY <3>2 DEF BookIInv, FlagFollowsList
    <3> QED BY <1>1, <2>1, <2>3, <3>1, <3>3
  <2> QED BY <2>2, <2>3
<1> QED BY <1>5, <1>8, <1>10, <1>11, <1>12, <1>13, <1>14 DEF BookIInv

LEMMA StepSuppress == ASSUME BookIInv, NEW p \in Phones, Suppress(p) PROVE BookIInv'
<1>1. TRUE \in BOOLEAN OBVIOUS
<1> QED BY <1>1, ListChanges DEF Suppress

LEMMA StepLift == ASSUME BookIInv, NEW p \in Phones, Lift(p) PROVE BookIInv'
<1>1. FALSE \in BOOLEAN OBVIOUS
<1> QED BY <1>1, ListChanges DEF Lift

\* The calls and the callbacks of a row say nothing about the list.
LEMMA CallsOnly ==
  ASSUME BookIInv, NEW k \in LeadIds, NEW row \in LeadRows, book' = [book EXCEPT ![k] = row],
         row.phone = book[k].phone, row.here = book[k].here, row.flag = book[k].flag,
         k \in Rows \/ ~row.call,
         offers' \subseteq offers, UNCHANGED <<optOuts, drafts, fixes, removals, bookGhost>>
  PROVE  BookIInv'
<1>1. \A l \in LeadIds : /\ book'[l] = IF l = k THEN row ELSE book[l]
                         /\ book'[l].phone = book[l].phone /\ book'[l].here = book[l].here
                         /\ book'[l].flag = book[l].flag
  BY DEF BookIInv, BookRows
<1>2. SamePhones BY <1>1 DEF SamePhones
<1>3. book' \in [LeadIds -> LeadRows] BY DEF BookIInv, BookRows
<1>4. \A l \in LeadIds \ Rows : ~book'[l].call BY <1>1 DEF BookIInv, BookRows
<1>5. BookRows' /\ RowsFit' /\ Rows' = Rows /\ DraftsFit' BY <1>2, <1>3, <1>4, FlagsOnly
<1>6. Rows \subseteq LeadIds BY DEF Rows
<1>7. DraftsKnow'
  <2>1. \A d \in drafts : d.rows \subseteq LeadIds BY <1>6 DEF BookIInv, DraftsFit
  <2> QED BY <1>1, <2>1 DEF BookIInv, DraftsKnow
<1>8. BookSets' BY <1>5 DEF BookIInv, BookSets
<1>9. OffersKnow' BY <1>1, <1>6 DEF BookIInv, BookSets, OffersKnow
<1>10. FixesKnow'
  <2>1. \A f \in fixes : f.lead \in LeadIds BY DEF BookIInv, FixesKnow, FixRows
  <2> QED BY <1>1, <2>1 DEF BookIInv, FixesKnow
<1>11. RefusalFollows'
  <2>1. bookGhost.refused \subseteq LeadIds BY DEF BookIInv, BookSets
  <2> QED BY <1>1, <2>1 DEF BookIInv, RefusalFollows
<1>12. FlagFollowsList' BY <1>1, <1>5, <1>6 DEF BookIInv, FlagFollowsList
<1> QED BY <1>5, <1>7, <1>8, <1>9, <1>10, <1>11, <1>12 DEF BookIInv

\* The rows that calls and callbacks leave.
WithCall(row, on) == [row EXCEPT !.call = on]
WithCallOver(row, callback) == [row EXCEPT !.call = FALSE, !.callback = @ \/ callback]
WithoutCallback(row) == [row EXCEPT !.callback = FALSE]

LEMMA CallRows ==
  ASSUME NEW row \in LeadRows, NEW on \in BOOLEAN,
         NEW to, to \in {WithCall(row, on), WithCallOver(row, on), WithoutCallback(row)}
  PROVE  /\ to \in LeadRows /\ to.phone = row.phone /\ to.here = row.here /\ to.flag = row.flag
         /\ to.call \in {row.call, on, FALSE}
<1>1. CASE to = WithCall(row, on) BY <1>1 DEF WithCall, LeadRows
<1>2. CASE to = WithCallOver(row, on)
  <2>1. (row.callback \/ on) \in BOOLEAN OBVIOUS
  <2>2. to = [row EXCEPT !.call = FALSE, !.callback = row.callback \/ on] BY <1>2 DEF WithCallOver
  <2> QED BY <2>1, <2>2 DEF LeadRows
<1>3. CASE to = WithoutCallback(row) BY <1>3 DEF WithoutCallback, LeadRows
<1> QED BY <1>1, <1>2, <1>3

LEMMA StepCalls ==
  ASSUME BookIInv, NEW l \in LeadIds, NEW callback \in BOOLEAN,
         OfferCommits(l) \/ CallOver(l, callback) \/ CallbackOver(l)
  PROVE  BookIInv'
<1>0. book[l] \in LeadRows /\ (l \in Rows \/ ~book[l].call) BY LeadOf DEF BookIInv, BookRows
<1>1. CASE OfferCommits(l)
  <2> DEFINE row == WithCall(book[l], TRUE)
  <2>1. /\ book' = [book EXCEPT ![l] = row] /\ l \in offers /\ offers' \subseteq offers
        /\ UNCHANGED <<optOuts, drafts, fixes, removals, bookGhost>>
    BY <1>1 DEF OfferCommits, WithCall
  <2>2. /\ row \in LeadRows /\ row.phone = book[l].phone /\ row.here = book[l].here
        /\ row.flag = book[l].flag
    BY <1>0, CallRows
  <2>3. l \in Rows BY <2>1 DEF BookIInv, BookSets
  <2> HIDE DEF row
  <2> QED BY <2>1, <2>2, <2>3, CallsOnly
<1>2. CASE CallOver(l, callback)
  <2> DEFINE row == WithCallOver(book[l], callback)
  <2>1. /\ book' = [book EXCEPT ![l] = row] /\ offers' = offers /\ book[l].call
        /\ UNCHANGED <<optOuts, drafts, fixes, removals, bookGhost>>
    BY <1>2 DEF CallOver, WithCallOver
  <2>2. /\ row \in LeadRows /\ row.phone = book[l].phone /\ row.here = book[l].here
        /\ row.flag = book[l].flag
    BY <1>0, CallRows
  <2> HIDE DEF row
  <2> QED BY <1>0, <2>1, <2>2, CallsOnly
<1>3. CASE CallbackOver(l)
  <2> DEFINE row == WithoutCallback(book[l])
  <2>1. /\ book' = [book EXCEPT ![l] = row] /\ offers' = offers
        /\ UNCHANGED <<optOuts, drafts, fixes, removals, bookGhost>>
    BY <1>3 DEF CallbackOver, WithoutCallback
  <2>2. /\ row \in LeadRows /\ row.phone = book[l].phone /\ row.here = book[l].here
        /\ row.flag = book[l].flag /\ row.call \in {book[l].call, FALSE}
    BY <1>0, CallRows
  <2> HIDE DEF row
  <2> QED BY <1>0, <2>1, <2>2, CallsOnly
<1> QED BY <1>1, <1>2, <1>3

\* A row that nobody holds is deleted: nothing refers to it any more but a correction, which
\* will not find it.
LEMMA StepDelete == ASSUME BookIInv, NEW l \in LeadIds, RemovalDeletes(l) PROVE BookIInv'
<1>1. /\ RowUnlocked(l) /\ removals' = removals \ {l}
      /\ book' = [book EXCEPT ![l] = NoLead]
      /\ bookGhost' = [bookGhost EXCEPT !.refused = bookGhost.refused \ {l}]
      /\ UNCHANGED <<optOuts, drafts, offers, fixes>>
  BY DEF RemovalDeletes
<1>2. NoLead \in LeadRows /\ NoLead.phone = Anonymous /\ ~NoLead.here /\ ~NoLead.call
  BY DEF NoLead, LeadRows
<1>3. /\ \A k \in LeadIds : k # l => book'[k] = book[k]
      /\ book'[l] = NoLead /\ book' \in [LeadIds -> LeadRows]
  BY <1>1, <1>2 DEF BookIInv, BookRows
<1>4. Rows' = Rows \ {l} BY <1>2, <1>3 DEF Rows
<1>5. BookRows' BY <1>2, <1>3, <1>4 DEF BookIInv, BookRows, Rows
<1>6. RowsFit'
  <2>1. IsFiniteSet(Rows) /\ Cardinality(Rows) \in Nat /\ Cardinality(Rows) <= LeadLimit
    BY FS_CardinalityType DEF BookIInv, RowsFit
  <2>2. IsFiniteSet(Rows \ {l}) /\ Cardinality(Rows \ {l}) <= Cardinality(Rows)
        /\ Cardinality(Rows \ {l}) \in Nat
    <3>1. Rows \ {l} \in SUBSET Rows OBVIOUS
    <3> QED BY <2>1, <3>1, FS_Subset, FS_CardinalityType
  <2> QED BY <1>4, <2>1, <2>2, BookConstants DEF RowsFit
<1>7. /\ bookGhost' \in [refused : SUBSET LeadIds, raced : SUBSET Phones]
      /\ bookGhost'.refused = bookGhost.refused \ {l} /\ bookGhost'.raced = bookGhost.raced
  BY <1>1 DEF BookIInv, BookSets
<1>8. l \notin offers /\ \A d \in drafts : l \notin d.rows BY <1>1 DEF RowUnlocked
<1>9. BookSets' BY <1>1, <1>4, <1>7, <1>8 DEF BookIInv, BookSets
<1>10. DraftsFit'
  <2>1. Cardinality(Rows') <= Cardinality(Rows) /\ Cardinality(Rows') \in Nat /\ Cardinality(Rows) \in Nat
    <3>1. Rows \ {l} \in SUBSET Rows /\ IsFiniteSet(Rows) BY DEF BookIInv, RowsFit
    <3> QED BY <1>4, <3>1, FS_Subset, FS_CardinalityType
  <2>2. \A d \in drafts : d.phones \in SUBSET Phones /\ Cardinality(d.phones) \in Nat
    <3>1. \A d \in drafts : d.phones \in SUBSET Phones BY DEF BookIInv, DraftsFit
    <3> QED BY <3>1, BookConstants, FS_Subset, FS_CardinalityType
  <2>3. \A d \in drafts : d.rows \in SUBSET Rows' BY <1>4, <1>8 DEF BookIInv, DraftsFit
  <2>4. ASSUME NEW d \in drafts, d.phones # {}
        PROVE  Cardinality(Rows') + Cardinality(d.phones) <= LeadLimit
    <3>1. Cardinality(Rows) + Cardinality(d.phones) <= LeadLimit BY <2>4 DEF BookIInv, DraftsFit
    <3> QED BY <2>1, <2>2, <3>1, BookConstants
  <2> QED BY <1>1, <2>2, <2>3, <2>4 DEF BookIInv, DraftsFit
<1>11. Rows \subseteq LeadIds BY DEF Rows
<1>12. DraftsKnow'
  <2>1. \A d \in drafts : \A k \in d.rows : k \in LeadIds /\ k # l
    BY <1>8, <1>11 DEF BookIInv, DraftsFit
  <2> QED BY <1>1, <1>3, <1>7, <2>1 DEF BookIInv, DraftsKnow
<1>13. OffersKnow' BY <1>1, <1>3, <1>8, <1>11 DEF BookIInv, OffersKnow, BookSets
<1>14. FixesKnow'
  <2>1. \A f \in fixes : f.lead \in LeadIds BY DEF BookIInv, FixesKnow, FixRows
  <2> QED BY <1>1, <1>2, <1>3, <2>1 DEF BookIInv, FixesKnow
<1>15. RefusalFollows'
  <2>1. bookGhost.refused \subseteq LeadIds BY DEF BookIInv, BookSets
  <2> QED BY <1>1, <1>3, <1>7, <2>1 DEF BookIInv, RefusalFollows
<1>16. FlagFollowsList' BY <1>1, <1>3, <1>4, <1>7, <1>11 DEF BookIInv, FlagFollowsList
<1> QED BY <1>5, <1>6, <1>9, <1>10, <1>12, <1>13, <1>14, <1>15, <1>16 DEF BookIInv

LEMMA StepAnonymize == ASSUME BookIInv, NEW l \in LeadIds, Anonymize(l) PROVE BookIInv'
<1> DEFINE row == [book[l] EXCEPT !.phone = Anonymous, !.flag = TRUE]
<1>1. /\ l \in Rows /\ RowUnlocked(l) /\ book' = [book EXCEPT ![l] = row]
      /\ bookGhost' = [bookGhost EXCEPT !.refused = bookGhost.refused \ {l}]
      /\ UNCHANGED <<optOuts, drafts, offers, fixes, removals>>
  BY DEF Anonymize
<1>2. row \in LeadRows /\ row.phone = Anonymous /\ row.here = book[l].here /\ row.call = book[l].call
  BY LeadOf DEF LeadRows
<1> HIDE DEF row
<1>3. /\ \A k \in LeadIds : k # l => book'[k] = book[k]
      /\ book'[l] = row /\ book' \in [LeadIds -> LeadRows]
  BY <1>1, <1>2 DEF BookIInv, BookRows
<1>4. Rows' = Rows BY <1>2, <1>3 DEF Rows
<1>5. BookRows' BY <1>1, <1>2, <1>3, <1>4, BookConstants DEF BookIInv, BookRows, Rows
<1>6. RowsFit' /\ DraftsFit' BY <1>1, <1>4 DEF BookIInv, RowsFit, DraftsFit
<1>7. /\ bookGhost' \in [refused : SUBSET LeadIds, raced : SUBSET Phones]
      /\ bookGhost'.refused = bookGhost.refused \ {l} /\ bookGhost'.raced = bookGhost.raced
  BY <1>1 DEF BookIInv, BookSets
<1>8. l \notin offers /\ \A d \in drafts : l \notin d.rows BY <1>1 DEF RowUnlocked
<1>9. BookSets' BY <1>1, <1>4, <1>7 DEF BookIInv, BookSets
<1>11. Rows \subseteq LeadIds BY DEF Rows
<1>12. DraftsKnow'
  <2>1. \A d \in drafts : \A k \in d.rows : k \in LeadIds /\ k # l
    BY <1>8, <1>11 DEF BookIInv, DraftsFit
  <2> QED BY <1>1, <1>3, <1>7, <2>1 DEF BookIInv, DraftsKnow
<1>13. OffersKnow' BY <1>1, <1>3, <1>8, <1>11 DEF BookIInv, OffersKnow, BookSets
<1>14. FixesKnow'
  <2>1. \A f \in fixes : f.lead \in LeadIds BY DEF BookIInv, FixesKnow, FixRows
  <2> QED BY <1>1, <1>2, <1>3, <2>1 DEF BookIInv, FixesKnow
<1>15. RefusalFollows'
  <2>1. bookGhost.refused \subseteq LeadIds BY DEF BookIInv, BookSets
  <2> QED BY <1>1, <1>3, <1>7, <2>1 DEF BookIInv, RefusalFollows
<1>16. FlagFollowsList'
  <2> SUFFICES ASSUME NEW k \in Rows, book'[k].phone \in Phones \ bookGhost.raced
               PROVE  book'[k].flag <=> book'[k].phone \in optOuts
    BY <1>1, <1>4, <1>7 DEF FlagFollowsList
  <2>1. k # l BY <1>2, <1>3, BookConstants
  <2> QED BY <1>3, <1>11, <2>1 DEF BookIInv, FlagFollowsList
<1> QED BY <1>5, <1>6, <1>9, <1>12, <1>13, <1>14, <1>15, <1>16 DEF BookIInv

\* A correction commits: no row has the new phone yet, and the one that gets it carries the
\* suppression that it was read with.
LEMMA StepCorrect == ASSUME BookIInv, NEW f \in fixes, CorrectionCommits(f) PROVE BookIInv'
<1> DEFINE l == f.lead
           listed == f.to \in optOuts'
           row == [book[l] EXCEPT !.phone = f.to, !.flag = listed]
<1>1. /\ RowsOf(f.to) = {} /\ RowUnlocked(l) /\ fixes' = {}
      /\ optOuts' = (IF f.carried THEN optOuts \cup {f.to} ELSE optOuts)
      /\ book' = (IF l \in Rows THEN [book EXCEPT ![l] = row] ELSE book)
      /\ bookGhost' = [refused |-> IF f.crossed THEN bookGhost.refused \ {l} ELSE bookGhost.refused,
                       raced |-> IF f.carried THEN RacedOn(f.to) ELSE bookGhost.raced]
      /\ UNCHANGED <<drafts, offers, removals>>
  BY DEF CorrectionCommits
<1>2. /\ l \in LeadIds /\ f.to \in Phones /\ f.from \in Phones
      /\ f.carried \in BOOLEAN /\ f.crossed \in BOOLEAN
      /\ book[l].phone \in {f.from, Anonymous}
      /\ ~f.crossed => (f.carried <=> f.from \in optOuts)
  BY DEF BookIInv, FixesKnow, FixRows
<1>3. /\ row \in LeadRows /\ row.phone = f.to /\ row.flag = listed
      /\ row.here = book[l].here /\ row.call = book[l].call
  <2>1. listed \in BOOLEAN OBVIOUS
  <2> HIDE DEF listed
  <2> QED BY <1>2, <2>1, LeadOf DEF LeadRows
<1>4. \A k \in Rows : k \in LeadIds /\ book[k].phone # f.to BY <1>1 DEF RowsOf, Rows
<1>5. \A d \in drafts : l \notin d.rows BY <1>1 DEF RowUnlocked
<1>6. l \notin offers BY <1>1 DEF RowUnlocked
<1>7. /\ \A q \in Phones : q # f.to => (q \in optOuts' <=> q \in optOuts)
      /\ optOuts \subseteq optOuts' /\ optOuts' \subseteq Phones
      /\ f.carried => f.to \in optOuts'
      /\ ~f.carried => optOuts' = optOuts
  BY <1>1, <1>2 DEF BookIInv, BookSets
<1>8. /\ bookGhost' \in [refused : SUBSET LeadIds, raced : SUBSET Phones]
      /\ bookGhost'.refused = IF f.crossed THEN bookGhost.refused \ {l} ELSE bookGhost.refused
      /\ \A q \in Phones : q # f.to => (q \in bookGhost'.raced <=> q \in bookGhost.raced)
      /\ f.carried /\ Drafted(f.to) => f.to \in bookGhost'.raced
      /\ ~f.carried => bookGhost'.raced = bookGhost.raced
  <2> DEFINE now == IF f.crossed THEN bookGhost.refused \ {l} ELSE bookGhost.refused
             nowRaced == IF f.carried THEN RacedOn(f.to) ELSE bookGhost.raced
  <2>1. bookGhost.refused \subseteq LeadIds /\ bookGhost.raced \subseteq Phones
    BY DEF BookIInv, BookSets
  <2>2. now \in SUBSET LeadIds BY <2>1
  <2>3. nowRaced \in SUBSET Phones BY <1>2, <2>1 DEF RacedOn
  <2>4. bookGhost' = [refused |-> now, raced |-> nowRaced] BY <1>1
  <2>5. /\ \A q \in Phones : q # f.to => (q \in nowRaced <=> q \in bookGhost.raced)
        /\ f.carried /\ Drafted(f.to) => f.to \in nowRaced
        /\ ~f.carried => nowRaced = bookGhost.raced
    BY DEF RacedOn
  <2> HIDE DEF now, nowRaced
  <2>6. /\ bookGhost' \in [refused : SUBSET LeadIds, raced : SUBSET Phones]
        /\ bookGhost'.refused = now /\ bookGhost'.raced = nowRaced
    BY <2>2, <2>3, <2>4
  <2> QED BY <2>5, <2>6 DEF now
<1>9. /\ book' \in [LeadIds -> LeadRows]
      /\ \A k \in LeadIds : k # l => book'[k] = book[k]
      /\ l \in Rows => book'[l] = row
      /\ l \notin Rows => book'[l] = book[l]
  <2> HIDE DEF row
  <2> QED BY <1>1, <1>2, <1>3 DEF BookIInv, BookRows
<1> HIDE DEF row
<1>10. Rows' = Rows BY <1>3, <1>9 DEF Rows
<1>11. BookRows'
  <2>1. \A k \in LeadIds \ Rows : book'[k] = book[k] BY <1>9
  <2>2. ASSUME NEW j \in Rows, NEW k \in Rows, book'[j].phone = book'[k].phone, book'[j].phone \in Phones
        PROVE  j = k
    BY <1>3, <1>4, <1>9, <2>2 DEF BookIInv, BookRows
  <2> QED BY <1>9, <1>10, <2>1, <2>2 DEF BookIInv, BookRows
<1>12. RowsFit' /\ DraftsFit' BY <1>1, <1>10 DEF BookIInv, RowsFit, DraftsFit
<1>13. BookSets' BY <1>1, <1>7, <1>8, <1>10 DEF BookIInv, BookSets
<1>14. DraftsKnow'
  <2>1. ASSUME NEW d \in drafts, NEW k \in d.rows
        PROVE  /\ book'[k].phone \in Phones
               /\ book'[k].phone \in d.flagged <=> book'[k].phone \in optOuts'
    <3>1. k \in Rows /\ k # l BY <1>5 DEF BookIInv, DraftsFit
    <3>2. book'[k] = book[k] /\ book[k].phone # f.to BY <1>4, <1>9, <3>1
    <3>3. book[k].phone \in Phones /\ (book[k].phone \in d.flagged <=> book[k].phone \in optOuts)
      BY DEF BookIInv, DraftsKnow
    <3> QED BY <1>7, <3>2, <3>3
  <2>2. ASSUME NEW d \in drafts, NEW q \in d.phones, q \notin bookGhost'.raced
        PROVE  q \in d.flagged <=> q \in optOuts'
    <3>1. q \in Phones BY DEF BookIInv, DraftsFit
    <3>2. CASE q # f.to BY <1>7, <1>8, <2>2, <3>1, <3>2 DEF BookIInv, DraftsKnow
    <3>3. CASE q = f.to
      <4>1. Drafted(f.to) BY <3>3 DEF Drafted
      <4>2. ~f.carried BY <1>8, <2>2, <3>3, <4>1
      <4> QED BY <1>7, <1>8, <2>2, <4>2 DEF BookIInv, DraftsKnow
    <3> QED BY <3>2, <3>3
  <2> QED BY <1>1, <2>1, <2>2 DEF DraftsKnow
<1>15. OffersKnow'
  <2> SUFFICES ASSUME NEW k \in offers PROVE book'[k].phone \notin optOuts'
    BY <1>1 DEF OffersKnow
  <2>1. k \in Rows /\ k # l BY <1>6 DEF BookIInv, BookSets
  <2>2. book'[k] = book[k] /\ book[k].phone # f.to BY <1>4, <1>9, <2>1
  <2>3. book[k].phone \notin optOuts BY DEF BookIInv, OffersKnow
  <2> QED BY <1>1, <2>2, <2>3
<1>16. FixesKnow' BY <1>1 DEF FixesKnow
<1>17. RefusalFollows'
  <2> SUFFICES ASSUME NEW k \in bookGhost'.refused PROVE book'[k].phone \in optOuts'
    BY DEF RefusalFollows
  <2>1. k \in bookGhost.refused /\ (k = l => ~f.crossed) /\ k \in LeadIds
    BY <1>8 DEF BookIInv, BookSets
  <2>2. book[k].phone \in optOuts BY <2>1 DEF BookIInv, RefusalFollows
  <2>3. CASE k # l BY <1>7, <1>9, <2>1, <2>2, <2>3
  <2>4. CASE k = l
    <3>1. book[k].phone # Anonymous BY <2>2, BookConstants DEF BookIInv, BookSets
    <3>2. l \in Rows BY <2>1, <2>4, <3>1 DEF BookIInv, BookRows
    <3>3. f.carried BY <1>2, <2>1, <2>2, <2>4, <3>1
    <3> QED BY <1>3, <1>7, <1>9, <2>4, <3>2, <3>3
  <2> QED BY <2>3, <2>4
<1>18. FlagFollowsList'
  <2> SUFFICES ASSUME NEW k \in Rows, book'[k].phone \in Phones \ bookGhost'.raced
               PROVE  book'[k].flag <=> book'[k].phone \in optOuts'
    BY <1>10 DEF FlagFollowsList
  <2>1. CASE k = l BY <1>3, <1>9, <2>1
  <2>2. CASE k # l
    <3>1. book'[k] = book[k] /\ book[k].phone # f.to BY <1>4, <1>9, <2>2
    <3>2. book[k].phone \in Phones \ bookGhost.raced BY <1>8, <3>1
    <3>3. book[k].flag <=> book[k].phone \in optOuts BY <3>2 DEF BookIInv, FlagFollowsList
    <3> QED BY <1>7, <3>1, <3>2, <3>3
  <2> QED BY <2>1, <2>2
<1> QED BY <1>11, <1>12, <1>13, <1>14, <1>15, <1>16, <1>17, <1>18 DEF BookIInv

\* A creation commits: the rows it locked get the flag it read, and the new phones get fresh
\* rows, no more of them than it counted under the lock of the company.
LEMMA StepCommitDraft == ASSUME BookIInv, NEW d \in drafts, DraftCommits(d) PROVE BookIInv'
<1>1. PICK row \in [d.phones -> FreshIds] :
           /\ \A p, q \in d.phones : row[p] = row[q] => p = q
           /\ book' = [l \in LeadIds |->
                  IF l \in d.rows THEN [book[l] EXCEPT !.flag = book[l].phone \in d.flagged]
                  ELSE IF \E p \in d.phones : row[p] = l
                  THEN LET p == CHOOSE q \in d.phones : row[q] = l
                       IN [NoLead EXCEPT !.phone = p, !.here = TRUE, !.flag = p \in d.flagged]
                  ELSE book[l]]
  BY DEF DraftCommits
<1>2. /\ \A p \in d.phones : RowsOf(p) = {}
      /\ drafts' = drafts \ {d} /\ UNCHANGED <<optOuts, offers, fixes, removals, bookGhost>>
  BY DEF DraftCommits
<1> DEFINE New == {row[p] : p \in d.phones}
<1>3. /\ d.phones \in SUBSET Phones /\ d.rows \in SUBSET Rows /\ drafts' = {}
      /\ d.phones = {} \/ Cardinality(Rows) + Cardinality(d.phones) <= LeadLimit
  BY <1>2 DEF BookIInv, DraftsFit
<1>4. /\ New \subseteq LeadIds /\ Rows \subseteq LeadIds
      /\ \A l \in New : l \notin Rows /\ l \notin d.rows /\ \A f \in fixes : f.lead # l
  BY <1>3 DEF FreshIds, Rows
<1>5. ASSUME NEW l \in LeadIds, l \in d.rows
      PROVE  /\ book'[l] \in LeadRows /\ book'[l].phone = book[l].phone /\ book'[l].here = book[l].here
             /\ book'[l].call = book[l].call /\ (book'[l].flag <=> book[l].phone \in optOuts)
  <2> DEFINE on == book[l].phone \in d.flagged
  <2>1. book'[l] = [book[l] EXCEPT !.flag = on] BY <1>1, <1>5
  <2>2. on \in BOOLEAN /\ (on <=> book[l].phone \in optOuts) BY <1>5 DEF BookIInv, DraftsKnow
  <2> HIDE DEF on
  <2>3. book[l] \in LeadRows BY LeadOf
  <2>4. /\ book'[l] \in LeadRows /\ book'[l].phone = book[l].phone /\ book'[l].here = book[l].here
        /\ book'[l].call = book[l].call /\ book'[l].flag = on
    BY <2>1, <2>2, <2>3 DEF LeadRows
  <2> QED BY <2>2, <2>4
<1>6. ASSUME NEW l \in LeadIds, l \notin d.rows, l \notin New PROVE book'[l] = book[l]
  BY <1>1, <1>6
<1>7. ASSUME NEW p \in d.phones
      PROVE  /\ book'[row[p]] \in LeadRows /\ book'[row[p]].phone = p /\ book'[row[p]].here
             /\ ~book'[row[p]].call /\ (book'[row[p]].flag <=> p \in d.flagged)
  <2> DEFINE l == row[p]
             on == p \in d.flagged
  <2>1. l \in LeadIds /\ l \notin d.rows /\ l \in New BY <1>4
  <2>2. (CHOOSE q \in d.phones : row[q] = l) = p BY <1>1
  <2>3. book'[l] = [NoLead EXCEPT !.phone = p, !.here = TRUE, !.flag = on] BY <1>1, <2>1, <2>2
  <2>4. on \in BOOLEAN /\ p \in Phones BY <1>3
  <2>5. NoLead \in LeadRows /\ ~NoLead.call BY DEF NoLead, LeadRows
  <2> HIDE DEF on, l
  <2>6. /\ book'[l] \in LeadRows /\ book'[l].phone = p /\ book'[l].here = TRUE
        /\ book'[l].call = NoLead.call /\ book'[l].flag = on
    BY <2>3, <2>4, <2>5 DEF LeadRows
  <2> QED BY <2>5, <2>6 DEF on, l
<1>8. Rows' = Rows \cup New
  <2>1. \A l \in Rows : book'[l].here
    BY <1>4, <1>5, <1>6 DEF Rows
  <2>2. \A l \in New : book'[l].here BY <1>7
  <2>3. \A l \in LeadIds : l \notin Rows /\ l \notin New => ~book'[l].here
    BY <1>3, <1>6 DEF Rows
  <2> HIDE DEF New
  <2> QED BY <1>4, <2>1, <2>2, <2>3 DEF Rows
<1>9. \A l \in Rows : /\ book'[l].phone = book[l].phone /\ book'[l].call = book[l].call
                      /\ l \notin d.rows => book'[l].flag = book[l].flag
  BY <1>4, <1>5, <1>6
<1>10. BookRows'
  <2>1. book' \in [LeadIds -> LeadRows]
    <3>1. \A l \in LeadIds : book'[l] \in LeadRows BY <1>5, <1>6, <1>7, LeadOf
    <3>2. book' = [l \in LeadIds |-> book'[l]] BY <1>1
    <3> QED BY <3>1, <3>2
  <2>2. \A l \in LeadIds : l \notin Rows' => book'[l].phone = Anonymous /\ ~book'[l].call
    BY <1>3, <1>6, <1>8 DEF BookIInv, BookRows
  <2>3. ASSUME NEW l \in Rows', NEW k \in Rows', book'[l].phone = book'[k].phone, book'[l].phone \in Phones
        PROVE  l = k
    <3>1. CASE l \in Rows /\ k \in Rows BY <1>9, <2>3, <3>1 DEF BookIInv, BookRows
    <3>2. CASE l \in New /\ k \in New BY <1>7, <2>3, <3>2
    <3>3. ASSUME NEW i \in Rows, NEW j \in New PROVE book'[i].phone # book'[j].phone
      <4>1. PICK p \in d.phones : j = row[p] OBVIOUS
      <4>2. book'[j].phone = p BY <1>7, <4>1
      <4>3. book[i].phone # p BY <1>2 DEF RowsOf
      <4> QED BY <1>9, <4>2, <4>3
    <3> QED BY <1>8, <2>3, <3>1, <3>2, <3>3
  <2> QED BY <2>1, <2>2, <2>3 DEF BookRows
<1>11. RowsFit'
  <2>1. IsFiniteSet(Rows) /\ Cardinality(Rows) \in Nat /\ Cardinality(Rows) <= LeadLimit
    BY FS_CardinalityType DEF BookIInv, RowsFit
  <2>2. IsFiniteSet(d.phones) /\ Cardinality(d.phones) \in Nat
    BY <1>3, BookConstants, FS_Subset, FS_CardinalityType
  <2>3. row \in Surjection(d.phones, New) BY DEF Surjection
  <2>4. IsFiniteSet(New) /\ Cardinality(New) <= Cardinality(d.phones)
    <3> HIDE DEF New
    <3> QED BY <2>2, <2>3, FS_Surjection
  <2>5. d.phones = {} => New = {} OBVIOUS
  <2> HIDE DEF New
  <2>6. IsFiniteSet(Rows \cup New) /\ Cardinality(New) \in Nat
        /\ Cardinality(Rows \cup New) = Cardinality(Rows) + Cardinality(New) - Cardinality(Rows \cap New)
    BY <2>1, <2>4, FS_Union, FS_CardinalityType
  <2>7. Cardinality(Rows \cap New) = 0
    <3>1. Rows \cap New = {} BY <1>4
    <3> QED BY <3>1, FS_EmptySet
  <2>8. CASE d.phones = {}
    <3>1. Rows' = Rows BY <1>8, <2>5, <2>8
    <3> QED BY <2>1, <3>1 DEF RowsFit
  <2>9. CASE d.phones # {}
    <3>1. Cardinality(Rows) + Cardinality(d.phones) <= LeadLimit BY <1>3, <2>9
    <3>2. Cardinality(Rows \cup New) <= LeadLimit
      BY <2>1, <2>2, <2>4, <2>6, <2>7, <3>1, BookConstants
    <3> QED BY <1>8, <2>6, <3>2 DEF RowsFit
  <2> QED BY <2>8, <2>9
<1>12. BookSets' /\ DraftsFit' /\ DraftsKnow'
  BY <1>2, <1>3, <1>8 DEF BookIInv, BookSets, DraftsFit, DraftsKnow
<1>13. OffersKnow' BY <1>2, <1>9 DEF BookIInv, BookSets, OffersKnow
<1>14. FixesKnow'
  <2>1. \A f \in fixes : f.lead \in LeadIds /\ f.lead \notin New
    BY <1>4 DEF BookIInv, FixesKnow, FixRows
  <2>2. \A f \in fixes : book'[f.lead].phone = book[f.lead].phone BY <1>3, <1>6, <1>9, <2>1
  <2> QED BY <1>2, <2>2 DEF BookIInv, FixesKnow
<1>15. RefusalFollows'
  <2> SUFFICES ASSUME NEW l \in bookGhost.refused PROVE book'[l].phone \in optOuts
    BY <1>2 DEF RefusalFollows
  <2>1. book[l].phone \in optOuts /\ l \in LeadIds BY DEF BookIInv, RefusalFollows, BookSets
  <2>2. l \in Rows BY <2>1, BookConstants DEF BookIInv, BookRows, BookSets
  <2> QED BY <1>9, <2>1, <2>2
<1>16. FlagFollowsList'
  <2> SUFFICES ASSUME NEW l \in Rows', book'[l].phone \in Phones \ bookGhost.raced
               PROVE  book'[l].flag <=> book'[l].phone \in optOuts
    BY <1>2 DEF FlagFollowsList
  <2>1. CASE l \in d.rows BY <1>3, <1>4, <1>5, <2>1
  <2>2. CASE l \in Rows /\ l \notin d.rows BY <1>9, <2>2 DEF BookIInv, FlagFollowsList
  <2>3. CASE l \in New
    <3>1. PICK p \in d.phones : l = row[p] BY <2>3
    <3>2. book'[l].phone = p /\ (book'[l].flag <=> p \in d.flagged) BY <1>7, <3>1
    <3> QED BY <3>2 DEF BookIInv, DraftsKnow
  <2> QED BY <1>8, <2>1, <2>2, <2>3
<1> QED BY <1>10, <1>11, <1>12, <1>13, <1>14, <1>15, <1>16 DEF BookIInv

LEMMA InitBook == BookInit => BookIInv
<1> SUFFICES ASSUME BookInit PROVE BookIInv
  OBVIOUS
<1>1. /\ book = [l \in LeadIds |-> NoLead] /\ optOuts = {} /\ drafts = {} /\ offers = {} /\ fixes = {}
      /\ removals = {} /\ bookGhost = [refused |-> {}, raced |-> {}]
  BY DEF BookInit
<1>2. NoLead \in LeadRows /\ NoLead.phone = Anonymous /\ ~NoLead.here /\ ~NoLead.call
  BY DEF NoLead, LeadRows
<1>3. Rows = {} BY <1>1, <1>2 DEF Rows
<1>4. RowsFit BY <1>3, FS_EmptySet, BookConstants DEF RowsFit
<1> QED BY <1>1, <1>2, <1>3, <1>4 DEF BookIInv, BookRows, BookSets, DraftsFit, DraftsKnow, OffersKnow,
                                      FixesKnow, RefusalFollows, FlagFollowsList

LEMMA StepBook == BookIInv /\ [BookNext]_bookVars => BookIInv'
<1> SUFFICES ASSUME BookIInv, [BookNext]_bookVars PROVE BookIInv'
  OBVIOUS
<1>1. CASE UNCHANGED bookVars
  <2>1. Rows' = Rows BY <1>1 DEF bookVars, Rows
  <2> QED BY <1>1, <2>1 DEF bookVars, BookIInv, BookRows, BookSets, RowsFit, DraftsFit, DraftsKnow,
             OffersKnow, FixesKnow, RefusalFollows, FlagFollowsList
<1>2. CASE BookNext
  BY <1>2, StepSuppress, StepLift, StepTyped, StepSave, StepLocksOnly, StepCommitDraft, StepCalls,
     StepDelete, StepAnonymize, StepCorrect DEF BookNext
<1> QED BY <1>1, <1>2

\* Leads stay within the plan through every door at once, a refusal follows the person through
\* corrections, and do_not_call says what the list says unless it changed in between.
THEOREM BookIsTrue == BookSpec => []BookInv
<1>1. BookInit => BookIInv BY InitBook
<1>2. BookIInv /\ [BookNext]_bookVars => BookIInv' BY StepBook
<1>3. BookIInv => BookInv BY BookIsInv
<1> QED BY <1>1, <1>2, <1>3, PTL DEF BookSpec

\* A call that commits is one whose row was held since the look at the list.
LEMMA StepNoCall ==
  BookIInv /\ [BookNext]_bookVars =>
    \A l \in LeadIds : ~book[l].call /\ book'[l].call => book[l].phone \notin optOuts
<1> SUFFICES ASSUME BookIInv, [BookNext]_bookVars, NEW l \in LeadIds, ~book[l].call, book'[l].call
             PROVE  book[l].phone \notin optOuts
  OBVIOUS
<1>0. DOMAIN book = LeadIds BY DEF BookIInv, BookRows
<1>1. CASE book' = book BY <1>1
<1>2. ASSUME NEW k \in LeadIds, OfferCommits(k) PROVE book[l].phone \notin optOuts
  <2>1. k = l BY <1>0, <1>2 DEF OfferCommits
  <2>2. l \in offers BY <1>2, <2>1 DEF OfferCommits
  <2> QED BY <2>2 DEF BookIInv, OffersKnow
<1>3. ASSUME NEW k \in LeadIds, \/ \E callback \in BOOLEAN : CallOver(k, callback)
                                \/ CallbackOver(k) \/ RemovalDeletes(k) \/ Anonymize(k)
      PROVE  FALSE
  <2>1. book[k] \in LeadRows BY LeadOf
  <2>2. ASSUME NEW callback \in BOOLEAN, CallOver(k, callback) PROVE FALSE
    <3>1. book' = [book EXCEPT ![k] = WithCallOver(book[k], callback)]
      BY <2>2 DEF CallOver, WithCallOver
    <3>2. WithCallOver(book[k], callback).call = FALSE BY <2>1 DEF WithCallOver, LeadRows
    <3> QED BY <1>0, <3>1, <3>2
  <2>3. ASSUME CallbackOver(k) PROVE FALSE
    <3>1. book' = [book EXCEPT ![k] = WithoutCallback(book[k])]
      BY <2>3 DEF CallbackOver, WithoutCallback
    <3>2. WithoutCallback(book[k]).call = book[k].call BY <2>1 DEF WithoutCallback, LeadRows
    <3> QED BY <1>0, <3>1, <3>2
  <2>4. ASSUME RemovalDeletes(k) PROVE FALSE BY <1>0, <2>4 DEF RemovalDeletes, NoLead
  <2>5. ASSUME Anonymize(k) PROVE FALSE
    <3> DEFINE to == [book[k] EXCEPT !.phone = Anonymous, !.flag = TRUE]
    <3>1. book' = [book EXCEPT ![k] = to] BY <2>5 DEF Anonymize
    <3>2. to.call = book[k].call BY <2>1 DEF LeadRows
    <3> HIDE DEF to
    <3> QED BY <1>0, <3>1, <3>2
  <2> QED BY <1>3, <2>2, <2>3, <2>4, <2>5
<1>4. ASSUME NEW p \in Phones, Suppress(p) \/ Lift(p) PROVE FALSE
  <2>1. PICK on \in BOOLEAN :
          book' = [k \in LeadIds |-> IF k \in RowsOf(p) THEN [book[k] EXCEPT !.flag = on] ELSE book[k]]
    BY <1>4 DEF Suppress, Lift
  <2>2. [book[l] EXCEPT !.flag = on].call = book[l].call BY LeadOf DEF LeadRows
  <2> QED BY <2>1, <2>2
<1>5. ASSUME NEW f \in fixes, CorrectionCommits(f) PROVE FALSE
  <2> DEFINE k == f.lead
             listed == f.to \in optOuts'
             to == [book[k] EXCEPT !.phone = f.to, !.flag = listed]
  <2>1. book' = [book EXCEPT ![k] = to] \/ book' = book BY <1>5 DEF CorrectionCommits
  <2>2. k \in LeadIds BY DEF BookIInv, FixesKnow, FixRows
  <2>3. to.call = book[k].call BY <2>2, LeadOf DEF LeadRows
  <2> HIDE DEF to, k
  <2> QED BY <1>0, <2>1, <2>2, <2>3
<1>6. ASSUME NEW d \in drafts, DraftCommits(d) PROVE FALSE
  <2>1. PICK row \in [d.phones -> FreshIds] :
           book' = [k \in LeadIds |->
                  IF k \in d.rows THEN [book[k] EXCEPT !.flag = book[k].phone \in d.flagged]
                  ELSE IF \E p \in d.phones : row[p] = k
                  THEN LET p == CHOOSE q \in d.phones : row[q] = k
                       IN [NoLead EXCEPT !.phone = p, !.here = TRUE, !.flag = p \in d.flagged]
                  ELSE book[k]]
    BY <1>6 DEF DraftCommits
  <2>2. [book[l] EXCEPT !.flag = book[l].phone \in d.flagged].call = book[l].call
    BY LeadOf DEF LeadRows
  <2>3. \A p : [NoLead EXCEPT !.phone = p, !.here = TRUE, !.flag = p \in d.flagged].call = FALSE
    BY DEF NoLead
  <2> QED BY <2>1, <2>2, <2>3
<1> QED BY <1>1, <1>2, <1>3, <1>4, <1>5, <1>6
        DEF BookNext, bookVars, TypedLead, SaveLeads, DraftAborts, OfferBegins, OfferAborts,
            RemovalLooks, CorrectionReads, CorrectionAborts

\* No call to a phone commits once the opt-out of that phone has.
THEOREM OptOutRespected == BookSpec => NoCallAfterOptOut
<1>1. BookInit => BookIInv BY InitBook
<1>2. BookIInv /\ [BookNext]_bookVars => BookIInv' BY StepBook
<1>3. BookIInv /\ [BookNext]_bookVars =>
        [\A l \in LeadIds : ~book[l].call /\ book'[l].call => book[l].phone \notin optOuts]_bookVars
  BY StepNoCall
<1> QED BY <1>1, <1>2, <1>3, PTL DEF BookSpec, NoCallAfterOptOut
-----------------------------------------------------------------------------
(* Members: a request that holds the lock of the tenant has room below the *)
(* limit it counted against, one that may take a leader away has another   *)
(* leader to spare, and a request that holds a row finds it as it was; all *)
(* this until a request is committed on a row that changed under it.       *)
ReqKinds == {"edit", "invite", "resend", "create", "accept", "link"}
ReqRows == [pc : {"asked", "open"}, kind : ReqKinds, user : People,
            to : Roles \cup {"active", "blocked", "removed"}, loses : BOOLEAN, seat : BOOLEAN,
            stale : BOOLEAN, limit : SeatLimits \cup {NoLimit}]

MemTyped ==
  /\ member \in [People -> MemberRows] /\ invite \in [People -> {"none", "pending", "expired"}]
  /\ provisioned \subseteq People /\ seatLimit \in SeatLimits /\ misread \in BOOLEAN
ReqsTyped == requests \subseteq ReqRows
KindsFit ==
  \A t \in requests :
    /\ t.pc = "asked" => t.kind \in {"edit", "invite", "resend"}
    /\ t.kind # "edit" => ~t.loses /\ t.to \in Roles
    /\ t.kind \in {"invite", "resend", "accept"} => t.seat
    /\ t.kind \in {"accept", "link"} => t.to = "sdr"
    /\ t.kind = "create" => (t.seat <=> t.to = "sdr")
    /\ t.kind = "edit" /\ ~t.stale =>
         /\ t.loses <=> LosesLeader(t.user, t.to)
         /\ t.seat <=> TakesSeat("edit", t.user, t.to)
RowsFound ==
  \A t \in requests : t.pc = "open" =>
    /\ t.kind \in {"create", "accept"} => member[t.user].status \in {"none", "removed"}
    /\ t.kind = "link" /\ t.seat => ~Serving(t.user)
LocksHeld2 ==
  \A s, t \in requests : /\ HoldsTenant(s) /\ HoldsTenant(t) => s = t
                         /\ HoldsLeaders(s) /\ HoldsLeaders(t) => s = t
OwnInvite(t) == IF t.kind \in {"accept", "resend"} THEN {t.user} ELSE {}
SeatsBut(own) == Cardinality(UsedBy) + Cardinality(ReservedFor \ own)
RoomLeft ==
  \A t \in requests : t.limit # NoLimit => HoldsTenant(t) /\ (misread \/ SeatsBut(OwnInvite(t)) < t.limit)
TwoLeaders == \E a, b \in Leaders : a # b
LeaderLeft == \A t \in requests : HoldsLeaders(t) => misread \/ TwoLeaders

MemIInv ==
  /\ MemTyped /\ ReqsTyped /\ KindsFit /\ RowsFound /\ LocksHeld2 /\ RoomLeft /\ LeaderLeft
  /\ LeaderRemains

LEMMA MemIsInv == MemIInv => MembersInv
BY DEF MemIInv, MembersInv, MembersTypeOK, MemTyped, ReqsTyped, ReqRows

LEMMA ReqOf ==
  ASSUME MemIInv, NEW t \in requests
  PROVE  /\ t \in ReqRows /\ t.pc \in {"asked", "open"} /\ t.kind \in ReqKinds /\ t.user \in People
         /\ t.to \in Roles \cup {"active", "blocked", "removed"} /\ t.loses \in BOOLEAN
         /\ t.seat \in BOOLEAN /\ t.stale \in BOOLEAN /\ t.limit \in SeatLimits \cup {NoLimit}
BY DEF MemIInv, ReqsTyped, ReqRows

\* Sets of people are finite, and what one person adds to one of them counts at most once.
LEMMA PeopleCount ==
  ASSUME NEW A \in SUBSET People
  PROVE  /\ IsFiniteSet(A) /\ Cardinality(A) \in Nat
         /\ \A B : B \subseteq A => Cardinality(B) \in Nat /\ Cardinality(B) <= Cardinality(A)
         /\ \A u, B : B \subseteq A \cup {u} =>
              Cardinality(B) \in Nat /\ Cardinality(B) <= Cardinality(A) + 1
<1>1. IsFiniteSet(A) /\ Cardinality(A) \in Nat
  BY MembersConstants, FS_Subset, FS_CardinalityType
<1>2. ASSUME NEW B, B \subseteq A PROVE Cardinality(B) \in Nat /\ Cardinality(B) <= Cardinality(A)
  BY <1>1, <1>2, FS_Subset, FS_CardinalityType
<1>3. ASSUME NEW u, NEW B, B \subseteq A \cup {u}
      PROVE  Cardinality(B) \in Nat /\ Cardinality(B) <= Cardinality(A) + 1
  <2>1. IsFiniteSet(A \cup {u}) /\ Cardinality(A \cup {u}) \in Nat
    BY <1>1, FS_AddElement, FS_CardinalityType
  <2>2. Cardinality(A \cup {u}) = IF u \in A THEN Cardinality(A) ELSE Cardinality(A) + 1
    BY <1>1, FS_AddElement
  <2>3. Cardinality(B) \in Nat /\ Cardinality(B) <= Cardinality(A \cup {u})
    BY <1>3, <2>1, FS_Subset, FS_CardinalityType
  <2> QED BY <1>1, <2>1, <2>2, <2>3
<1> QED BY <1>1, <1>2, <1>3

LEMMA Groups == /\ UsedBy \in SUBSET People /\ Leaders \in SUBSET People
                /\ ReservedFor \in SUBSET People /\ \A own : ReservedFor \ own \in SUBSET People
BY DEF UsedBy, Leaders, ReservedFor

\* More than one leader is two of them.
LEMMA SpareLeader == ASSUME Cardinality(Leaders) > 1 PROVE TwoLeaders
<1>1. IsFiniteSet(Leaders) /\ Cardinality(Leaders) \in Nat BY Groups, PeopleCount
<1>2. Leaders # {} BY FS_EmptySet
<1>3. PICK a \in Leaders : TRUE BY <1>2
<1>4. Leaders # {a} BY FS_Singleton
<1> QED BY <1>3, <1>4 DEF TwoLeaders

\* Requests that come, and those that open, on rows and locks as they are.
LEMMA NewRequest ==
  ASSUME MemIInv, UNCHANGED <<member, invite, provisioned, seatLimit, misread>>,
         requests' \subseteq ReqRows,
         \A t \in requests' \ requests :
           /\ t.pc = "asked" => t.kind \in {"edit", "invite", "resend"}
           /\ t.kind # "edit" => ~t.loses /\ t.to \in Roles
           /\ t.kind \in {"invite", "resend", "accept"} => t.seat
           /\ t.kind \in {"accept", "link"} => t.to = "sdr"
           /\ t.kind = "create" => (t.seat <=> t.to = "sdr")
           /\ t.kind = "edit" /\ ~t.stale =>
                /\ t.loses <=> LosesLeader(t.user, t.to)
                /\ t.seat <=> TakesSeat("edit", t.user, t.to)
           /\ t.pc = "open" =>
                /\ t.kind \in {"create", "accept"} => member[t.user].status \in {"none", "removed"}
                /\ t.kind = "link" /\ t.seat => ~Serving(t.user)
           /\ \A o \in requests' : /\ HoldsTenant(t) /\ HoldsTenant(o) => t = o
                                   /\ HoldsLeaders(t) /\ HoldsLeaders(o) => t = o
           /\ t.limit # NoLimit => HoldsTenant(t) /\ SeatsBut(OwnInvite(t)) < t.limit
           /\ HoldsLeaders(t) => TwoLeaders
  PROVE  MemIInv'
<1>1. /\ Leaders' = Leaders /\ UsedBy' = UsedBy /\ ReservedFor' = ReservedFor
      /\ \A u : Serving(u)' <=> Serving(u)
  BY DEF Leaders, UsedBy, ReservedFor, Serving
<1>2. MemTyped' /\ ReqsTyped' /\ LeaderRemains' BY <1>1 DEF MemIInv, MemTyped, ReqsTyped, LeaderRemains
<1>3. KindsFit' BY DEF MemIInv, KindsFit, LosesLeader, TakesSeat, Serving
<1>4. RowsFound' BY DEF MemIInv, RowsFound, Serving
<1>5. LocksHeld2' BY DEF MemIInv, LocksHeld2, HoldsTenant, HoldsLeaders
<1>6. RoomLeft' BY <1>1 DEF MemIInv, RoomLeft, HoldsTenant, SeatsBut
<1>7. LeaderLeft' BY <1>1 DEF MemIInv, LeaderLeft, HoldsLeaders, TwoLeaders
<1> QED BY <1>2, <1>3, <1>4, <1>5, <1>6, <1>7 DEF MemIInv

LEMMA SeatOrNot == ASSUME NEW kind \in ReqKinds, NEW u \in People, NEW to
                   PROVE  /\ TakesSeat(kind, u, to) \in BOOLEAN /\ LosesLeader(u, to) \in BOOLEAN
                          /\ kind \in {"invite", "resend", "accept"} => TakesSeat(kind, u, to)
                          /\ kind = "create" => (TakesSeat(kind, u, to) <=> to = "sdr")
                          /\ kind = "link" => (TakesSeat(kind, u, to) <=> ~Serving(u))
<1>1. LosesLeader(u, to) \in BOOLEAN BY DEF LosesLeader
<1>2. CASE kind = "edit" BY <1>1, <1>2 DEF TakesSeat
<1>3. CASE kind = "create" BY <1>1, <1>3 DEF TakesSeat
<1>4. CASE kind = "link" BY <1>1, <1>4 DEF TakesSeat
<1>5. CASE kind \in {"invite", "resend", "accept"} BY <1>1, <1>5 DEF TakesSeat
<1> QED BY <1>2, <1>3, <1>4, <1>5 DEF ReqKinds

LEMMA StepAsked ==
  ASSUME MemIInv, NEW kind \in {"edit", "invite", "resend"}, NEW u \in People,
         NEW to \in Roles \cup {"active", "blocked", "removed"}, kind # "edit" => to \in Roles,
         Asked(kind, u, to)
  PROVE  MemIInv'
<1> DEFINE seat == TakesSeat(kind, u, to)
           loses == kind = "edit" /\ LosesLeader(u, to)
           new == [pc |-> "asked", kind |-> kind, user |-> u, to |-> to, loses |-> loses, seat |-> seat,
                   stale |-> FALSE, limit |-> NoLimit]
<1>0. kind \in ReqKinds BY DEF ReqKinds
<1>1. requests' = requests \cup {new} /\ UNCHANGED <<member, invite, provisioned, seatLimit, misread>>
  BY DEF Asked
<1>2. /\ seat \in BOOLEAN /\ loses \in BOOLEAN
      /\ kind # "edit" => ~loses /\ seat
      /\ kind = "edit" => (loses <=> LosesLeader(u, to)) /\ (seat <=> TakesSeat("edit", u, to))
  BY <1>0, SeatOrNot
<1> HIDE DEF seat, loses
<1>3. /\ new \in ReqRows /\ new.pc = "asked" /\ new.kind = kind /\ new.user = u /\ new.to = to
      /\ new.loses = loses /\ new.seat = seat /\ new.limit = NoLimit
  BY <1>0, <1>2 DEF ReqRows
<1> HIDE DEF new
<1>4. requests' \subseteq ReqRows BY <1>1, <1>3 DEF MemIInv, ReqsTyped
<1>5. \A t \in requests' \ requests : t = new BY <1>1
<1>6. ~HoldsTenant(new) /\ ~HoldsLeaders(new) BY <1>3 DEF HoldsTenant, HoldsLeaders
<1> QED BY <1>1, <1>2, <1>3, <1>4, <1>5, <1>6, NewRequest

\* A request that opens got the locks it needs and found room, and a leader to spare.
LEMMA StepOpen ==
  ASSUME MemIInv, NEW t \in requests, NEW passes \in BOOLEAN, OpenRequest(t, passes)
  PROVE  MemIInv'
<1> DEFINE limit == IF t.seat /\ ~passes THEN seatLimit ELSE NoLimit
           new == [t EXCEPT !.pc = "open", !.limit = limit]
<1>1. /\ t.pc = "asked" /\ LocksFree(t)
      /\ UNCHANGED <<member, invite, provisioned, seatLimit, misread>>
      /\ \/ requests' = requests \ {t}
         \/ /\ requests' = (requests \ {t}) \cup {new}
            /\ LeaderSpare(t) /\ (t.seat => SeatFree(t, passes))
  BY DEF OpenRequest, Opened
<1>2. t \in ReqRows /\ seatLimit \in SeatLimits BY ReqOf DEF MemIInv, MemTyped
<1>3. limit \in SeatLimits \cup {NoLimit} BY <1>2
<1>4. /\ new \in ReqRows /\ new.pc = "open" /\ new.kind = t.kind /\ new.user = t.user /\ new.to = t.to
      /\ new.loses = t.loses /\ new.seat = t.seat /\ new.stale = t.stale /\ new.limit = limit
  <2> HIDE DEF limit
  <2> QED BY <1>2, <1>3 DEF ReqRows
<1> HIDE DEF new
<1>5. t.kind \in {"edit", "invite", "resend"} BY <1>1 DEF MemIInv, KindsFit
<1>6. CASE requests' = requests \ {t}
  <2>1. requests' \subseteq ReqRows /\ requests' \ requests = {} BY <1>6 DEF MemIInv, ReqsTyped
  <2> QED BY <1>1, <2>1, NewRequest
<1>7. CASE /\ requests' = (requests \ {t}) \cup {new}
           /\ LeaderSpare(t) /\ (t.seat => SeatFree(t, passes))
  <2>1. requests' \subseteq ReqRows BY <1>4, <1>7 DEF MemIInv, ReqsTyped
  <2>2. \A o \in requests' \ requests : o = new BY <1>7
  <2>3. ASSUME NEW o \in requests'
        PROVE  /\ HoldsTenant(new) /\ HoldsTenant(o) => new = o
               /\ HoldsLeaders(new) /\ HoldsLeaders(o) => new = o
    BY <1>1, <1>4, <1>7 DEF LocksFree, HoldsTenant, HoldsLeaders
  <2>4. new.limit # NoLimit => HoldsTenant(new) /\ SeatsBut(OwnInvite(new)) < new.limit
    <3> SUFFICES ASSUME t.seat, ~passes PROVE HoldsTenant(new) /\ SeatsBut(OwnInvite(new)) < seatLimit
      BY <1>4
    <3>1. SeatFree(t, passes) BY <1>7
    <3>2. OwnInvite(new) = IF t.kind \in {"accept", "resend"} THEN {t.user} ELSE {}
      BY <1>4 DEF OwnInvite
    <3> QED BY <1>4, <3>1, <3>2 DEF SeatFree, SeatsBut, HoldsTenant
  <2>5. HoldsLeaders(new) => TwoLeaders BY <1>4, <1>7, SpareLeader DEF HoldsLeaders, LeaderSpare
  <2>6. /\ new.kind # "edit" => ~new.loses /\ new.to \in Roles
        /\ new.kind \in {"invite", "resend", "accept"} => new.seat
        /\ new.kind \in {"edit", "invite", "resend"}
        /\ new.kind = "edit" /\ ~new.stale =>
             /\ new.loses <=> LosesLeader(new.user, new.to)
             /\ new.seat <=> TakesSeat("edit", new.user, new.to)
    BY <1>4, <1>5 DEF MemIInv, KindsFit
  <2> QED BY <1>1, <1>4, <2>1, <2>2, <2>3, <2>4, <2>5, <2>6, NewRequest
<1> QED BY <1>1, <1>6, <1>7

LEMMA StepOpenAtOnce ==
  ASSUME MemIInv, NEW kind \in {"create", "accept", "link"}, NEW u \in People, NEW to \in Roles,
         NEW passes \in BOOLEAN, OpenAtOnce(kind, u, to, passes),
         kind \in {"accept", "link"} => to = "sdr",
         kind \in {"create", "accept"} => member[u].status \in {"none", "removed"}
  PROVE  MemIInv'
<1> DEFINE seat == TakesSeat(kind, u, to)
           t == [pc |-> "open", kind |-> kind, user |-> u, to |-> to, loses |-> FALSE,
                 seat |-> seat, stale |-> FALSE, limit |-> NoLimit]
           limit == IF seat /\ ~passes THEN seatLimit ELSE NoLimit
           new == [t EXCEPT !.pc = "open", !.limit = limit]
<1>0. kind \in ReqKinds BY DEF ReqKinds
<1>1. /\ LocksFree(t) /\ (seat => SeatFree(t, passes))
      /\ requests' = requests \cup {new}
      /\ UNCHANGED <<member, invite, provisioned, seatLimit, misread>>
  BY DEF OpenAtOnce, Opened
<1>2. /\ seat \in BOOLEAN
      /\ kind = "accept" => seat
      /\ kind = "create" => (seat <=> to = "sdr")
      /\ kind = "link" => (seat <=> ~Serving(u))
  BY <1>0, SeatOrNot
<1>3. limit \in SeatLimits \cup {NoLimit} BY DEF MemIInv, MemTyped
<1> HIDE DEF seat
<1>4. /\ t.kind = kind /\ t.user = u /\ t.seat = seat /\ ~t.loses
      /\ new \in ReqRows /\ new.pc = "open" /\ new.kind = kind /\ new.user = u /\ new.to = to
      /\ ~new.loses /\ new.seat = seat /\ new.limit = limit
  <2> HIDE DEF limit
  <2> QED BY <1>0, <1>2, <1>3 DEF ReqRows
<1> HIDE DEF new, t
<1>5. requests' \subseteq ReqRows BY <1>1, <1>4 DEF MemIInv, ReqsTyped
<1>6. \A o \in requests' \ requests : o = new BY <1>1
<1>7. ASSUME NEW o \in requests'
      PROVE  /\ HoldsTenant(new) /\ HoldsTenant(o) => new = o
             /\ HoldsLeaders(new) /\ HoldsLeaders(o) => new = o
  BY <1>1, <1>4 DEF LocksFree, HoldsTenant, HoldsLeaders
<1>8. new.limit # NoLimit => HoldsTenant(new) /\ SeatsBut(OwnInvite(new)) < new.limit
  <2> SUFFICES ASSUME seat, ~passes PROVE HoldsTenant(new) /\ SeatsBut(OwnInvite(new)) < seatLimit
    BY <1>4
  <2>1. SeatFree(t, passes) BY <1>1
  <2>2. OwnInvite(new) = IF t.kind \in {"accept", "resend"} THEN {t.user} ELSE {}
    BY <1>4 DEF OwnInvite
  <2> QED BY <1>4, <2>1, <2>2 DEF SeatFree, SeatsBut, HoldsTenant
<1>9. ~HoldsLeaders(new) BY <1>4 DEF HoldsLeaders
<1> QED BY <1>1, <1>2, <1>4, <1>5, <1>6, <1>7, <1>8, <1>9, NewRequest

\* Requests that see a row change keep all but their freshness.
LEMMA OutdatedOf ==
  ASSUME MemIInv, NEW rest \in SUBSET requests, NEW o \in Outdated(rest)
  PROVE  \E s \in rest : /\ o \in ReqRows /\ o.pc = s.pc /\ o.kind = s.kind /\ o.user = s.user
                         /\ o.to = s.to /\ o.loses = s.loses /\ o.seat = s.seat /\ o.limit = s.limit
                         /\ o.stale <=> \/ s.stale
                                        \/ s.kind = "edit" /\ member'[s.user] # member[s.user]
                         /\ o = [s EXCEPT !.stale = @ \/ (s.kind = "edit" /\ member'[s.user] # member[s.user])]
<1>1. PICK s \in rest :
        o = [s EXCEPT !.stale = @ \/ (s.kind = "edit" /\ member'[s.user] # member[s.user])]
  BY DEF Outdated
<1> DEFINE late == s.stale \/ (s.kind = "edit" /\ member'[s.user] # member[s.user])
<1>2. s \in ReqRows /\ late \in BOOLEAN BY ReqOf
<1>3. o = [s EXCEPT !.stale = late] BY <1>1
<1> HIDE DEF late
<1>4. /\ o \in ReqRows /\ o.pc = s.pc /\ o.kind = s.kind /\ o.user = s.user
      /\ o.to = s.to /\ o.loses = s.loses /\ o.seat = s.seat /\ o.limit = s.limit /\ o.stale = late
  BY <1>2, <1>3 DEF ReqRows
<1> QED BY <1>1, <1>4 DEF late

\* A row changes that no other request holds, to the harm of no request that counts on seats
\* or leaders.
LEMMA RowChanges ==
  ASSUME MemIInv, NEW u \in People, NEW rest \in SUBSET requests, requests' = Outdated(rest),
         MemTyped', \A w \in People : w # u => member'[w] = member[w],
         \A o \in rest : ~HoldsRow(o, u),
         misread => misread',
         \A o \in rest : HoldsTenant(o) =>
            misread' \/ (UsedBy' \subseteq UsedBy /\ ReservedFor' \subseteq ReservedFor),
         \A o \in rest : HoldsLeaders(o) => misread' \/ (TwoLeaders => TwoLeaders'),
         LeaderRemains'
  PROVE  MemIInv'
<1>1. ASSUME NEW o \in requests'
      PROVE  \E s \in rest : /\ o \in ReqRows /\ o.pc = s.pc /\ o.kind = s.kind /\ o.user = s.user
                             /\ o.to = s.to /\ o.loses = s.loses /\ o.seat = s.seat
                             /\ o.limit = s.limit
                             /\ o.stale <=> \/ s.stale
                                            \/ s.kind = "edit" /\ member'[s.user] # member[s.user]
                             /\ o = [s EXCEPT !.stale = @ \/ (s.kind = "edit" /\ member'[s.user] # member[s.user])]
  BY OutdatedOf
<1>2. ReqsTyped' BY <1>1 DEF ReqsTyped
<1>3. KindsFit'
  <2> SUFFICES ASSUME NEW o \in requests'
               PROVE  /\ o.pc = "asked" => o.kind \in {"edit", "invite", "resend"}
                      /\ o.kind # "edit" => ~o.loses /\ o.to \in Roles
                      /\ o.kind \in {"invite", "resend", "accept"} => o.seat
                      /\ o.kind \in {"accept", "link"} => o.to = "sdr"
                      /\ o.kind = "create" => (o.seat <=> o.to = "sdr")
                      /\ o.kind = "edit" /\ ~o.stale =>
                           /\ o.loses <=> LosesLeader(o.user, o.to)'
                           /\ o.seat <=> TakesSeat("edit", o.user, o.to)'
    BY DEF KindsFit
  <2>1. PICK s \in rest : /\ o.pc = s.pc /\ o.kind = s.kind /\ o.user = s.user
                          /\ o.to = s.to /\ o.loses = s.loses /\ o.seat = s.seat
                          /\ o.stale <=> \/ s.stale
                                         \/ s.kind = "edit" /\ member'[s.user] # member[s.user]
    BY <1>1
  <2>2. /\ s.pc = "asked" => s.kind \in {"edit", "invite", "resend"}
        /\ s.kind # "edit" => ~s.loses /\ s.to \in Roles
        /\ s.kind \in {"invite", "resend", "accept"} => s.seat
        /\ s.kind \in {"accept", "link"} => s.to = "sdr"
        /\ s.kind = "create" => (s.seat <=> s.to = "sdr")
        /\ s.kind = "edit" /\ ~s.stale =>
             /\ s.loses <=> LosesLeader(s.user, s.to)
             /\ s.seat <=> TakesSeat("edit", s.user, s.to)
    BY DEF MemIInv, KindsFit
  <2>3. ASSUME o.kind = "edit", ~o.stale
        PROVE  /\ o.loses <=> LosesLeader(o.user, o.to)'
               /\ o.seat <=> TakesSeat("edit", o.user, o.to)'
    <3>1. member'[s.user] = member[s.user] /\ ~s.stale BY <2>1, <2>3
    <3>2. LosesLeader(s.user, s.to)' <=> LosesLeader(s.user, s.to)
      BY <3>1 DEF LosesLeader, Serving
    <3>3. TakesSeat("edit", s.user, s.to)' <=> TakesSeat("edit", s.user, s.to)
      BY <3>1 DEF TakesSeat, Serving
    <3> QED BY <2>1, <2>2, <2>3, <3>1, <3>2, <3>3
  <2> QED BY <2>1, <2>2, <2>3
<1>4. RowsFound'
  <2> SUFFICES ASSUME NEW o \in requests', o.pc = "open"
               PROVE  /\ o.kind \in {"create", "accept"} => member'[o.user].status \in {"none", "removed"}
                      /\ o.kind = "link" /\ o.seat => member'[o.user].status # "active"
    BY DEF RowsFound, Serving
  <2>1. PICK s \in rest : o.pc = s.pc /\ o.kind = s.kind /\ o.user = s.user /\ o.seat = s.seat
    BY <1>1
  <2>2. s.user \in People BY ReqOf
  <2>3. s.kind \in {"create", "accept", "link"} => s.user # u BY <2>1 DEF HoldsRow
  <2>4. s.kind \in {"create", "accept", "link"} => member'[s.user] = member[s.user] BY <2>2, <2>3
  <2> QED BY <2>1, <2>4 DEF MemIInv, RowsFound, Serving
<1>5. LocksHeld2'
  <2> SUFFICES ASSUME NEW o \in requests', NEW p \in requests'
               PROVE  /\ HoldsTenant(o) /\ HoldsTenant(p) => o = p
                      /\ HoldsLeaders(o) /\ HoldsLeaders(p) => o = p
    BY DEF LocksHeld2, HoldsTenant, HoldsLeaders
  <2>1. PICK s \in rest : /\ o.pc = s.pc /\ o.loses = s.loses /\ o.seat = s.seat
                          /\ o = [s EXCEPT !.stale = @ \/ (s.kind = "edit" /\ member'[s.user] # member[s.user])]
    BY <1>1
  <2>2. PICK r \in rest : /\ p.pc = r.pc /\ p.loses = r.loses /\ p.seat = r.seat
                          /\ p = [r EXCEPT !.stale = @ \/ (r.kind = "edit" /\ member'[r.user] # member[r.user])]
    BY <1>1
  <2>3. /\ HoldsTenant(s) /\ HoldsTenant(r) => s = r
        /\ HoldsLeaders(s) /\ HoldsLeaders(r) => s = r
    BY DEF MemIInv, LocksHeld2
  <2>4. /\ HoldsTenant(o) <=> HoldsTenant(s)
        /\ HoldsTenant(p) <=> HoldsTenant(r)
        /\ HoldsLeaders(o) <=> HoldsLeaders(s)
        /\ HoldsLeaders(p) <=> HoldsLeaders(r)
    BY <2>1, <2>2 DEF HoldsTenant, HoldsLeaders
  <2>5. s = r => o = p BY <2>1, <2>2
  <2> QED BY <2>3, <2>4, <2>5
<1>6. RoomLeft'
  <2> SUFFICES ASSUME NEW o \in requests', o.limit # NoLimit
               PROVE  HoldsTenant(o) /\ (misread' \/ SeatsBut(OwnInvite(o))' < o.limit)
    BY DEF RoomLeft, HoldsTenant, OwnInvite
  <2>1. PICK s \in rest : /\ o.pc = s.pc /\ o.kind = s.kind /\ o.user = s.user /\ o.seat = s.seat
                          /\ o.limit = s.limit
    BY <1>1
  <2>2. HoldsTenant(s) /\ (misread \/ SeatsBut(OwnInvite(s)) < s.limit)
    BY <2>1 DEF MemIInv, RoomLeft
  <2>3. HoldsTenant(o) /\ OwnInvite(o) = OwnInvite(s) BY <2>1, <2>2 DEF HoldsTenant, OwnInvite
  <2> DEFINE own == OwnInvite(s)
  <2>4. CASE ~misread'
    <3>1. UsedBy' \subseteq UsedBy /\ ReservedFor' \ own \subseteq ReservedFor \ own BY <2>2, <2>4
    <3>2. /\ Cardinality(UsedBy') \in Nat /\ Cardinality(UsedBy') <= Cardinality(UsedBy)
          /\ Cardinality(UsedBy) \in Nat
      BY <3>1, Groups, PeopleCount
    <3>3. /\ Cardinality(ReservedFor' \ own) \in Nat
          /\ Cardinality(ReservedFor' \ own) <= Cardinality(ReservedFor \ own)
          /\ Cardinality(ReservedFor \ own) \in Nat
      <4>1. ReservedFor \ own \in SUBSET People BY Groups
      <4> QED BY <3>1, <4>1, PeopleCount
    <3>4. s.limit \in Nat BY <2>1, ReqOf, MembersConstants
    <3>5. SeatsBut(own) < s.limit BY <2>2, <2>4
    <3>6. Cardinality(UsedBy') + Cardinality(ReservedFor' \ own) < s.limit
      <4> HIDE DEF own
      <4> QED BY <3>2, <3>3, <3>4, <3>5 DEF SeatsBut
    <3>7. SeatsBut(OwnInvite(o))' = Cardinality(UsedBy') + Cardinality(ReservedFor' \ own)
      BY <2>3 DEF SeatsBut
    <3> QED BY <2>1, <2>3, <3>6, <3>7
  <2> QED BY <2>3, <2>4
<1>7. LeaderLeft'
  <2> SUFFICES ASSUME NEW o \in requests', HoldsLeaders(o) PROVE misread' \/ TwoLeaders'
    BY DEF LeaderLeft, HoldsLeaders
  <2>1. PICK s \in rest : o.pc = s.pc /\ o.loses = s.loses BY <1>1
  <2>2. HoldsLeaders(s) BY <2>1 DEF HoldsLeaders
  <2> QED BY <2>2 DEF MemIInv, LeaderLeft
<1> QED BY <1>2, <1>3, <1>4, <1>5, <1>6, <1>7 DEF MemIInv

\* What a request makes of the row it holds, when the row is as it was read.
LEMMA RowAfter ==
  ASSUME MemIInv, NEW t \in requests, t.pc = "open"
  PROVE  /\ MemberAfter(t, member[t.user]) \in MemberRows
         /\ ~(t.kind = "edit" /\ t.stale) =>
              /\ ~t.loses /\ t.user \in Leaders =>
                   /\ MemberAfter(t, member[t.user]).status = "active"
                   /\ MemberAfter(t, member[t.user]).role = "leader"
              /\ ~t.seat /\ MemberAfter(t, member[t.user]).status = "active"
                         /\ MemberAfter(t, member[t.user]).role = "sdr" => t.user \in UsedBy
              /\ t.kind \in {"invite", "resend"} => MemberAfter(t, member[t.user]) = member[t.user]
<1> DEFINE u == t.user
           row == member[u]
           to == MemberAfter(t, row)
<1>1. /\ u \in People /\ row \in MemberRows /\ row.role \in Roles
      /\ row.status \in {"none", "active", "blocked", "removed"} /\ t.kind \in ReqKinds
      /\ t.to \in Roles \cup {"active", "blocked", "removed"}
  BY ReqOf DEF MemIInv, MemTyped, MemberRows
<1>2. /\ u \in Leaders <=> row.status = "active" /\ row.role = "leader"
      /\ u \in UsedBy <=> row.status = "active" /\ row.role = "sdr"
      /\ Serving(u) <=> row.status = "active"
  BY <1>1 DEF Leaders, UsedBy, Serving
<1>3. CASE t.kind = "edit"
  <2>1. ~t.stale => /\ t.loses <=> LosesLeader(u, t.to)
                    /\ t.seat <=> TakesSeat("edit", u, t.to)
    BY <1>3 DEF MemIInv, KindsFit
  <2>2. /\ LosesLeader(u, t.to) <=> /\ row.role = "leader"
                                    /\ t.to \in {"blocked", "removed"} \/ (t.to = "sdr" /\ row.status = "active")
        /\ TakesSeat("edit", u, t.to) <=>
             \/ t.to = "active" /\ row.role = "sdr" /\ row.status # "active"
             \/ t.to = "sdr" /\ row.role # "sdr" /\ row.status = "active"
    BY <1>2 DEF LosesLeader, TakesSeat
  <2>3. CASE t.to \in Roles
    <3>1. to = [row EXCEPT !.role = t.to] BY <1>3, <2>3 DEF MemberAfter
    <3> HIDE DEF to, row
    <3>2. to \in MemberRows /\ to.role = t.to /\ to.status = row.status
      BY <1>1, <2>3, <3>1 DEF MemberRows
    <3> QED BY <1>1, <1>2, <1>3, <2>1, <2>2, <2>3, <3>2 DEF Roles, to, row
  <2>4. CASE t.to \notin Roles
    <3>1. to = [row EXCEPT !.status = t.to] BY <1>3, <2>4 DEF MemberAfter
    <3>2. t.to \in {"active", "blocked", "removed"} BY <1>1, <2>4
    <3> HIDE DEF to, row
    <3>3. to \in MemberRows /\ to.status = t.to /\ to.role = row.role
      BY <1>1, <3>1, <3>2 DEF MemberRows
    <3> QED BY <1>1, <1>2, <1>3, <2>1, <2>2, <3>2, <3>3 DEF Roles, to, row
  <2> QED BY <2>3, <2>4
<1>4. CASE t.kind \in {"create", "accept"}
  <2>1. to = [role |-> t.to, status |-> "active"] BY <1>4 DEF MemberAfter
  <2>2. t.to \in Roles /\ (t.seat <=> t.to = "sdr") BY <1>4 DEF MemIInv, KindsFit, Roles
  <2>3. row.status \in {"none", "removed"} BY <1>4 DEF MemIInv, RowsFound
  <2> HIDE DEF to, row
  <2>4. to \in MemberRows /\ to.role = t.to BY <2>1, <2>2 DEF MemberRows
  <2> QED BY <1>2, <1>4, <2>2, <2>3, <2>4 DEF to, row
<1>5. CASE t.kind = "link" /\ t.seat
  <2>1. to = [role |-> "sdr", status |-> "active"] BY <1>5 DEF MemberAfter
  <2>2. ~Serving(u) BY <1>5 DEF MemIInv, RowsFound
  <2> HIDE DEF to, row
  <2>3. to \in MemberRows BY <2>1 DEF MemberRows, Roles
  <2> QED BY <1>2, <1>5, <2>2, <2>3 DEF to, row
<1>6. CASE t.kind \in {"invite", "resend"} \/ (t.kind = "link" /\ ~t.seat)
  <2>1. to = row BY <1>6 DEF MemberAfter
  <2> HIDE DEF to, row
  <2> QED BY <1>1, <1>2, <2>1 DEF to, row
<1> QED BY <1>1, <1>3, <1>4, <1>5, <1>6 DEF ReqKinds

LEMMA InviteKept ==
  ASSUME MemIInv, NEW t \in requests
  PROVE  /\ InviteAfter(t) \in {"none", "pending", "expired"}
         /\ t.kind \notin {"invite", "resend"} /\ InviteAfter(t) = "pending" => t.user \in ReservedFor
         /\ t.kind = "accept" => InviteAfter(t) = "none"
<1>1. t.user \in People /\ invite[t.user] \in {"none", "pending", "expired"} BY ReqOf DEF MemIInv, MemTyped
<1> QED BY <1>1 DEF InviteAfter, ReservedFor

\* Who is counted after a commit.
LEMMA CommitCounts ==
  ASSUME MemIInv, NEW t \in requests, CommitRequest(t)
  PROVE  /\ t.pc = "open" /\ requests' = Outdated(requests \ {t}) /\ UNCHANGED seatLimit
         /\ MemTyped' /\ \A w \in People : w # t.user => member'[w] = member[w]
         /\ \A o \in requests \ {t} : ~HoldsRow(o, t.user)
         /\ misread => misread'
         /\ UsedBy' \subseteq UsedBy \cup {t.user} /\ ReservedFor' \subseteq ReservedFor \cup {t.user}
         /\ Leaders \ {t.user} \subseteq Leaders'
         /\ misread' \/ /\ ~t.loses => Leaders \subseteq Leaders'
                        /\ ~t.seat => UsedBy' \subseteq UsedBy /\ ReservedFor' \subseteq ReservedFor
                        /\ t.kind \in {"invite", "resend"} => UsedBy' \subseteq UsedBy
                        /\ t.kind \notin {"invite", "resend"} => ReservedFor' \subseteq ReservedFor
                        /\ t.kind = "accept" => ReservedFor' \subseteq ReservedFor \ {t.user}
<1> DEFINE u == t.user
           to == MemberAfter(t, member[u])
           mail == InviteAfter(t)
<1>1. /\ t.pc = "open" /\ requests' = Outdated(requests \ {t}) /\ UNCHANGED seatLimit
      /\ \A o \in requests \ {t} : ~HoldsRow(o, u)
  BY DEF CommitRequest
<1>2. u \in People BY ReqOf
<1>3. CASE UNCHANGED <<member, invite, provisioned, misread>> /\ IndexRefuses(t)
  <2>1. /\ Leaders' = Leaders /\ UsedBy' = UsedBy /\ ReservedFor' = ReservedFor
    BY <1>3 DEF Leaders, UsedBy, ReservedFor, Serving
  <2>2. t.kind = "invite" BY <1>3 DEF IndexRefuses
  <2> QED BY <1>1, <1>3, <2>1, <2>2 DEF MemIInv, MemTyped
<1>4. CASE /\ member' = [member EXCEPT ![u] = to]
           /\ invite' = [invite EXCEPT ![u] = mail]
           /\ provisioned' = IF t.kind = "link" /\ t.seat THEN provisioned \cup {u} ELSE provisioned
           /\ misread' = (misread \/ (t.kind = "edit" /\ t.stale))
  <2>1. to \in MemberRows BY <1>1, RowAfter
  <2>2. /\ mail \in {"none", "pending", "expired"}
        /\ t.kind \notin {"invite", "resend"} /\ mail = "pending" => u \in ReservedFor
        /\ t.kind = "accept" => mail = "none"
    BY InviteKept
  <2>3. \/ misread'
        \/ /\ ~t.loses /\ u \in Leaders => to.status = "active" /\ to.role = "leader"
           /\ ~t.seat /\ to.status = "active" /\ to.role = "sdr" => u \in UsedBy
           /\ t.kind \in {"invite", "resend"} => to = member[u]
    BY <1>1, <1>4, RowAfter
  <2> HIDE DEF to, mail
  <2>4. /\ member' \in [People -> MemberRows] /\ member'[u] = to
        /\ \A w \in People : w # u => member'[w] = member[w]
        /\ invite' \in [People -> {"none", "pending", "expired"}] /\ invite'[u] = mail
        /\ \A w \in People : w # u => invite'[w] = invite[w]
    BY <1>2, <1>4, <2>1, <2>2 DEF MemIInv, MemTyped
  <2>5. provisioned' \subseteq People /\ misread' \in BOOLEAN BY <1>2, <1>4 DEF MemIInv, MemTyped
  <2>6. MemTyped' BY <1>1, <2>4, <2>5 DEF MemIInv, MemTyped
  <2>7. /\ UsedBy' \subseteq UsedBy \cup {u} /\ ReservedFor' \subseteq ReservedFor \cup {u}
        /\ Leaders \ {u} \subseteq Leaders'
        /\ u \in Leaders' <=> to.status = "active" /\ to.role = "leader"
        /\ u \in UsedBy' <=> to.status = "active" /\ to.role = "sdr"
        /\ u \in ReservedFor' <=> mail = "pending"
        /\ u \in UsedBy <=> member[u].status = "active" /\ member[u].role = "sdr"
    BY <1>2, <2>4 DEF UsedBy, ReservedFor, Leaders, Serving
  <2>8. \/ misread'
        \/ /\ ~t.loses => Leaders \subseteq Leaders'
           /\ ~t.seat => UsedBy' \subseteq UsedBy
           /\ t.kind \in {"invite", "resend"} => UsedBy' \subseteq UsedBy
    BY <2>3, <2>7
  <2>9. /\ t.kind \notin {"invite", "resend"} => ReservedFor' \subseteq ReservedFor
        /\ t.kind = "accept" => ReservedFor' \subseteq ReservedFor \ {u}
        /\ ~t.seat => t.kind \notin {"invite", "resend"}
    <3>1. ~t.seat => t.kind \notin {"invite", "resend"} BY DEF MemIInv, KindsFit
    <3> QED BY <2>2, <2>7, <3>1
  <2> QED BY <1>1, <1>4, <2>4, <2>6, <2>7, <2>8, <2>9
<1> QED BY <1>3, <1>4 DEF CommitRequest

LEMMA StepCommitReq == ASSUME MemIInv, NEW t \in requests, CommitRequest(t) PROVE MemIInv'
<1> DEFINE rest == requests \ {t}
<1>1. rest \in SUBSET requests /\ requests' = Outdated(rest) /\ t.pc = "open" /\ t.user \in People
  BY CommitCounts, ReqOf
<1>2. /\ MemTyped' /\ \A w \in People : w # t.user => member'[w] = member[w]
      /\ \A o \in rest : ~HoldsRow(o, t.user)
      /\ misread => misread'
      /\ Leaders \ {t.user} \subseteq Leaders'
      /\ misread' \/ /\ ~t.loses => Leaders \subseteq Leaders'
                     /\ ~t.seat => UsedBy' \subseteq UsedBy /\ ReservedFor' \subseteq ReservedFor
  BY CommitCounts
<1>3. ASSUME NEW o \in rest, HoldsTenant(o)
      PROVE  misread' \/ (UsedBy' \subseteq UsedBy /\ ReservedFor' \subseteq ReservedFor)
  <2>1. ~HoldsTenant(t) BY <1>3 DEF MemIInv, LocksHeld2
  <2>2. ~t.seat BY <1>1, <2>1 DEF HoldsTenant
  <2> QED BY <1>2, <2>2
<1>4. ASSUME NEW o \in rest, HoldsLeaders(o) PROVE misread' \/ (TwoLeaders => TwoLeaders')
  <2>1. ~HoldsLeaders(t) BY <1>4 DEF MemIInv, LocksHeld2
  <2> QED BY <1>1, <1>2, <2>1 DEF HoldsLeaders, TwoLeaders
<1>5. LeaderRemains'
  <2>1. CASE t.loses
    <3>1. misread \/ TwoLeaders BY <1>1, <2>1 DEF MemIInv, LeaderLeft, HoldsLeaders
    <3> QED BY <1>2, <3>1 DEF LeaderRemains, TwoLeaders
  <2>2. CASE ~t.loses BY <1>2, <2>2 DEF MemIInv, LeaderRemains
  <2> QED BY <2>1, <2>2
<1> HIDE DEF rest
<1> QED BY <1>1, <1>2, <1>3, <1>4, <1>5, RowChanges

\* The end of a membership that an integration made: an agent's, never a leader's.
LEMMA UnlinkCounts ==
  ASSUME MemIInv, NEW u \in People, UnlinkAgent(u)
  PROVE  /\ MemTyped' /\ \A w \in People : w # u => member'[w] = member[w]
         /\ \A o \in requests : ~HoldsRow(o, u)
         /\ requests' = Outdated(requests) /\ misread' = misread
         /\ Leaders' = Leaders /\ UsedBy' \subseteq UsedBy /\ ReservedFor' = ReservedFor
<1> DEFINE gone == [member[u] EXCEPT !.status = "removed"]
<1>1. /\ \A o \in requests : ~HoldsRow(o, u)
      /\ provisioned' = provisioned \ {u} /\ requests' = Outdated(requests)
      /\ member' = IF u \in UsedBy THEN [member EXCEPT ![u] = gone] ELSE member
      /\ UNCHANGED <<invite, seatLimit, misread>>
  BY DEF UnlinkAgent
<1>2. gone \in MemberRows /\ gone.status = "removed" /\ member[u] \in MemberRows
  BY DEF MemIInv, MemTyped, MemberRows
<1> HIDE DEF gone
<1>3. /\ member' \in [People -> MemberRows] /\ \A w \in People : w # u => member'[w] = member[w]
      /\ u \in UsedBy => member'[u] = gone
      /\ u \notin UsedBy => member' = member
  BY <1>1, <1>2 DEF MemIInv, MemTyped
<1>4. MemTyped' BY <1>1, <1>3 DEF MemIInv, MemTyped
<1>5. ReservedFor' = ReservedFor BY <1>1 DEF ReservedFor
<1>6. Leaders' = Leaders /\ UsedBy' \subseteq UsedBy
  BY <1>2, <1>3 DEF Leaders, UsedBy, Serving
<1> QED BY <1>1, <1>3, <1>4, <1>5, <1>6

LEMMA StepUnlink == ASSUME MemIInv, NEW u \in People, UnlinkAgent(u) PROVE MemIInv'
<1>1. /\ MemTyped' /\ \A w \in People : w # u => member'[w] = member[w]
      /\ \A o \in requests : ~HoldsRow(o, u)
      /\ requests' = Outdated(requests) /\ misread' = misread
      /\ Leaders' = Leaders /\ UsedBy' \subseteq UsedBy /\ ReservedFor' = ReservedFor
  BY UnlinkCounts
<1>2. LeaderRemains' /\ (TwoLeaders => TwoLeaders')
  BY <1>1 DEF MemIInv, LeaderRemains, TwoLeaders
<1>3. requests \in SUBSET requests OBVIOUS
<1> QED BY <1>1, <1>2, <1>3, RowChanges

\* Invitations that are revoked or expire, and a new limit, only make room.
LEMMA StepRoom ==
  ASSUME MemIInv,
         \/ \E u \in People : RevokeInvite(u) \/ InviteExpires(u)
         \/ \E n \in SeatLimits : LimitChanges(n)
  PROVE  /\ MemIInv' /\ requests' = requests /\ UsedBy' = UsedBy /\ ReservedFor' \subseteq ReservedFor
<1>1. /\ MemTyped' /\ UNCHANGED <<member, requests, misread>> /\ ReservedFor' \subseteq ReservedFor
  BY DEF MemIInv, MemTyped, RevokeInvite, InviteExpires, LimitChanges, ReservedFor
<1>2. Leaders' = Leaders /\ UsedBy' = UsedBy BY <1>1 DEF Leaders, UsedBy, Serving
<1>3. RoomLeft'
  <2> SUFFICES ASSUME NEW t \in requests, t.limit # NoLimit, ~misread
               PROVE  HoldsTenant(t) /\ SeatsBut(OwnInvite(t))' < t.limit
    BY <1>1 DEF RoomLeft, HoldsTenant, OwnInvite, MemIInv
  <2> DEFINE own == OwnInvite(t)
  <2>1. HoldsTenant(t) /\ SeatsBut(own) < t.limit BY DEF MemIInv, RoomLeft
  <2>2. t.limit \in Nat BY ReqOf, MembersConstants
  <2>3. Cardinality(UsedBy) \in Nat BY Groups, PeopleCount
  <2>4. /\ Cardinality(ReservedFor' \ own) \in Nat
        /\ Cardinality(ReservedFor' \ own) <= Cardinality(ReservedFor \ own)
        /\ Cardinality(ReservedFor \ own) \in Nat
    <3>1. ReservedFor \ own \in SUBSET People /\ ReservedFor' \ own \subseteq ReservedFor \ own
      BY <1>1, Groups
    <3> QED BY <3>1, PeopleCount
  <2>5. SeatsBut(own)' = Cardinality(UsedBy) + Cardinality(ReservedFor' \ own)
    BY <1>2 DEF SeatsBut, OwnInvite
  <2> HIDE DEF own
  <2> QED BY <2>1, <2>2, <2>3, <2>4, <2>5 DEF SeatsBut, own
<1> QED BY <1>1, <1>2, <1>3 DEF MemIInv, ReqsTyped, KindsFit, RowsFound, LocksHeld2, LeaderLeft,
             TwoLeaders, LeaderRemains, LosesLeader, TakesSeat, Serving, HoldsTenant, HoldsLeaders

SeatsKept == /\ SeatsTaken \in Nat /\ SeatsTaken' \in Nat
             /\ SeatsTaken' <= SeatsTaken

LEMMA FewerSeats ==
  ASSUME UsedBy' \subseteq UsedBy, ReservedFor' \subseteq ReservedFor
  PROVE  SeatsKept
<1>1. /\ Cardinality(UsedBy) \in Nat /\ Cardinality(UsedBy') \in Nat
      /\ Cardinality(UsedBy') <= Cardinality(UsedBy)
  BY Groups, PeopleCount
<1>2. /\ Cardinality(ReservedFor) \in Nat /\ Cardinality(ReservedFor') \in Nat
      /\ Cardinality(ReservedFor') <= Cardinality(ReservedFor)
  BY Groups, PeopleCount
<1>3. SeatsTaken' = Cardinality(UsedBy') + Cardinality(ReservedFor') BY DEF SeatsTaken
<1> QED BY <1>1, <1>2, <1>3 DEF SeatsKept, SeatsTaken

\* A commit takes one seat at most beyond those its transaction counted.
LEMMA OneSeatMore ==
  ASSUME MemIInv, NEW t \in requests, CommitRequest(t), ~misread', t.limit # NoLimit
  PROVE  SeatsTaken' <= t.limit
<1> DEFINE u == t.user
           own == OwnInvite(t)
<1>1. /\ UsedBy' \subseteq UsedBy \cup {u} /\ ReservedFor' \subseteq ReservedFor \cup {u}
      /\ t.kind \in {"invite", "resend"} => UsedBy' \subseteq UsedBy
      /\ t.kind \notin {"invite", "resend"} => ReservedFor' \subseteq ReservedFor
      /\ t.kind = "accept" => ReservedFor' \subseteq ReservedFor \ {u}
      /\ ~misread
  BY CommitCounts
<1>2. SeatsBut(own) < t.limit /\ t.limit \in Nat BY <1>1, ReqOf, MembersConstants DEF MemIInv, RoomLeft
<1>3. \/ UsedBy' \subseteq UsedBy /\ ReservedFor' \subseteq (ReservedFor \ own) \cup {u}
      \/ UsedBy' \subseteq UsedBy \cup {u} /\ ReservedFor' \subseteq ReservedFor \ own
  BY <1>1 DEF OwnInvite
<1>4. UsedBy \in SUBSET People /\ ReservedFor \ own \in SUBSET People BY Groups
<1> HIDE DEF own
<1>5. /\ Cardinality(UsedBy) \in Nat /\ Cardinality(ReservedFor \ own) \in Nat BY <1>4, PeopleCount
<1>6. SeatsTaken' = Cardinality(UsedBy') + Cardinality(ReservedFor') BY DEF SeatsTaken
<1>7. CASE UsedBy' \subseteq UsedBy /\ ReservedFor' \subseteq (ReservedFor \ own) \cup {u}
  <2>1. Cardinality(UsedBy') \in Nat /\ Cardinality(UsedBy') <= Cardinality(UsedBy)
    BY <1>4, <1>7, PeopleCount
  <2>2. /\ Cardinality(ReservedFor') \in Nat
        /\ Cardinality(ReservedFor') <= Cardinality(ReservedFor \ own) + 1
    BY <1>4, <1>7, PeopleCount
  <2> QED BY <1>2, <1>5, <1>6, <2>1, <2>2 DEF SeatsBut
<1>8. CASE UsedBy' \subseteq UsedBy \cup {u} /\ ReservedFor' \subseteq ReservedFor \ own
  <2>1. Cardinality(UsedBy') \in Nat /\ Cardinality(UsedBy') <= Cardinality(UsedBy) + 1
    BY <1>4, <1>8, PeopleCount
  <2>2. /\ Cardinality(ReservedFor') \in Nat
        /\ Cardinality(ReservedFor') <= Cardinality(ReservedFor \ own)
    BY <1>4, <1>8, PeopleCount
  <2> QED BY <1>2, <1>5, <1>6, <2>1, <2>2 DEF SeatsBut
<1> QED BY <1>3, <1>7, <1>8

LEMMA CommitSeats ==
  ASSUME MemIInv, NEW s \in requests, CommitRequest(s), ~misread',
         NEW t \in requests, t.limit # NoLimit
  PROVE  SeatsKept \/ SeatsTaken' <= t.limit
<1>1. CASE s = t BY <1>1, OneSeatMore
<1>2. CASE s # t
  <2>1. HoldsTenant(t) BY DEF MemIInv, RoomLeft
  <2>2. ~HoldsTenant(s) BY <1>2, <2>1 DEF MemIInv, LocksHeld2
  <2>3. s.pc = "open" BY CommitCounts
  <2>4. ~s.seat BY <2>2, <2>3 DEF HoldsTenant
  <2>5. UsedBy' \subseteq UsedBy /\ ReservedFor' \subseteq ReservedFor BY <2>4, CommitCounts
  <2> QED BY <2>5, FewerSeats
<1> QED BY <1>1, <1>2

LEMMA InitMembers == MembersInit => MemIInv
<1> SUFFICES ASSUME MembersInit PROVE MemIInv OBVIOUS
<1> DEFINE first(u) == [Nobody EXCEPT !.status = IF u = Founder THEN "active" ELSE @]
<1>1. \A u \in People : /\ first(u) \in MemberRows /\ first(u).role = "leader"
                        /\ u = Founder => first(u).status = "active"
  BY DEF Nobody, MemberRows, Roles
<1> HIDE DEF first
<1>2. member = [u \in People |-> first(u)] BY DEF MembersInit, first
<1>3. MemTyped
  <2>1. member \in [People -> MemberRows] BY <1>1, <1>2
  <2>2. /\ invite \in [People -> {"none", "pending", "expired"}]
        /\ provisioned \subseteq People /\ seatLimit \in SeatLimits /\ misread \in BOOLEAN
    BY DEF MembersInit
  <2> QED BY <2>1, <2>2 DEF MemTyped
<1>4. Founder \in Leaders BY <1>1, <1>2, MembersConstants DEF Leaders, Serving
<1> QED BY <1>3, <1>4 DEF MembersInit, MemIInv, ReqsTyped, KindsFit, RowsFound, LocksHeld2, RoomLeft,
            LeaderLeft, LeaderRemains

\* The steps that take no seat, told from a commit.
LEMMA StepMembers ==
  ASSUME MemIInv, [MembersNext]_memberVars
  PROVE  /\ MemIInv'
         /\ SeatsKept \/ \E s \in requests : CommitRequest(s)
<1> DEFINE same == UsedBy' = UsedBy /\ ReservedFor' = ReservedFor
<1>0. UNCHANGED <<member, invite>> => SeatsKept
  <2> SUFFICES ASSUME UNCHANGED <<member, invite>> PROVE SeatsKept OBVIOUS
  <2>1. UsedBy' = UsedBy /\ ReservedFor' = ReservedFor BY DEF UsedBy, ReservedFor, Serving
  <2> QED BY <2>1, FewerSeats
<1>1. CASE UNCHANGED memberVars
  <2>1. UNCHANGED <<member, invite, provisioned, seatLimit, misread, requests>> BY <1>1 DEF memberVars
  <2>2. requests' \subseteq ReqRows /\ requests' \ requests = {} BY <2>1 DEF MemIInv, ReqsTyped
  <2> QED BY <1>0, <2>1, <2>2, NewRequest
<1>2. ASSUME NEW kind \in {"edit", "invite", "resend"}, NEW u \in People,
             NEW to \in Roles \cup {"active", "blocked", "removed"}, kind # "edit" => to \in Roles,
             Asked(kind, u, to)
      PROVE  MemIInv' /\ SeatsKept
  <2>1. UNCHANGED <<member, invite>> BY <1>2 DEF Asked
  <2> QED BY <1>0, <1>2, <2>1, StepAsked
<1>3. ASSUME NEW u \in People, NEW to \in Roles \cup {"active", "blocked", "removed"}, AskEdit(u, to)
      PROVE  MemIInv' /\ SeatsKept
  BY <1>2, <1>3 DEF AskEdit
<1>4. ASSUME NEW u \in People, AskInvite(u) \/ AskResend(u) PROVE MemIInv' /\ SeatsKept
  BY <1>2, <1>4 DEF AskInvite, AskResend, Roles
<1>5. ASSUME NEW kind \in {"create", "accept", "link"}, NEW u \in People, NEW to \in Roles,
             NEW passes \in BOOLEAN, OpenAtOnce(kind, u, to, passes),
             kind \in {"accept", "link"} => to = "sdr",
             kind \in {"create", "accept"} => member[u].status \in {"none", "removed"}
      PROVE  MemIInv' /\ SeatsKept
  <2>1. UNCHANGED <<member, invite>> BY <1>5 DEF OpenAtOnce
  <2>2. MemIInv' BY <1>5, StepOpenAtOnce
  <2> QED BY <1>0, <2>1, <2>2
<1>6. ASSUME NEW u \in People, NEW passes \in BOOLEAN, NEW role \in Roles, CreateMember(u, role, passes)
      PROVE  MemIInv' /\ SeatsKept
  BY <1>5, <1>6 DEF CreateMember
<1>7. ASSUME NEW u \in People, NEW passes \in BOOLEAN, AcceptInvite(u, passes) \/ LinkAgent(u)
      PROVE  MemIInv' /\ SeatsKept
  <2>1. CASE AcceptInvite(u, passes) BY <1>5, <2>1 DEF AcceptInvite, Roles
  <2>2. CASE LinkAgent(u)
    <3>1. OpenAtOnce("link", u, "sdr", FALSE) BY <2>2 DEF LinkAgent
    <3> QED BY <1>5, <3>1 DEF Roles
  <2> QED BY <1>7, <2>1, <2>2
<1>8. ASSUME \/ \E u \in People : RevokeInvite(u) \/ InviteExpires(u)
             \/ \E n \in SeatLimits : LimitChanges(n)
      PROVE  MemIInv' /\ SeatsKept
  BY <1>8, StepRoom, FewerSeats
<1>9. ASSUME NEW u \in People, UnlinkAgent(u) PROVE MemIInv' /\ SeatsKept
  <2>1. UsedBy' \subseteq UsedBy /\ ReservedFor' = ReservedFor BY <1>9, UnlinkCounts
  <2> QED BY <1>9, <2>1, StepUnlink, FewerSeats
<1>10. ASSUME NEW t \in requests, NEW passes \in BOOLEAN, OpenRequest(t, passes)
       PROVE  MemIInv' /\ SeatsKept
  <2>1. UNCHANGED <<member, invite>> BY <1>10 DEF OpenRequest
  <2> QED BY <1>0, <1>10, <2>1, StepOpen
<1>11. ASSUME NEW t \in requests, CommitRequest(t) PROVE MemIInv' BY <1>11, StepCommitReq
<1> QED BY <1>1, <1>3, <1>4, <1>6, <1>7, <1>8, <1>9, <1>10, <1>11 DEF MembersNext

\* The members of a tenant keep their rows and locks right, and a leader is among them: removals,
\* demotions, promotions and unlinked agents, in any order, leave one as long as no request acts on
\* a row that changed since it was read (setStatus, setRole, unlink), for any number of people,
\* requests under way and limits.
THEOREM LeaderAlways == MembersSpec => []MembersInv
<1>1. MembersInit => MemIInv BY InitMembers
<1>2. MemIInv /\ [MembersNext]_memberVars => MemIInv' BY StepMembers
<1> QED BY <1>1, <1>2, MemIsInv, PTL DEF MembersSpec

\* A commit that takes a seat, or reserves one, stays within the limit its transaction counted
\* against, whatever other invites, acceptances, resends and promotions commit in between.
THEOREM SeatsSold == MembersSpec => SeatsWithinLimit
<1>1. MembersInit => MemIInv BY InitMembers
<1>2. MemIInv /\ [MembersNext]_memberVars => MemIInv' BY StepMembers
<1>3. MemIInv /\ [MembersNext]_memberVars =>
        [misread' \/ \A t \in requests \ requests' :
           t.pc = "open" /\ t.limit # NoLimit /\ SeatsTaken' > SeatsTaken
           => SeatsTaken' <= t.limit]_memberVars
  <2> SUFFICES ASSUME MemIInv, [MembersNext]_memberVars, ~misread', NEW t \in requests,
                      t.limit # NoLimit, SeatsTaken' > SeatsTaken
               PROVE  SeatsTaken' <= t.limit
    OBVIOUS
  <2>1. ~SeatsKept BY DEF SeatsKept
  <2>2. PICK s \in requests : CommitRequest(s) BY <2>1, StepMembers
  <2> QED BY <2>1, <2>2, CommitSeats
<1> QED BY <1>1, <1>2, <1>3, PTL DEF MembersSpec, SeatsWithinLimit
=============================================================================
