------------------------------- MODULE Campaigns -------------------------------
(***************************************************************************)
(* Campaigns of a folder.  People edit, publish and run a campaign by the  *)
(* lock_version they last saw; a running one publishes each edit at once.  *)
(* The dialer looks at the campaigns of a lead when it picks an SDR with a *)
(* line (a crew) for it, and looks again in the transaction that starts    *)
(* the call; the first call ties the lead to its campaign and version.     *)
(***************************************************************************)
EXTENDS Integers, FiniteSets

CONSTANTS
    CampaignIds, Crews, CampLeads,
    Editors,        \* browser sessions that change campaigns
    NoCampaign,
    MaxVersions,    \* bound: versions of a campaign
    LockLimit       \* bound: changes of each campaign

ASSUME CampaignConstants == MaxVersions \in Nat \ {0} /\ NoCampaign \notin CampaignIds

VARIABLES
    campaign,       \* status, lock_version, current_version, the team (draft and associations)
    published,      \* campaign_versions: the team of each version
    seen,           \* what each session shows: one campaign as it was
    tied,           \* leads: campaign_id and campaign_version
    starting,       \* calls on their way, at most one for a lead (Redis lease)
    campGhost       \* accepted changes made on an old view; calls that fit no campaign

campVars == <<campaign, published, seen, tied, starting, campGhost>>

NoTie == [to |-> NoCampaign, version |-> 0]
Teams == SUBSET Crews

CampInit ==
    /\ campaign = [c \in CampaignIds |-> [status |-> "none", lock |-> 0, version |-> 0, team |-> {}]]
    /\ published = [c \in CampaignIds |-> [v \in {} |-> {}]]
    /\ seen = [e \in Editors |-> [id |-> NoCampaign]]
    /\ tied = [l \in CampLeads |-> NoTie] /\ starting = {}
    /\ campGhost = [blind |-> {}, stray |-> {}]

-----------------------------------------------------------------------------
Shown(c) == [id |-> c, as |-> campaign[c]]

Look(e, c) ==
    /\ campaign[c].status # "none"
    /\ seen[e] # Shown(c) /\ seen' = [seen EXCEPT ![e] = Shown(c)]
    /\ UNCHANGED <<campaign, published, tied, starting, campGhost>>

(* assertLock(), under the row lock of the campaign.                       *)
SameLock(e, c) ==
    /\ seen[e].id = c /\ campaign[c].lock = seen[e].as.lock
    /\ campaign[c].lock < LockLimit[c]

(* The change is accepted: remember whether it was made on an old view,    *)
(* and which calls on their way it touches.                                *)
Changed(e, c, to) ==
    /\ campaign' = [campaign EXCEPT ![c] = to]
    /\ campGhost' = IF seen[e] = Shown(c) THEN campGhost ELSE [campGhost EXCEPT !.blind = @ \cup {c}]
    /\ starting' = {[s EXCEPT !.touched = @ \/ s.to = c] : s \in starting}
    /\ UNCHANGED <<seen, tied>>

(* create(), duplicate(), instantiatePlaybook(): a draft.                  *)
CreateCampaign(c, team) ==
    /\ campaign[c].status = "none"
    /\ campaign' = [campaign EXCEPT ![c] = [status |-> "draft", lock |-> 1, version |-> 0, team |-> team]]
    /\ UNCHANGED <<published, seen, tied, starting, campGhost>>

(* Wrong on purpose: an edit while running rewrites the version.           *)
NextVersionSame(c) == IF campaign[c].version = 0 THEN 1 ELSE campaign[c].version

(* Wrong on purpose: a version takes the number of the lock.               *)
NextVersionByLock(c) == campaign[c].lock

(* insertVersion(): the snapshot of the definition.                        *)
NextVersion(c) == campaign[c].version + 1
WithVersion(c, team) ==
    [published EXCEPT ![c] = [v \in DOMAIN @ \cup {NextVersion(c)} |-> IF v = NextVersion(c) THEN team ELSE @[v]]]

(* Wrong on purpose: an edited campaign stays paused or ready.             *)
AfterEditSame(status) == status

AfterEdit(status) == IF status = "running" THEN "running" ELSE "draft"

(* update(): back to a draft, but a running one publishes at once and must *)
(* keep a team.                                                            *)
EditCampaign(e, c, team) ==
    /\ campaign[c].status \in {"draft", "ready", "running", "paused"} /\ SameLock(e, c)
    /\ team # campaign[c].team
    /\ LET runs == campaign[c].status = "running"
           to == [campaign[c] EXCEPT !.team = team, !.lock = @ + 1, !.status = AfterEdit(@)] IN
       /\ runs => team # {} /\ NextVersion(c) <= MaxVersions
       /\ published' = IF runs THEN WithVersion(c, team) ELSE published
       /\ Changed(e, c, [to EXCEPT !.version = IF runs THEN @ + 1 ELSE @])

(* Wrong on purpose: publishing leaves the lock as it was.                 *)
LockAfterPublishSame(lock) == lock

LockAfterPublish(lock) == lock + 1

PublishCampaign(e, c) ==
    /\ campaign[c].status = "draft" /\ SameLock(e, c)
    /\ campaign[c].team # {} /\ NextVersion(c) <= MaxVersions
    /\ published' = WithVersion(c, campaign[c].team)
    /\ Changed(e, c, [campaign[c] EXCEPT !.status = "ready", !.version = NextVersion(c),
                                         !.lock = LockAfterPublish(@)])

(* changeStatus(): start, pause, complete, archive.                        *)
AllowedFrom(to) == CASE to = "running"   -> {"ready", "paused"}
                     [] to = "paused"    -> {"running"}
                     [] to = "completed" -> {"running", "paused"}
                     [] to = "archived"  -> {"draft", "ready", "paused", "completed"}

MoveCampaign(e, c, to) ==
    /\ SameLock(e, c) /\ campaign[c].status \in AllowedFrom(to)
    /\ to = "running" => campaign[c].version > 0
    /\ Changed(e, c, [campaign[c] EXCEPT !.status = to, !.lock = @ + 1])
    /\ UNCHANGED published

-----------------------------------------------------------------------------
RunningCampaigns == {c \in CampaignIds : campaign[c].status = "running"}

(* resolveForLead(): the campaign of a tied lead, or one of the running    *)
(* campaigns of its folder (by a hash of the lead: any of them) that allow *)
(* the crew; none at all when no campaign runs.                            *)
Resolved(l) ==
    IF tied[l].to # NoCampaign THEN {tied[l].to} \cap RunningCampaigns
    ELSE IF RunningCampaigns = {} THEN {NoCampaign} ELSE RunningCampaigns

ResolvedFor(l, crew) == {c \in Resolved(l) : c = NoCampaign \/ crew \in campaign[c].team}

(* The version of a call: the one its lead is tied to, or the current one. *)
VersionOf(l, c) == IF tied[l].to = c THEN tied[l].version ELSE IF c = NoCampaign THEN 0 ELSE campaign[c].version

(* tick(): a campaign, and a crew of its team.                             *)
PickCrew(l, c, crew) ==
    /\ \A s \in starting : s.lead # l
    /\ c \in Resolved(l) /\ crew \in IF c = NoCampaign THEN Crews ELSE campaign[c].team
    /\ starting' = starting \cup {[lead |-> l, to |-> c, crew |-> crew, sure |-> FALSE, touched |-> FALSE]}
    /\ UNCHANGED <<campaign, published, seen, tied, campGhost>>

(* Wrong on purpose: the campaign of the tick is good enough.              *)
LookedAgainNot(s) == {s.to}

LookedAgain(s) == ResolvedFor(s.lead, s.crew)

(* startReservedCall() looks again, in its transaction, under the row lock *)
(* of the lead; the campaign is not locked.                                *)
StartLooks(s) ==
    /\ ~s.sure
    /\ IF LookedAgain(s) = {} THEN starting' = starting \ {s}
       ELSE \E c \in LookedAgain(s) :
                starting' = (starting \ {s}) \cup {[s EXCEPT !.to = c, !.sure = TRUE, !.touched = FALSE]}
    /\ UNCHANGED <<campaign, published, seen, tied, campGhost>>

CrewFits(s) == s.to = NoCampaign \/ (s.to \in RunningCampaigns /\ s.crew \in campaign[s.to].team)

(* A lead without a campaign is tied to that of its first call.            *)
StartCommits(s) ==
    /\ s.sure
    /\ tied' = IF tied[s.lead].to = NoCampaign /\ s.to # NoCampaign
               THEN [tied EXCEPT ![s.lead] = [to |-> s.to, version |-> VersionOf(s.lead, s.to)]] ELSE tied
    /\ starting' = starting \ {s}
    /\ campGhost' = IF CrewFits(s) \/ s.touched THEN campGhost ELSE [campGhost EXCEPT !.stray = @ \cup {s.lead}]
    /\ UNCHANGED <<campaign, published, seen>>

CampNext ==
    \/ \E c \in CampaignIds, team \in Teams : CreateCampaign(c, team)
    \/ \E e \in Editors, c \in CampaignIds :
          \/ Look(e, c) \/ PublishCampaign(e, c)
          \/ \E team \in Teams : EditCampaign(e, c, team)
          \/ \E to \in {"running", "paused", "completed", "archived"} : MoveCampaign(e, c, to)
    \/ \E l \in CampLeads, c \in CampaignIds \cup {NoCampaign}, crew \in Crews : PickCrew(l, c, crew)
    \/ \E s \in starting : StartLooks(s) \/ StartCommits(s)

CampSpec == CampInit /\ [][CampNext]_campVars

-----------------------------------------------------------------------------
CampTypeOK ==
    /\ \A c \in CampaignIds : /\ campaign[c].status \in {"none", "draft", "ready", "running", "paused", "completed", "archived"}
                              /\ campaign[c].version \in 0..MaxVersions /\ DOMAIN published[c] = 1..campaign[c].version
    /\ \A s \in starting, t \in starting : s.lead = t.lead => s = t

(* What runs is what was published: a running campaign has a version, and  *)
(* its team is the team of that version (update, publish, changeStatus).   *)
RunsAsPublished ==
    \A c \in RunningCampaigns : campaign[c].version > 0 /\ published[c][campaign[c].version] = campaign[c].team

(* Nobody changes a campaign he does not see: every accepted change was    *)
(* made by a session that showed all of the campaign as it was.            *)
NoBlindChange == campGhost.blind = {}

(* A call starts with a crew of a campaign that runs, however old the      *)
(* choice of the tick is; a campaign that is changed while the transaction *)
(* is open is the exception.                                               *)
CallFitsCampaign == campGhost.stray = {}

(* A finished campaign may only be archived, an archived one stays, and a  *)
(* published version is never changed.                                     *)
CampaignHistoryKept ==
    [][\A c \in CampaignIds :
        /\ campaign[c].status = "completed" => campaign'[c] = campaign[c] \/ campaign'[c].status = "archived"
        /\ campaign[c].status = "archived" => campaign'[c] = campaign[c]
        /\ \A v \in DOMAIN published[c] : published'[c][v] = published[c][v]]_campVars

(* Campaigns run as published, are changed by who sees them, and get calls *)
(* of their own crews (campaigns.service, startReservedCall).              *)
CampInv == CampTypeOK /\ RunsAsPublished /\ NoBlindChange /\ CallFitsCampaign
=============================================================================
