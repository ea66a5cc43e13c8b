------------------------------- MODULE MCCompany -------------------------------
(* The components that keep the records of a company, one scene each: the  *)
(* scene is chosen at the start, its component runs and the variables of   *)
(* the others keep their first values.                                     *)
EXTENDS BillingChanges, Members, Sessions, OneUseLinks, LeadBook, Campaigns, Experiments,
        BrowserTabs, FeatureFlags, TLC

CONSTANTS Scenes, k1, k2

VARIABLE scene

companyVars == <<scene, chgVars, memberVars, sesVars, linkVars, bookVars, campVars, expVars,
                 tabVars, flagVars>>

Included == [small |-> 1, big |-> 2]
Rank == [small |-> 1, big |-> 2]
Locks == k1 :> 4 @@ k2 :> 2

(* Leads, editors and experiments, and crews, dialed leads and requests,   *)
(* are alike.                                                              *)
Alike == Permutations(Editors) \cup Permutations(Crews)

others(s) ==
    /\ s # "changes" => UNCHANGED chgVars
    /\ s # "members" => UNCHANGED memberVars
    /\ s # "sessions" => UNCHANGED sesVars
    /\ s # "links" => UNCHANGED linkVars
    /\ s # "leads" => UNCHANGED bookVars
    /\ s # "campaigns" => UNCHANGED campVars
    /\ s # "experiments" => UNCHANGED expVars
    /\ s # "tabs" => UNCHANGED tabVars
    /\ s # "flags" => UNCHANGED flagVars

Init ==
    /\ scene \in Scenes
    /\ ChangesInit /\ MembersInit /\ SessionsInit /\ LinksInit /\ BookInit /\ CampInit /\ ExpInit
    /\ TabsInit /\ FlagsInit
    /\ scene # "changes" => stripePlan.plan = "small"
    /\ scene # "members" => seatLimit = 0
    /\ scene # "tabs" => cookie = NoAccount

Next ==
    /\ UNCHANGED scene
    /\ others(scene)
    /\ \/ scene = "changes" /\ ChangesNext
       \/ scene = "members" /\ MembersNext
       \/ scene = "sessions" /\ SessionsNext
       \/ scene = "links" /\ LinksNext
       \/ scene = "leads" /\ BookNext
       \/ scene = "campaigns" /\ CampNext
       \/ scene = "experiments" /\ ExpNext
       \/ scene = "tabs" /\ TabsNext
       \/ scene = "flags" /\ FlagsNext

Spec == Init /\ [][Next]_companyVars

(* A wrong reading of a membership is followed no further (Members), and   *)
(* at most one agent is provisioned or one invitation expired at a time.   *)
Bounds ==
    /\ ~misread
    /\ Cardinality(provisioned) + Cardinality({u \in People : invite[u] = "expired"}) <= 1

(* Who may come in and to what: no revoked session, no link that was used, *)
(* a page asks as the user it shows, and the features a company sees are   *)
(* those the gate of the API lets it use.                                  *)
AccessInv == SessionsInv /\ LinksInv /\ TabsInv /\ FlagsInv

(* What is over stays over: a change of the plan that was applied or       *)
(* canceled, a finished campaign with its versions, a stopped experiment.  *)
HistoryKept == ClosedStaysClosed /\ CampaignHistoryKept /\ StoppedForGood
=============================================================================
