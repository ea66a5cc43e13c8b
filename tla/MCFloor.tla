------------------------------- MODULE MCFloor -------------------------------
(* What surrounds the calls of a floor, one scene each: the scene is chosen *)
(* at the start, its component runs and the variables of the others keep    *)
(* their first values.  The scene of the lines is module LineGuard, in      *)
(* units of one minute: Floor and Ceiling are the 180 s and the 600 s of    *)
(* the code.                                                                *)
EXTENDS LineGuard, AudioBridge, Playout, Stations, AfterCall,
    LineSessions, WaxumRequests, DialQueue, Decisions, TLC

CONSTANT Scenes

VARIABLE scene

others(s) ==
    /\ s # "lines" => UNCHANGED vars
    /\ s # "audio" => UNCHANGED audioVars
    /\ s # "playout" => UNCHANGED playVars
    /\ s # "stations" => UNCHANGED stationVars
    /\ s # "after" => UNCHANGED afterVars
    /\ s # "sessions" => UNCHANGED sessionVars
    /\ s # "requests" => UNCHANGED requestVars
    /\ s # "queue" => UNCHANGED queueVars
    /\ s # "decisions" => UNCHANGED decisionVars

floorVars == <<scene, vars, audioVars, playVars, stationVars, afterVars, sessionVars,
               requestVars, queueVars, decisionVars>>

(* In a scene the calls, the sockets and the conversations are alike, and so *)
(* are the processes and the agents: the cfg takes them from the same two    *)
(* sets of model values, which no scene shares with another.                 *)
Alike == {f @@ g : f \in Permutations(AudioCalls), g \in Permutations(Processes)}

FloorInit ==
    /\ scene \in Scenes
    /\ Init /\ AudioInit /\ PlayInit /\ StationInit /\ AfterInit
    /\ SessionInit /\ RequestInit /\ QueueInit /\ DecisionInit
    /\ scene # "lines" => cooldown = 0

FloorNext ==
    /\ UNCHANGED scene
    /\ others(scene)
    /\ \/ scene = "lines" /\ Next
       \/ scene = "audio" /\ AudioNext
       \/ scene = "playout" /\ PlayNext
       \/ scene = "stations" /\ StationNext
       \/ scene = "after" /\ AfterNext
       \/ scene = "sessions" /\ SessionNext
       \/ scene = "requests" /\ RequestNext
       \/ scene = "queue" /\ QueueNext
       \/ scene = "decisions" /\ DecisionNext

FloorSpec == FloorInit /\ [][FloorNext]_floorVars

(* The leads of the queue, and their folders.                              *)
TwoLeads == <<"a1", "b1">>
TwoFolders == <<"A", "B">>
InFolders == [a1 |-> "A", b1 |-> "B"]

(* Whose turn it is: the queue and the rules of the decision.              *)
DialingInv == DialQueueTypeOK /\ QueueKept /\ DecisionsInv

(* The gateway of the lines: its sessions and its requests.                *)
GatewayInv == LineSessionsInv /\ RequestsInv

(* Rounds follow each other, and what is agreed with a lead is kept.       *)
FloorKept == AfterKept /\ RoundsFollow
=============================================================================
