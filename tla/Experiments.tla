------------------------------ MODULE Experiments ------------------------------
(***************************************************************************)
(* Experiments of one campaign.  The dialer assigns a lead before it dials *)
(* it; an assignment, the end of a call and the report evaluate the        *)
(* guardrails and stop the experiment when one trips.  Start, assignment   *)
(* and evaluation read first and write later.                              *)
(***************************************************************************)
EXTENDS Integers, FiniteSets

CONSTANTS
    ExperimentIds, ExpLeads,
    MaxTrips        \* bound: times a guardrail trips

VARIABLES
    experiment,     \* status of each
    inCampaign,     \* leads tied to the campaign of the experiments
    assigned,       \* experiment_assignments: leads of each
    tripped,        \* experiments whose calls exceed a guardrail
    expStarts,      \* starts on their way: looked, checked
    expTasks,       \* assignments and evaluations on their way
    expOverlap      \* whether two starts overlapped

expVars == <<experiment, inCampaign, assigned, tripped, expStarts, expTasks, expOverlap>>

ExpInit ==
    /\ experiment = [x \in ExperimentIds |-> "none"]
    /\ inCampaign = {} /\ assigned = [x \in ExperimentIds |-> {}] /\ tripped = {}
    /\ expStarts = [x \in ExperimentIds |-> "none"] /\ expTasks = {}
    /\ expOverlap = FALSE

Runs(x) == experiment[x] = "running"

-----------------------------------------------------------------------------
CreateExperiment(x) ==
    /\ experiment[x] = "none" /\ experiment' = [experiment EXCEPT ![x] = "draft"]
    /\ UNCHANGED <<inCampaign, assigned, tripped, expStarts, expTasks, expOverlap>>

(* start(): get() and validateStartable() ...                              *)
StartLook(x) ==
    /\ expStarts[x] = "none" /\ experiment[x] \in {"draft", "paused"}
    /\ expStarts' = [expStarts EXCEPT ![x] = "looked"]
    /\ UNCHANGED <<experiment, inCampaign, assigned, tripped, expTasks, expOverlap>>

(* Wrong on purpose: another running experiment is no obstacle.            *)
AloneAlways(x) == TRUE

Alone(x) == \A y \in ExperimentIds \ {x} : ~Runs(y)

(* ... the transaction looks for another running one ...                   *)
StartCheck(x) ==
    /\ expStarts[x] = "looked"
    /\ expStarts' = [expStarts EXCEPT ![x] = IF Alone(x) THEN "checked" ELSE "none"]
    /\ UNCHANGED <<experiment, inCampaign, assigned, tripped, expTasks, expOverlap>>

(* Wrong on purpose: the status is not looked at again.                    *)
StillStartableAlways(x) == TRUE

StillStartable(x) == experiment[x] \in {"draft", "paused"}

(* ... and updates the row it still finds startable; no index and no lock  *)
(* keeps two of them apart.                                                *)
StartCommit(x) ==
    /\ expStarts[x] = "checked"
    /\ experiment' = IF StillStartable(x) THEN [experiment EXCEPT ![x] = "running"] ELSE experiment
    /\ expStarts' = [expStarts EXCEPT ![x] = "none"]
    /\ expOverlap' = (expOverlap \/ \E y \in ExperimentIds \ {x} : expStarts[y] = "checked")
    /\ UNCHANGED <<inCampaign, assigned, tripped, expTasks>>

(* transition(): pause() and stop().                                       *)
HaltExperiment(x, to) ==
    /\ experiment[x] \in {"running", "paused"} /\ to \in {"paused", "stopped"}
    /\ experiment' = [experiment EXCEPT ![x] = to]
    /\ UNCHANGED <<inCampaign, assigned, tripped, expStarts, expTasks, expOverlap>>

-----------------------------------------------------------------------------
TieLead(l) ==
    /\ l \notin inCampaign /\ inCampaign' = inCampaign \cup {l}
    /\ UNCHANGED <<experiment, assigned, tripped, expStarts, expTasks, expOverlap>>

(* The calls of its leads exceed a threshold of a large enough sample.     *)
Trip(x) ==
    /\ Runs(x) /\ assigned[x] # {} /\ x \notin tripped /\ Cardinality(tripped) < MaxTrips
    /\ tripped' = tripped \cup {x}
    /\ UNCHANGED <<experiment, inCampaign, assigned, expStarts, expTasks, expOverlap>>

(* assign() of a lead that has no variant yet, or evaluateForCampaign().   *)
BeginTask(x, who) ==
    /\ Runs(x) /\ \A t \in expTasks : t.who # who
    /\ \A y \in ExperimentIds : who \notin assigned[y]
    /\ expTasks' = expTasks \cup {[exp |-> x, who |-> who, phase |-> "looked", trips |-> FALSE]}
    /\ UNCHANGED <<experiment, inCampaign, assigned, tripped, expStarts, expOverlap>>

Step(t, to) == expTasks' = (expTasks \ {t}) \cup {to}

(* evaluateGuardrails() reads; an experiment that does not run trips none. *)
Evaluate(t) ==
    /\ t.phase = "looked"
    /\ Step(t, [t EXCEPT !.phase = "evaluated", !.trips = Runs(t.exp) /\ t.exp \in tripped])
    /\ UNCHANGED <<experiment, inCampaign, assigned, tripped, expStarts, expOverlap>>

(* A tripped guardrail stops what still runs, and refuses the assignment.  *)
TripWrites(t) ==
    /\ t.phase = "evaluated" /\ t.trips
    /\ experiment' = IF Runs(t.exp) THEN [experiment EXCEPT ![t.exp] = "stopped"] ELSE experiment
    /\ expTasks' = expTasks \ {t}
    /\ UNCHANGED <<inCampaign, assigned, tripped, expStarts, expOverlap>>

Refuses(t) == t.trips \/ t.who \notin inCampaign

(* INSERT ... ON CONFLICT DO NOTHING: the first variant stays.  A lead that*)
(* is not tied to the campaign is refused.                                 *)
AssignWrites(t) ==
    /\ t.phase = "evaluated" /\ t.who \in ExpLeads /\ ~Refuses(t)
    /\ assigned' = [assigned EXCEPT ![t.exp] = @ \cup {t.who}]
    /\ expTasks' = expTasks \ {t}
    /\ UNCHANGED <<experiment, inCampaign, tripped, expStarts, expOverlap>>

TaskOver(t) ==
    /\ t.phase = "evaluated" /\ ~t.trips /\ (t.who \in ExpLeads => Refuses(t))
    /\ expTasks' = expTasks \ {t}
    /\ UNCHANGED <<experiment, inCampaign, assigned, tripped, expStarts, expOverlap>>

ExpNext ==
    \/ \E x \in ExperimentIds :
          \/ CreateExperiment(x) \/ StartLook(x) \/ StartCheck(x) \/ StartCommit(x) \/ Trip(x)
          \/ \E to \in {"paused", "stopped"} : HaltExperiment(x, to)
          \/ \E who \in ExpLeads \cup {"call"} : BeginTask(x, who)
    \/ \E l \in ExpLeads : TieLead(l)
    \/ \E t \in expTasks : Evaluate(t) \/ TripWrites(t) \/ AssignWrites(t) \/ TaskOver(t)

ExpSpec == ExpInit /\ [][ExpNext]_expVars

-----------------------------------------------------------------------------
ExpTypeOK ==
    /\ \A x \in ExperimentIds : /\ experiment[x] \in {"none", "draft", "running", "paused", "stopped"}
                                /\ assigned[x] \subseteq inCampaign
    /\ \A t \in expTasks, u \in expTasks : t.who = u.who => t = u

(* A stopped experiment never runs again, also when somebody starts it     *)
(* who saw it paused while a guardrail stops it.                           *)
StoppedForGood ==
    [][\A x \in ExperimentIds : experiment[x] = "stopped" => experiment'[x] = "stopped"]_expVars

(* "A campanha ja possui um experimento em execucao": two experiments run  *)
(* at once only when their starts overlapped, for nothing locks them.      *)
OneExperimentRuns ==
    (\E x, y \in ExperimentIds : x # y /\ Runs(x) /\ Runs(y)) => expOverlap

(* The rows of the experiments, one of them running (start).               *)
ExpInv == ExpTypeOK /\ OneExperimentRuns
=============================================================================
