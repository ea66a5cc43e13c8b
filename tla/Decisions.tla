------------------------------- MODULE Decisions -------------------------------
(***************************************************************************)
(* The rules that decide who is called, as functions of what was read:     *)
(* evaluateLeadEligibility() against the queries that select leads and     *)
(* lines, and the order in which the decision engine puts the candidates.  *)
(* The inputs are enumerated: a state holds one question or none.          *)
(***************************************************************************)
EXTENDS Integers, Sequences, FiniteSets

CONSTANTS
    Unasked,        \* no question is put
    Drives,         \* the campaigns of the candidates
    NoDrive,        \* the candidate has none
    Longest         \* bound: the candidates of a tick

ASSUME DecisionConstants == NoDrive \notin Drives /\ Longest \in Nat

VARIABLE question

decisionVars == <<question>>

-----------------------------------------------------------------------------
(* A lead as it is read, who asks, and the callback of the lead, if any;   *)
(* for a lead the mode "preview" is like "automatic".                      *)
Owners == {"nobody", "me", "another"}
OpenCallbacks == [status : {"pending", "due", "reassigned"}, owner : Owners, past : BOOLEAN]
NoCallback == [status |-> "none", owner |-> "nobody", past |-> FALSE]

LeadQuestions ==
    [about : {"lead"}, mode : {"automatic", "manual"},
     status : {"queued", "retry_wait", "other"}, budget : BOOLEAN, due : BOOLEAN,
     folder : BOOLEAN, refused : BOOLEAN, active : BOOLEAN, gate : BOOLEAN,
     override : BOOLEAN, callback : OpenCallbacks \union {NoCallback}]

(* Wrong on purpose: whoever asks may make the call of a callback.         *)
CallbackBlocksNot(x) == x.callback.owner # "nobody" /\ x.mode # "manual"

(* A callback of somebody waits for its owner, who calls by hand and in    *)
(* time; one of nobody keeps everybody away.                               *)
CallbackBlocks(x) ==
    LET cb == x.callback IN
    /\ cb # NoCallback
    /\ ~(/\ cb.owner = "me" /\ x.mode = "manual"
         /\ cb.status \in {"due", "reassigned"} /\ cb.past)

(* Only a manual call may override the queue.                              *)
QueueBlocks(x) ==
    /\ ~(x.mode = "manual" /\ x.override)
    /\ \/ ~x.folder \/ x.status = "other" \/ ~x.budget \/ ~x.due

(* evaluateLeadEligibility(), as far as the lead goes: gate stands for the *)
(* campaign, the schedule and the SDR.                                     *)
LeadEligible(x) ==
    x.gate /\ ~x.refused /\ ~x.active /\ ~CallbackBlocks(x) /\ ~QueueBlocks(x)

(* The query of a tick, of the preview and of the size of the queue.       *)
Selected(x) ==
    /\ x.folder /\ ~x.refused /\ ~x.active
    /\ x.status \in {"queued", "retry_wait"} /\ x.budget /\ x.due
    /\ x.callback = NoCallback

(* The evaluations before a reservation leave the callback out.            *)
LeftOut(x) == [x EXCEPT !.callback = NoCallback]

(* What a tick selects it may call, and it selects what it may call.       *)
QueryAgrees(x) ==
    x.mode = "automatic" /\ x.gate =>
        /\ Selected(x) => LeadEligible(LeftOut(x))
        /\ LeadEligible(x) <=> Selected(x)

(* A person calls by hand whom the queue would not: everybody but who      *)
(* refused, who is in a call, and whose callback is not theirs and due.    *)
PersonMayCall(x) ==
    /\ ~x.refused /\ ~x.active
    /\ x.callback = NoCallback
       \/ /\ x.callback.owner = "me" /\ x.callback.past
          /\ x.callback.status \in {"due", "reassigned"}

HandAgrees(x) ==
    x.mode = "manual" /\ x.override /\ x.gate => (LeadEligible(x) <=> PersonMayCall(x))

-----------------------------------------------------------------------------
(* A line: before is last_call_ended_at <= now(), cooled also counts the   *)
(* cooldown from it.                                                       *)
LineQuestions ==
    {x \in [about : {"line"}, mode : {"automatic", "manual", "preview"}, connected : BOOLEAN,
            flagged : BOOLEAN, before : BOOLEAN, cooled : BOOLEAN, own : BOOLEAN] :
        x.cooled => x.before}

LineEligible(x) ==
    /\ x.connected /\ ~x.flagged /\ x.before /\ ~x.own
    /\ x.mode = "automatic" => x.cooled

(* The query of a tick, and that of a manual call with lineIsProtected():  *)
(* both leave the line out that the lead's own number is.                  *)
LineQuery(x) ==
    /\ x.connected /\ ~x.flagged /\ ~x.own
    /\ IF x.mode = "automatic" THEN x.cooled ELSE x.before

LineAgrees(x) == LineEligible(x) <=> LineQuery(x)

-----------------------------------------------------------------------------
(* scoreLead() with the first policy; hours is the age of the lead.        *)
ScoreQuestions ==
    [about : {"score"}, priority : {-100, -3, 0, 100}, attempts : 0..3, inbound : BOOLEAN,
     callbackDue : BOOLEAN, hours : 0..30]

RoundDiv(n, d) == (2 * n + d) \div (2 * d)              \* Math.round(n / d), n >= 0
Least(a, b) == IF a < b THEN a ELSE b
Greatest(a, b) == IF a > b THEN a ELSE b

AgeEffect(h) == RoundDiv(120 * Greatest(0, 72 - h), 72)
FairnessEffect(h) == RoundDiv(100 * Least(h, 12), 12)   \* fairnessBoost: hours / 12

Score(x) ==
    LET all == 500 + 4 * x.priority + AgeEffect(x.hours) + FairnessEffect(x.hours)
               + (IF x.callbackDue THEN 300 ELSE 0)
               + (IF x.inbound /\ x.hours <= 24 THEN 180 ELSE 0)
               - Least(500, 50 * x.attempts) IN
    Greatest(0, Least(1000, all))

(* For twelve hours a lead that waits loses nothing by it, though the      *)
(* score favours new leads: what fairness adds is more than what age takes. *)
WaitingRaises(x) ==
    /\ Score(x) \in 0..1000
    /\ x.hours < 12 => Score([x EXCEPT !.hours = @ + 1]) >= Score(x)

-----------------------------------------------------------------------------
(* prioritizeCandidates(): the candidates in the order of the queue, with  *)
(* their campaign, score and age, and the campaigns whose mode is active   *)
(* and whose policy could be read.                                         *)
OrderQuestions ==
    [about : {"order"}, on : SUBSET Drives,
     candidates : UNION {[1..n -> [drive : Drives \union {NoDrive}, score : {1, 2},
                                   starved : BOOLEAN]] : n \in 1..Longest}]

(* compareScoredLeads(): who has waited a day goes first, then the score;  *)
(* what separates the rest is taken to be the order of the queue.          *)
Before(c, i, j) ==
    \/ c[i].starved /\ ~c[j].starved
    \/ c[i].starved = c[j].starved /\ c[i].score > c[j].score
    \/ c[i].starved = c[j].starved /\ c[i].score = c[j].score /\ i < j

Slots(c, d) == {i \in DOMAIN c : c[i].drive = d}

ByEngine(c, places) ==
    CHOOSE s \in [1..Cardinality(places) -> places] :
        \A i, j \in DOMAIN s : i < j => Before(c, s[i], s[j])

Sorted(c, d) == ByEngine(c, Slots(c, d))

(* Wrong on purpose: the campaigns that are off are sorted with the rest.  *)
RankedAll(x) ==
    LET c == x.candidates IN
    [i \in DOMAIN c |-> ByEngine(c, DOMAIN c)[i]]

(* The k-th slot of an active campaign goes to its k-th lead in the order  *)
(* of the engine.  Ranked(x)[i] is the place in the queue of the i-th.     *)
Ranked(x) ==
    LET c == x.candidates IN
    [i \in DOMAIN c |->
        IF c[i].drive \in x.on
        THEN Sorted(c, c[i].drive)[Cardinality({j \in Slots(c, c[i].drive) : j <= i})]
        ELSE i]

(* Nobody is lost or doubled, every campaign keeps its slots, campaigns    *)
(* that are off and leads without one keep theirs, and nobody overtakes a  *)
(* lead of the same campaign that has waited a day.                        *)
OrderFair(x) ==
    LET c == x.candidates
        r == Ranked(x) IN
    /\ {r[i] : i \in DOMAIN c} = DOMAIN c
    /\ \A i \in DOMAIN c : c[r[i]].drive = c[i].drive /\ (c[i].drive \notin x.on => r[i] = i)
    /\ \A i, j \in DOMAIN c :
          i < j /\ c[i].drive \in x.on /\ c[j].drive = c[i].drive =>
              (c[r[j]].starved => c[r[i]].starved)

-----------------------------------------------------------------------------
DecisionInit == question = Unasked

Ask(questions) == question = Unasked /\ \E x \in questions : question' = x
Answers == question # Unasked /\ question' = Unasked

DecisionNext ==
    \/ Ask(LeadQuestions) \/ Ask(LineQuestions) \/ Ask(ScoreQuestions) \/ Ask(OrderQuestions)
    \/ Answers

DecisionSpec == DecisionInit /\ [][DecisionNext]_decisionVars

DecisionsInv ==
    question # Unasked =>
        /\ question.about = "lead" => QueryAgrees(question) /\ HandAgrees(question)
        /\ question.about = "line" => LineAgrees(question)
        /\ question.about = "score" => WaitingRaises(question)
        /\ question.about = "order" => OrderFair(question)
=============================================================================
