----------------------------- MODULE OneUseLinks -----------------------------
(***************************************************************************)
(* Links of one user that work once: tokens that reset the password or     *)
(* verify the e-mail (user_action_tokens) and tickets that open a control  *)
(* socket (websocket_tickets).  Several may be asked for, and one may be   *)
(* brought by several requests, at the same time.                          *)
(***************************************************************************)
EXTENDS Integers, FiniteSets

CONSTANTS
    ActionTokens,   \* bound: ids of tokens of one purpose
    Tickets         \* bound: ids of tickets

ASSUME LinksConstants == ActionTokens \cap Tickets = {}

VARIABLES
    link,           \* the rows
    redeeming,      \* how many transactions have the row of each link
    issuing,        \* links that are being issued, with the tokens they close
    linkGhost       \* ghost: uses of each link, and whether two issues overlapped

linkVars == <<link, redeeming, issuing, linkGhost>>

Links == ActionTokens \cup Tickets
IsAction(l) == l \in ActionTokens

LinksInit ==
    /\ link = [l \in Links |-> "none"] /\ redeeming = [l \in Links |-> 0] /\ issuing = {}
    /\ linkGhost = [uses |-> [l \in Links |-> 0], raced |-> FALSE]

(* Wrong on purpose: an older link stays good beside the new one.          *)
ClosedByNone(l) == {}

(* The open tokens that the issue of an action token closes.                 *)
ClosedBy(l) == IF IsAction(l) THEN {m \in Links : IsAction(m) /\ link[m] = "open"} ELSE {}

(* createActionToken() closes what is open and inserts in one transaction, *)
(* and does not see what another one has not committed;                    *)
(* createWebsocketTicket() only inserts.                                   *)
IssueBegins(l) ==
    /\ link[l] = "none" /\ \A i \in issuing : i.id # l
    /\ \A m \in ClosedBy(l) : redeeming[m] = 0
    /\ issuing' = issuing \cup {[id |-> l, closes |-> ClosedBy(l)]}
    /\ linkGhost' = [linkGhost EXCEPT !.raced = @ \/ (IsAction(l) /\ \E i \in issuing : IsAction(i.id))]
    /\ UNCHANGED <<link, redeeming>>

IssueCommits(i) ==
    /\ i \in issuing /\ issuing' = issuing \ {i}
    /\ link' = [m \in Links |-> IF m = i.id THEN "open"
                                ELSE IF m \in i.closes THEN "used" ELSE link[m]]
    /\ UNCHANGED <<redeeming, linkGhost>>

Closing == UNION {i.closes : i \in issuing}

(* Wrong on purpose: the row is read without FOR UPDATE.                   *)
RowFreeAlways(l) == TRUE

RowFree(l) == redeeming[l] = 0

(* resetPassword(), consumeWebsocketTicket(): the row is locked and looked *)
(* at; verifyEmail() uses its token in the same way.                       *)
RedeemBegins(l) ==
    /\ link[l] = "open" /\ RowFree(l) /\ l \notin Closing /\ redeeming[l] < 2
    /\ redeeming' = [redeeming EXCEPT ![l] = @ + 1]
    /\ UNCHANGED <<link, issuing, linkGhost>>

(* A reset revokes the sessions in the same transaction:                   *)
(* Sessions!RevokeAll({}).                                                 *)
RedeemEnds(l) ==
    /\ redeeming[l] > 0
    /\ redeeming' = [redeeming EXCEPT ![l] = @ - 1]
    /\ link' = [link EXCEPT ![l] = "used"]
    /\ linkGhost' = [linkGhost EXCEPT !.uses[l] = @ + 1]
    /\ UNCHANGED issuing

LinkExpires(l) ==
    /\ link[l] = "open" /\ redeeming[l] = 0 /\ l \notin Closing
    /\ link' = [link EXCEPT ![l] = "used"]
    /\ UNCHANGED <<redeeming, issuing, linkGhost>>

LinksNext ==
    \/ \E l \in Links : IssueBegins(l) \/ RedeemBegins(l) \/ RedeemEnds(l) \/ LinkExpires(l)
    \/ \E i \in issuing : IssueCommits(i)

LinksSpec == LinksInit /\ [][LinksNext]_linkVars

-----------------------------------------------------------------------------
LinksTypeOK ==
    /\ \A l \in Links : link[l] \in {"none", "open", "used"} /\ redeeming[l] \in 0..2
    /\ \A i \in issuing : link[i.id] = "none" /\ i.closes \subseteq ActionTokens

(* A token or a ticket works once, however many requests bring it    *)
(* at the same time (resetPassword, consumeWebsocketTicket).               *)
LinkWorksOnce == \A l \in Links : linkGhost.uses[l] <= 1

(* A user has one open token of a purpose, unless two were asked for at the same  *)
(* moment (createActionToken).                                             *)
OneTokenOpen ==
    ~linkGhost.raced => Cardinality({l \in Links : IsAction(l) /\ link[l] = "open"}) <= 1

(* Tickets and tokens work once, and one token of a purpose is open.       *)
LinksInv == LinksTypeOK /\ LinkWorksOnce /\ OneTokenOpen
=============================================================================
