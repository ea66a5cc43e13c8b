------------------------------- MODULE InviteMail -------------------------------
(***************************************************************************)
(* The mail of one invitation.  Creating or resending it mails the link at *)
(* once; a timer of every process mails what is due, and takes a row that  *)
(* is still being mailed as well.  Whoever ends a mail writes the row by   *)
(* its id, also for a link that was replaced meanwhile.  The link in the   *)
(* row is erased once it is mailed, given up or the invitation is closed.  *)
(***************************************************************************)
EXTENDS Integers, FiniteSets

CONSTANTS
    Mailers,          \* requests and runs of the timer that mail
    MaxLinks,         \* bound: links the invitation ever has
    MaxMailTries,     \* mails before the link is given up (3)
    MaxMailDeaths     \* bound: processes that die with a mail

ASSUME MailConstants == {MaxLinks, MaxMailTries} \subseteq Nat \ {0} /\ MaxMailDeaths \in Nat

VARIABLES
    inviteRow,      \* state, delivery_status, attempts, whether it holds the link, when it is due
    inviteLink,     \* the link that works (token_hash), by number; 0 before it exists
    mailing,        \* of each mailer: the link it mails, 0 for none
    mailGhost       \* links that were mailed; whether one was to be; old links mailed after a resend; deaths left

mailVars == <<inviteRow, inviteLink, mailing, mailGhost>>

MailInit ==
    /\ inviteRow = [state |-> "none", status |-> "queued", tries |-> 0, holds |-> FALSE, due |-> "never"]
    /\ inviteLink = 0 /\ mailing = [m \in Mailers |-> 0]
    /\ mailGhost = [mailed |-> {}, asked |-> FALSE, crossed |-> FALSE, deaths |-> MaxMailDeaths]

FreshRow == [state |-> "open", status |-> "queued", tries |-> 0, holds |-> TRUE, due |-> "now"]

(* create() by mail: the row is due at once, and mailed by the request.    *)
CreateMailed(m) ==
    /\ inviteRow.state = "none" /\ mailing[m] = 0
    /\ inviteRow' = FreshRow /\ inviteLink' = 1
    /\ mailing' = [mailing EXCEPT ![m] = 1]
    /\ mailGhost' = [mailGhost EXCEPT !.asked = TRUE]

(* create() with delivery "link": the link is handed over, never mailed.   *)
CreateLinked ==
    /\ inviteRow.state = "none"
    /\ inviteRow' = [FreshRow EXCEPT !.holds = FALSE] /\ inviteLink' = 1
    /\ UNCHANGED <<mailing, mailGhost>>

(* resend(): a new link, also for an invitation that expired.              *)
ResendMailed(m) ==
    /\ inviteRow.state \in {"open", "expired"} /\ mailing[m] = 0 /\ inviteLink < MaxLinks
    /\ inviteRow' = FreshRow /\ inviteLink' = inviteLink + 1
    /\ mailing' = [mailing EXCEPT ![m] = inviteLink + 1]
    /\ mailGhost' = [mailGhost EXCEPT !.asked = TRUE]

(* accept() and revoke().                                                  *)
CloseInvitation ==
    /\ inviteRow.state = "open"
    /\ inviteRow' = [inviteRow EXCEPT !.state = "closed", !.holds = FALSE, !.due = "never"]
    /\ UNCHANGED <<inviteLink, mailing, mailGhost>>

InvitationExpires ==
    /\ inviteRow.state = "open" /\ inviteRow' = [inviteRow EXCEPT !.state = "expired"]
    /\ UNCHANGED <<inviteLink, mailing, mailGhost>>

(* Wrong on purpose: a claimed row is due only when its mail fails.        *)
ClaimedUntilNever == "never"

ClaimedUntil == "later"

(* processDeliveryQueue(): due in five minutes again, in case it dies.     *)
TakeDueMail(m) ==
    /\ mailing[m] = 0
    /\ inviteRow.state = "open" /\ inviteRow.status = "queued" /\ inviteRow.holds /\ inviteRow.due = "now"
    /\ inviteRow' = [inviteRow EXCEPT !.due = ClaimedUntil]
    /\ mailing' = [mailing EXCEPT ![m] = inviteLink]
    /\ UNCHANGED <<inviteLink, mailGhost>>

Counted(n) == IF n < MaxMailTries THEN n + 1 ELSE n

MailArrives(m) ==
    /\ mailing[m] # 0
    /\ inviteRow' = [inviteRow EXCEPT !.status = "sent", !.tries = Counted(@), !.holds = FALSE, !.due = "never"]
    /\ mailing' = [mailing EXCEPT ![m] = 0]
    /\ mailGhost' = [mailGhost EXCEPT !.mailed = @ \cup {mailing[m]},
                                      !.crossed = @ \/ mailing[m] # inviteLink]
    /\ UNCHANGED inviteLink

MailFails(m) ==
    /\ mailing[m] # 0
    /\ LET over == inviteRow.tries + 1 >= MaxMailTries IN
       inviteRow' = [inviteRow EXCEPT !.tries = Counted(@), !.status = IF over THEN "failed" ELSE "queued",
                                      !.due = IF over THEN "never" ELSE "later", !.holds = @ /\ ~over]
    /\ mailing' = [mailing EXCEPT ![m] = 0]
    /\ UNCHANGED <<inviteLink, mailGhost>>

DueAgain ==
    /\ inviteRow.due = "later" /\ inviteRow' = [inviteRow EXCEPT !.due = "now"]
    /\ UNCHANGED <<inviteLink, mailing, mailGhost>>

MailerDies(m) ==
    /\ mailing[m] # 0 /\ mailGhost.deaths > 0
    /\ mailing' = [mailing EXCEPT ![m] = 0]
    /\ mailGhost' = [mailGhost EXCEPT !.deaths = @ - 1]
    /\ UNCHANGED <<inviteRow, inviteLink>>

MailerStep(m) == TakeDueMail(m) \/ MailArrives(m) \/ MailFails(m)

MailNext ==
    \/ \E m \in Mailers : CreateMailed(m) \/ ResendMailed(m) \/ MailerStep(m) \/ MailerDies(m)
    \/ CreateLinked \/ CloseInvitation \/ InvitationExpires \/ DueAgain

(* The timers keep running, a mail comes to an end, waits run out.         *)
MailFairness == (\A m \in Mailers : WF_mailVars(MailerStep(m))) /\ WF_mailVars(DueAgain)

MailSpec == MailInit /\ [][MailNext]_mailVars /\ MailFairness

-----------------------------------------------------------------------------
MailTypeOK ==
    /\ inviteRow.state \in {"none", "open", "expired", "closed"} /\ inviteRow.tries \in 0..MaxMailTries
    /\ inviteRow.status \in {"queued", "sent", "failed"} /\ inviteRow.due \in {"now", "later", "never"}
    /\ inviteRow.holds => inviteRow.status = "queued" /\ inviteRow.state \in {"open", "expired"}
    /\ inviteLink \in 0..MaxLinks /\ \A m \in Mailers : mailing[m] \in 0..inviteLink

(* A link that was to be mailed is mailed, given up after its tries, or  *)
(* the invitation ends first, also when a process dies with the mail.  The *)
(* exception: the mail of an older link ends after a resend, its success   *)
(* erases the new link (deliver).                                          *)
InviteMailSettles ==
    <>[](inviteRow.state = "open" /\ mailGhost.asked =>
            inviteLink \in mailGhost.mailed \/ inviteRow.status = "failed" \/ mailGhost.crossed)
=============================================================================
