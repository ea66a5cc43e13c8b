------------------------------- MODULE LeadBook -------------------------------
(***************************************************************************)
(* The leads of one company, the list of the people who must not be called *)
(* and the calls reserved for them.  Leads come from a form, a file, an    *)
(* integration or a call typed by hand; all of them take the lock of the   *)
(* company before they count, and so does the reservation of a call, which *)
(* also locks the row of its lead.  A suppression takes neither lock: it   *)
(* writes the list and then marks the leads that are committed by then.    *)
(* A transaction that reads first and writes later is two actions here;    *)
(* what it reads is what was committed when it read.                       *)
(***************************************************************************)
EXTENDS Integers, FiniteSets

CONSTANTS
    LeadIds,        \* bound: rows of leads
    Phones,         \* telephone numbers
    Anonymous,      \* the phone of a lead that was made anonymous
    LeadLimit       \* leads the plan allows

ASSUME BookConstants ==
    LeadLimit \in Nat /\ Anonymous \notin Phones /\ IsFiniteSet(Phones)

VARIABLES
    book,           \* leads: phone, do_not_call, a call under way, an open callback
    optOuts,        \* contact_suppressions that were not lifted, by phone
    drafts,         \* creations under way: new phones, those on the list, rows they hold
    offers,         \* reservations under way: leads whose row they hold
    fixes,          \* a privacy correction under way: the lead, its phones, what was read
    removals,       \* leads that were looked at and are about to be deleted
    bookGhost       \* ghost: leads whose person refused, phones listed during a creation

bookVars == <<book, optOuts, drafts, offers, fixes, removals, bookGhost>>

NoLead == [phone |-> Anonymous, here |-> FALSE, flag |-> FALSE, call |-> FALSE, callback |-> FALSE]
Rows == {l \in LeadIds : book[l].here}
RowsOf(p) == {l \in Rows : book[l].phone = p}

BookInit ==
    /\ book = [l \in LeadIds |-> NoLead]
    /\ optOuts = {} /\ drafts = {} /\ offers = {} /\ fixes = {} /\ removals = {}
    /\ bookGhost = [refused |-> {}, raced |-> {}]

(* The lock of the company: creations and reservations hold it to the end. *)
(* Wrong on purpose: a creation counts without the lock.                   *)
CompanyLockIgnored == offers = {}

CompanyLockFree == drafts = {} /\ offers = {}

(* Wrong on purpose: the reservation reads its lead without FOR UPDATE.    *)
RowUnlockedAlways(l) == \A d \in drafts : l \notin d.rows

RowUnlocked(l) == l \notin offers /\ \A d \in drafts : l \notin d.rows

Drafted(p) == \E d \in drafts : p \in d.phones
RacedOn(p) == IF Drafted(p) THEN bookGhost.raced \cup {p} ELSE bookGhost.raced \ {p}
FixesCrossed(p) == {[f EXCEPT !.crossed = @ \/ p \in {f.from, f.to}] : f \in fixes}

-----------------------------------------------------------------------------
(* Wrong on purpose: a phone typed by hand is not looked up in the list.   *)
MayTypeAny(p) == TRUE

MayType(p) == p \notin optOuts

(* What a creation holds until it commits: the phones that are new, those  *)
(* it found on the list, the rows that were there and that it locked.      *)
Draft(ps, listed) ==
    [phones |-> {p \in ps : RowsOf(p) = {}}, flagged |-> listed,
     rows |-> UNION {RowsOf(p) : p \in ps}]

Fits(new) == new = {} \/ Cardinality(Rows) + Cardinality(new) <= LeadLimit

(* A form, a file or an integration: the rows that are there are locked,   *)
(* the new ones inserted, and then the list is read for all of them.       *)
SaveLeads(ps) ==
    /\ CompanyLockFree /\ ps # {}
    /\ LET d == Draft(ps, ps \cap optOuts) IN
       /\ Fits(d.phones) /\ \A l \in d.rows : RowUnlocked(l)
       /\ drafts' = drafts \cup {d}
    /\ UNCHANGED <<book, optOuts, offers, fixes, removals, bookGhost>>

(* A call to a phone that is typed by hand makes a lead on the way.        *)
TypedLead(p) ==
    /\ CompanyLockFree /\ RowsOf(p) = {} /\ MayType(p) /\ Fits({p})
    /\ drafts' = drafts \cup {Draft({p}, {})}
    /\ UNCHANGED <<book, optOuts, offers, fixes, removals, bookGhost>>

(* An id is used once: no new row has the id of one that was deleted and   *)
(* that somebody still holds.                                              *)
FreshIds == LeadIds \ (Rows \cup {f.lead : f \in fixes})

(* The unique index on the phone refuses the second of two.                *)
DraftCommits(d) ==
    /\ d \in drafts /\ \A p \in d.phones : RowsOf(p) = {}
    /\ \E row \in [d.phones -> FreshIds] :
           /\ \A p, q \in d.phones : row[p] = row[q] => p = q
           /\ book' = [l \in LeadIds |->
                  IF l \in d.rows THEN [book[l] EXCEPT !.flag = book[l].phone \in d.flagged]
                  ELSE IF \E p \in d.phones : row[p] = l
                  THEN LET p == CHOOSE q \in d.phones : row[q] = l
                       IN [NoLead EXCEPT !.phone = p, !.here = TRUE, !.flag = p \in d.flagged]
                  ELSE book[l]]
    /\ drafts' = drafts \ {d}
    /\ UNCHANGED <<optOuts, offers, fixes, removals, bookGhost>>

DraftAborts(d) ==
    /\ d \in drafts /\ drafts' = drafts \ {d}
    /\ UNCHANGED <<book, optOuts, offers, fixes, removals, bookGhost>>

-----------------------------------------------------------------------------
(* suppress(), bulkSuppress(), the result "do not call" of a call: the     *)
(* UPDATE waits for the rows that are locked.                              *)
Suppress(p) ==
    /\ \A l \in RowsOf(p) : RowUnlocked(l)
    /\ optOuts' = optOuts \cup {p}
    /\ book' = [l \in LeadIds |-> IF l \in RowsOf(p) THEN [book[l] EXCEPT !.flag = TRUE] ELSE book[l]]
    /\ bookGhost' = [refused |-> bookGhost.refused \cup RowsOf(p), raced |-> RacedOn(p)]
    /\ fixes' = FixesCrossed(p)
    /\ UNCHANGED <<drafts, offers, removals>>

Lift(p) ==
    /\ p \in optOuts /\ \A l \in RowsOf(p) : RowUnlocked(l)
    /\ optOuts' = optOuts \ {p}
    /\ book' = [l \in LeadIds |-> IF l \in RowsOf(p) THEN [book[l] EXCEPT !.flag = FALSE] ELSE book[l]]
    /\ bookGhost' = [refused |-> bookGhost.refused \ RowsOf(p), raced |-> RacedOn(p)]
    /\ fixes' = FixesCrossed(p)
    /\ UNCHANGED <<drafts, offers, removals>>

-----------------------------------------------------------------------------
(* startReservedCall(): the look at the lead and the list FOR UPDATE, then *)
(* the row of the call.                                                    *)
OfferBegins(l) ==
    /\ CompanyLockFree /\ l \in Rows /\ RowUnlocked(l)
    /\ ~book[l].flag /\ book[l].phone \notin optOuts /\ ~book[l].call
    /\ offers' = offers \cup {l}
    /\ UNCHANGED <<book, optOuts, drafts, fixes, removals, bookGhost>>

OfferCommits(l) ==
    /\ l \in offers /\ offers' = offers \ {l}
    /\ book' = [book EXCEPT ![l].call = TRUE]
    /\ UNCHANGED <<optOuts, drafts, fixes, removals, bookGhost>>

OfferAborts(l) ==
    /\ l \in offers /\ offers' = offers \ {l}
    /\ UNCHANGED <<book, optOuts, drafts, fixes, removals, bookGhost>>

(* The call ends; its result may leave an open callback behind.            *)
CallOver(l, callback) ==
    /\ book[l].call
    /\ book' = [book EXCEPT ![l].call = FALSE, ![l].callback = @ \/ callback]
    /\ UNCHANGED <<optOuts, drafts, offers, fixes, removals, bookGhost>>

(* cancel(), missed, or a later call that answers the callback.            *)
CallbackOver(l) ==
    /\ book[l].callback
    /\ book' = [book EXCEPT ![l].callback = FALSE]
    /\ UNCHANGED <<optOuts, drafts, offers, fixes, removals, bookGhost>>

-----------------------------------------------------------------------------
(* remove() and clear(): the calls and the callbacks are looked at before  *)
(* the transaction that deletes.                                           *)
RemovalLooks(l) ==
    /\ l \in Rows \ removals /\ ~book[l].call /\ ~book[l].callback
    /\ removals' = removals \cup {l}
    /\ UNCHANGED <<book, optOuts, drafts, offers, fixes, bookGhost>>

RemovalDeletes(l) ==
    /\ l \in removals /\ RowUnlocked(l)
    /\ removals' = removals \ {l}
    /\ book' = [book EXCEPT ![l] = NoLead]
    /\ bookGhost' = [bookGhost EXCEPT !.refused = @ \ {l}]
    /\ UNCHANGED <<optOuts, drafts, offers, fixes>>

-----------------------------------------------------------------------------
(* Wrong on purpose: the suppression of the old phone stays behind.        *)
CarriedNever(p) == FALSE

Carried(p) == p \in optOuts

(* processOne() of a correction: the lead and the suppression of its old   *)
(* phone are read, then the list and the row are written.                  *)
CorrectionReads(l, to) ==
    /\ l \in Rows /\ fixes = {} /\ book[l].phone \in Phones \ {to}
    /\ fixes' = {[lead |-> l, from |-> book[l].phone, to |-> to,
                  carried |-> Carried(book[l].phone), crossed |-> FALSE]}
    /\ UNCHANGED <<book, optOuts, drafts, offers, removals, bookGhost>>

CorrectionCommits(f) ==
    /\ f \in fixes /\ RowsOf(f.to) = {} /\ RowUnlocked(f.lead) /\ fixes' = {}
    /\ optOuts' = IF f.carried THEN optOuts \cup {f.to} ELSE optOuts
    /\ book' = IF f.lead \in Rows
               THEN [book EXCEPT ![f.lead].phone = f.to, ![f.lead].flag = f.to \in optOuts']
               ELSE book
    /\ bookGhost' = [refused |-> IF f.crossed THEN bookGhost.refused \ {f.lead} ELSE bookGhost.refused,
                     raced |-> IF f.carried THEN RacedOn(f.to) ELSE bookGhost.raced]
    /\ UNCHANGED <<drafts, offers, removals>>

CorrectionAborts ==
    /\ fixes # {} /\ fixes' = {}
    /\ UNCHANGED <<book, optOuts, drafts, offers, removals, bookGhost>>

(* processOne() of an anonymization or a deletion.                         *)
Anonymize(l) ==
    /\ l \in Rows /\ RowUnlocked(l) /\ book[l].phone \in Phones
    /\ book' = [book EXCEPT ![l].phone = Anonymous, ![l].flag = TRUE]
    /\ bookGhost' = [bookGhost EXCEPT !.refused = @ \ {l}]
    /\ UNCHANGED <<optOuts, drafts, offers, fixes, removals>>

BookNext ==
    \/ \E p \in Phones : Suppress(p) \/ Lift(p) \/ TypedLead(p)
    \/ \E ps \in SUBSET Phones : SaveLeads(ps)
    \/ \E d \in drafts : DraftAborts(d) \/ DraftCommits(d)
    \/ \E l \in LeadIds : \/ OfferBegins(l) \/ OfferCommits(l) \/ OfferAborts(l)
                          \/ CallbackOver(l) \/ RemovalLooks(l) \/ RemovalDeletes(l) \/ Anonymize(l)
                          \/ \E c \in BOOLEAN : CallOver(l, c)
                          \/ \E p \in Phones : CorrectionReads(l, p)
    \/ \E f \in fixes : CorrectionCommits(f)
    \/ CorrectionAborts

BookSpec == BookInit /\ [][BookNext]_bookVars

-----------------------------------------------------------------------------
BookTypeOK ==
    /\ \A l \in LeadIds : book[l].phone \in Phones \cup {Anonymous}
    /\ \A l, k \in Rows : book[l].phone = book[k].phone /\ book[l].phone \in Phones => l = k
    /\ optOuts \subseteq Phones /\ offers \subseteq Rows
    /\ \A l \in LeadIds \ Rows : ~book[l].call

(* The plan's limit of leads, counted and used in one transaction while    *)
(* leads come from several doors at once (assertCanAddLeads).              *)
LeadQuotaKept == Cardinality(Rows) <= LeadLimit

(* Once a suppression has committed no new call to that phone commits,     *)
(* whatever the reservation had read before: the row of the lead is locked *)
(* from the look to the insert and the suppression waits for it.           *)
NoCallAfterOptOut ==
    [][\A l \in LeadIds : ~book[l].call /\ book'[l].call => book[l].phone \notin optOuts]_bookVars

(* Who refused stays refused when the phone is corrected: the suppression  *)
(* goes along (privacy.service), unless it changed during the correction.  *)
RefusalFollows ==
    \A l \in bookGhost.refused : book[l].phone \in optOuts

(* do_not_call says what the list says, unless the phone went on or off    *)
(* the list while the lead was being created or corrected.                 *)
FlagFollowsList ==
    \A l \in Rows : book[l].phone \in Phones \ bookGhost.raced => (book[l].flag <=> book[l].phone \in optOuts)

(* The book of leads: within the plan, and true to the list of those who   *)
(* refused, through every door, correction and suppression.                *)
BookInv == BookTypeOK /\ LeadQuotaKept /\ RefusalFollows /\ FlagFollowsList
=============================================================================
