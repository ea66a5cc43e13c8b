------------------------------ MODULE Sessions ------------------------------
(***************************************************************************)
(* The sessions of one user.                                               *)
(* Every refresh replaces a session by a new one of its family; the old    *)
(* token stays good for a short grace, for a second tab that refreshes at  *)
(* the same time, as long as its replacement lives.  Logging out           *)
(* everywhere, a reset and a change of the password revoke by one UPDATE,  *)
(* which sees the sessions there were when it began.                       *)
(* Any token that was ever handed out may be presented at any time.  That  *)
(* the user is active is looked at as well; a refused request is one that  *)
(* does not begin.                                                         *)
(***************************************************************************)
EXTENDS Integers, FiniteSets

CONSTANTS
    SessionIds      \* bound: rows of user_sessions, 1 .. n

ASSUME SessionsConstants == SessionIds \subseteq Nat \ {0}

VARIABLES
    ses,            \* user_sessions
    swaps,          \* refreshes under way: the old row, the new one
    sweep,          \* a revocation under way: the rows it saw, whether a refresh overlapped
    sesGhost        \* ghost: families revoked as a whole, families of a reused token

sesVars == <<ses, swaps, sweep, sesGhost>>

NoSession == [status |-> "none", family |-> 0, next |-> 0, grace |-> FALSE, expired |-> FALSE]
NoSweep == [on |-> FALSE, rows |-> {}, overlapped |-> FALSE]

SessionsInit ==
    /\ ses = [s \in SessionIds |-> NoSession]
    /\ swaps = {} /\ sweep = NoSweep
    /\ sesGhost = [closed |-> {}, reused |-> {}]

Live == {s \in SessionIds : ses[s].status = "live"}
Locked == {w.old : w \in swaps}
Taken == {s \in SessionIds : ses[s].status # "none"} \cup {w.new : w \in swaps}
FreshId(s) == s \notin Taken /\ \A r \in SessionIds \ Taken : s <= r

-----------------------------------------------------------------------------
(* login(), registerOrganizer(), createSessionForUser(): a new family.     *)
OpensSession(s) ==
    /\ FreshId(s)
    /\ ses' = [ses EXCEPT ![s] = [NoSession EXCEPT !.status = "live", !.family = s]]
    /\ UNCHANGED <<swaps, sweep, sesGhost>>

(* Wrong on purpose: the grace outlives a replacement that logged out.     *)
RotatedRecentlyAny(s) == ses[s].status = "revoked" /\ ses[s].next # 0 /\ ses[s].grace

RotatedRecently(s) ==
    /\ ses[s].status = "revoked" /\ ses[s].next # 0 /\ ses[s].grace
    /\ ses[ses[s].next].status = "live"

(* refresh() locks the row of the token it is given.                       *)
RefreshBegins(s, new) ==
    /\ ses[s].status # "none" /\ s \notin Locked /\ FreshId(new)
    /\ ~ses[s].expired /\ (ses[s].status = "live" \/ RotatedRecently(s))
    /\ swaps' = swaps \cup {[old |-> s, new |-> new, rotates |-> ses[s].status = "live"]}
    /\ sweep' = [sweep EXCEPT !.overlapped = sweep.on]
    /\ UNCHANGED <<ses, sesGhost>>

(* A token that expired or was used before: the UPDATE on its family and   *)
(* the exception are in one transaction, which takes the UPDATE back.      *)
RefreshRefused(s) ==
    /\ ses[s].status # "none" /\ s \notin Locked
    /\ ses[s].expired \/ (ses[s].status = "revoked" /\ ~RotatedRecently(s))
    /\ sesGhost' = IF ses[s].expired THEN sesGhost
                   ELSE [sesGhost EXCEPT !.reused = @ \cup {ses[s].family}]
    /\ UNCHANGED <<ses, swaps, sweep>>

RefreshCommits(w) ==
    /\ w \in swaps
    /\ ses' = [s \in SessionIds |->
           IF s = w.new THEN [NoSession EXCEPT !.status = "live", !.family = ses[w.old].family]
           ELSE IF s = w.old /\ w.rotates
           THEN [ses[s] EXCEPT !.status = "revoked", !.next = w.new, !.grace = TRUE]
           ELSE ses[s]]
    /\ swaps' = swaps \ {w}
    /\ UNCHANGED <<sweep, sesGhost>>

(* The connection or the process is lost.                                  *)
RefreshFails(w) ==
    /\ w \in swaps /\ swaps' = swaps \ {w}
    /\ UNCHANGED <<ses, sweep, sesGhost>>

(* logout() and revokeSession(): one row.                                  *)
Logout(s) ==
    /\ s \in Live \ Locked
    /\ ses' = [ses EXCEPT ![s].status = "revoked"]
    /\ UNCHANGED <<swaps, sweep, sesGhost>>

SweepOver(rows) == [on |-> TRUE, rows |-> rows, overlapped |-> swaps # {}]

(* logoutAll(), resetPassword(), the end of the last membership;           *)
(* changePassword() spares the session it is called from.                  *)
RevokeAll(spared) ==
    /\ ~sweep.on /\ spared \subseteq Live /\ Cardinality(spared) <= 1
    /\ sweep' = SweepOver(Live \ spared)
    /\ UNCHANGED <<ses, swaps, sesGhost>>

(* The UPDATE waits for the rows that are locked, then looks at them again.*)
SweepEnds ==
    /\ sweep.on /\ sweep.rows \cap Locked = {}
    /\ ses' = [s \in SessionIds |-> IF s \in sweep.rows THEN [ses[s] EXCEPT !.status = "revoked"]
                                    ELSE ses[s]]
    /\ sweep' = NoSweep
    /\ sesGhost' = IF sweep.overlapped THEN sesGhost
           ELSE LET families == {ses[s].family : s \in sweep.rows}
                    left == {ses[s].family : s \in Live \ sweep.rows}
                IN [sesGhost EXCEPT !.closed = @ \cup (families \ left)]
    /\ UNCHANGED <<swaps>>

TimeRunsOut(s) ==
    /\ \/ ses[s].grace /\ ses' = [ses EXCEPT ![s].grace = FALSE]
       \/ ses[s].status = "live" /\ ~ses[s].expired /\ ses' = [ses EXCEPT ![s].expired = TRUE]
    /\ UNCHANGED <<swaps, sweep, sesGhost>>

SessionsNext ==
    \/ \E s \in SessionIds : \/ OpensSession(s) \/ RefreshRefused(s) \/ Logout(s) \/ TimeRunsOut(s)
                            \/ \E new \in SessionIds : RefreshBegins(s, new)
    \/ \E w \in swaps : RefreshCommits(w) \/ RefreshFails(w)
    \/ \E spared \in SUBSET SessionIds : RevokeAll(spared)
    \/ SweepEnds

SessionsSpec == SessionsInit /\ [][SessionsNext]_sesVars

-----------------------------------------------------------------------------
SessionsTypeOK ==
    /\ \A s \in SessionIds : /\ ses[s].status \in {"none", "live", "revoked"}
                             /\ ses[s].family \in SessionIds \cup {0}
                             /\ ses[s].next # 0 => /\ ses[s].status = "revoked"
                                                   /\ ses[ses[s].next].family = ses[s].family
    /\ \A w \in swaps : ses[w.old].status # "none" /\ ses[w.new].status = "none"
    /\ sweep.rows \subseteq SessionIds

(* A family that was revoked as a whole, with no refresh under way, does   *)
(* not come back, whatever token of it is presented in its grace: the look *)
(* at the replacement in refresh().                                        *)
ClosedStaysOut ==
    \A s \in Live : ses[s].family \notin sesGhost.closed

(* auth.service.spec.ts:54: a revoked token used outside the grace window  *)
(* revokes its family.                                                     *)
ReuseRevokesFamily ==
    \A s \in Live : ses[s].family \in sesGhost.reused => ses[s].expired

(* The rows of the sessions, and no revoked family alive (refresh).        *)
SessionsInv == SessionsTypeOK /\ ClosedStaysOut
=============================================================================
