------------------------------- MODULE Members -------------------------------
(***************************************************************************)
(* The people of one tenant and the seats of its plan: memberships, the    *)
(* invitations of SDRs and the agents a CRM integration provisions.        *)
(* A request is asked for (with what it reads before its transaction),     *)
(* opened (the transaction takes its locks and checks) and committed.  A   *)
(* seat is taken under the lock of the tenant; the last leader is watched  *)
(* under a lock of its own.  setStatus() and setRole() decide which lock   *)
(* they need by a row they read before.                                    *)
(* The requests under way form a set: a second one like an open one is     *)
(* still "asked", so no pair of requests is lost by it.  The sessions that *)
(* end with the last membership are Sessions!RevokeAll.                    *)
(***************************************************************************)
EXTENDS Integers, FiniteSets

CONSTANTS
    People,         \* users
    MaxRequests,    \* bound: requests under way at a time
    Founder,        \* the leader the tenant starts with
    SeatLimits      \* limits the entitlement may give, 0 when there is none

ASSUME MembersConstants ==
    /\ Founder \in People /\ IsFiniteSet(People)
    /\ SeatLimits \subseteq Nat /\ 0 \in SeatLimits

VARIABLES
    member,         \* tenant_memberships
    invite,         \* the SDR invitation of each person
    provisioned,    \* people whose membership an integration created
    seatLimit,      \* max_sdrs of the entitlement
    requests,       \* the requests under way
    misread         \* ghost: a request was committed on a row it had read too early

memberVars == <<member, invite, provisioned, seatLimit, requests, misread>>

Roles == {"leader", "sdr"}
MemberRows == [role : Roles, status : {"none", "active", "blocked", "removed"}]
NoLimit == -1
Nobody == [role |-> "leader", status |-> "none"]

MembersInit ==
    /\ member = [u \in People |-> [Nobody EXCEPT !.status = IF u = Founder THEN "active" ELSE @]]
    /\ invite = [u \in People |-> "none"]
    /\ provisioned = {} /\ requests = {} /\ misread = FALSE
    /\ seatLimit \in SeatLimits

Serving(u) == member[u].status = "active"
Leaders == {u \in People : Serving(u) /\ member[u].role = "leader"}
UsedBy == {u \in People : Serving(u) /\ member[u].role = "sdr"}
ReservedFor == {u \in People : invite[u] = "pending"}
SeatsTaken == Cardinality(UsedBy) + Cardinality(ReservedFor)

-----------------------------------------------------------------------------
(* Whether an edit takes a leader away, by the row it reads.  "to" is a    *)
(* status for setStatus(), a role for setRole().                           *)
LosesLeader(u, to) ==
    member[u].role = "leader" /\ (to \in {"blocked", "removed"} \/ (to = "sdr" /\ Serving(u)))

(* Whether a request takes a seat, and with it the lock of the tenant.     *)
TakesSeat(kind, u, to) ==
    CASE kind = "edit"   -> \/ to = "active" /\ member[u].role = "sdr" /\ ~Serving(u)
                            \/ to = "sdr" /\ member[u].role # "sdr" /\ Serving(u)
      [] kind = "create" -> to = "sdr"
      [] kind = "link"   -> ~Serving(u)
      [] OTHER           -> TRUE

(* A request reads the row, which settles what it has to look after, and   *)
(* only then opens its transaction; "stale" once the row has changed.      *)
Asked(kind, u, to) ==
    /\ Cardinality(requests) < MaxRequests
    /\ requests' = requests \cup {[pc |-> "asked", kind |-> kind, user |-> u, to |-> to,
           loses |-> kind = "edit" /\ LosesLeader(u, to), seat |-> TakesSeat(kind, u, to),
           stale |-> FALSE, limit |-> NoLimit]}
    /\ UNCHANGED <<member, invite, provisioned, seatLimit, misread>>

(* findByTenantAndUser(), and a first look at the leaders without a lock.  *)
AskEdit(u, to) ==
    /\ member[u].status # "none"
    /\ LosesLeader(u, to) => Cardinality(Leaders) > 1
    /\ Asked("edit", u, to)

AskInvite(u) ==
    /\ member[u].status \in {"none", "removed"} /\ invite[u] # "pending"
    /\ Asked("invite", u, "sdr")

AskResend(u) == invite[u] \in {"pending", "expired"} /\ Asked("resend", u, "sdr")

HoldsTenant(t) == t.pc = "open" /\ t.seat
HoldsLeaders(t) == t.pc = "open" /\ t.loses
HoldsRow(t, u) == t.pc = "open" /\ t.user = u /\ t.kind \in {"create", "accept", "link"}

(* Wrong on purpose: the seats are counted without the lock of the tenant. *)
LocksFreeForLeaders(t) ==
    \A o \in requests : ~(t.loses /\ HoldsLeaders(o)) /\ ~HoldsRow(o, t.user)

(* The advisory locks and the row an update has to wait for.               *)
LocksFree(t) ==
    \A o \in requests : /\ ~(t.seat /\ HoldsTenant(o))
                        /\ ~(t.loses /\ HoldsLeaders(o))
                        /\ ~HoldsRow(o, t.user)

(* assertCanAdd(): an acceptance, or a resend, does not count its own      *)
(* invitation; an admin in write mode, or a sanctioned invitation, passes. *)
SeatFree(t, override) ==
    \/ override
    \/ LET own == IF t.kind \in {"accept", "resend"} THEN {t.user} ELSE {} IN
       Cardinality(UsedBy) + Cardinality(ReservedFor \ own) < seatLimit

(* Wrong on purpose: the leaders counted before the transaction will do.   *)
LeaderSpareUnchecked(t) == TRUE

LeaderSpare(t) == t.loses => Cardinality(Leaders) > 1

Opened(t, override) ==
    [t EXCEPT !.pc = "open", !.limit = IF t.seat /\ ~override THEN seatLimit ELSE NoLimit]

(* The transaction of an edit, an invitation or a resend.                  *)
OpenRequest(t, override) ==
    /\ t \in requests /\ t.pc = "asked" /\ LocksFree(t)
    /\ override => t.seat
    /\ requests' = (requests \ {t}) \cup
           IF LeaderSpare(t) /\ (t.seat => SeatFree(t, override)) THEN {Opened(t, override)} ELSE {}
    /\ UNCHANGED <<member, invite, provisioned, seatLimit, misread>>

(* Requests that read everything in their transaction.                     *)
OpenAtOnce(kind, u, to, override) ==
    LET t == [pc |-> "open", kind |-> kind, user |-> u, to |-> to, loses |-> FALSE,
              seat |-> TakesSeat(kind, u, to), stale |-> FALSE, limit |-> NoLimit] IN
    /\ Cardinality(requests) < MaxRequests /\ LocksFree(t)
    /\ override => t.seat
    /\ t.seat => SeatFree(t, override)
    /\ requests' = requests \cup {Opened(t, override)}
    /\ UNCHANGED <<member, invite, provisioned, seatLimit, misread>>

CreateMember(u, role, override) ==
    member[u].status \in {"none", "removed"} /\ OpenAtOnce("create", u, role, override)

AcceptInvite(u, sanctioned) ==
    /\ invite[u] = "pending" /\ member[u].status \in {"none", "removed"}
    /\ sanctioned \/ seatLimit > 0
    /\ OpenAtOnce("accept", u, "sdr", sanctioned)

LinkAgent(u) == seatLimit > 0 /\ OpenAtOnce("link", u, "sdr", FALSE)

-----------------------------------------------------------------------------
MemberAfter(t, row) ==
    CASE t.kind = "edit" /\ t.to \in Roles -> [row EXCEPT !.role = t.to]
      [] t.kind = "edit" /\ t.to \notin Roles -> [row EXCEPT !.status = t.to]
      [] t.kind \in {"create", "accept"} -> [role |-> t.to, status |-> "active"]
      [] t.kind = "link" /\ t.seat -> [role |-> "sdr", status |-> "active"]
      [] OTHER -> row

(* A resend brings an expired invitation back, not one that was closed.    *)
InviteAfter(t) ==
    CASE t.kind = "invite" -> "pending"
      [] t.kind = "resend" /\ invite[t.user] = "expired" -> "pending"
      [] t.kind = "accept" -> "none"
      [] OTHER -> invite[t.user]

(* The index on open SDR invitations knows nothing of their expiry.        *)
IndexRefuses(t) == t.kind = "invite" /\ invite[t.user] # "none"

(* An edit whose row has changed under it acts on a stale read.            *)
Outdated(rest) ==
    {[o EXCEPT !.stale = @ \/ (o.kind = "edit" /\ member'[o.user] # member[o.user])] : o \in rest}

CommitRequest(t) ==
    /\ t \in requests /\ t.pc = "open"
    /\ \A o \in requests \ {t} : ~HoldsRow(o, t.user)
    /\ IF IndexRefuses(t) THEN UNCHANGED <<member, invite, provisioned, misread>>
       ELSE /\ member' = [member EXCEPT ![t.user] = MemberAfter(t, @)]
            /\ invite' = [invite EXCEPT ![t.user] = InviteAfter(t)]
            /\ provisioned' = IF t.kind = "link" /\ t.seat THEN provisioned \cup {t.user}
                              ELSE provisioned
            /\ misread' = (misread \/ (t.kind = "edit" /\ t.stale))
    /\ requests' = Outdated(requests \ {t})
    /\ UNCHANGED seatLimit

(* revoke(): one UPDATE, which waits for an acceptance that holds the row. *)
RevokeInvite(u) ==
    /\ invite[u] # "none"
    /\ \A o \in requests : ~(HoldsRow(o, u) /\ o.kind = "accept")
    /\ invite' = [invite EXCEPT ![u] = "none"]
    /\ UNCHANGED <<member, provisioned, seatLimit, requests, misread>>

InviteExpires(u) ==
    /\ invite[u] = "pending"
    /\ invite' = [invite EXCEPT ![u] = "expired"]
    /\ UNCHANGED <<member, provisioned, seatLimit, requests, misread>>

(* unlink(): the membership of a provisioned agent ends, if he still is an *)
(* SDR.                                                                    *)
UnlinkAgent(u) ==
    /\ u \in provisioned /\ \A o \in requests : ~HoldsRow(o, u)
    /\ provisioned' = provisioned \ {u}
    /\ member' = IF u \in UsedBy THEN [member EXCEPT ![u].status = "removed"] ELSE member
    /\ requests' = Outdated(requests)
    /\ UNCHANGED <<invite, seatLimit, misread>>

(* The entitlement is computed again; a sync does not take the lock.       *)
LimitChanges(n) ==
    /\ n # seatLimit /\ seatLimit' = n
    /\ UNCHANGED <<member, invite, provisioned, requests, misread>>

MembersNext ==
    \/ \E u \in People :
           \/ \E to \in Roles \cup {"active", "blocked", "removed"} : AskEdit(u, to)
           \/ \E override \in BOOLEAN : \/ \E role \in Roles : CreateMember(u, role, override)
                                        \/ AcceptInvite(u, override)
           \/ AskInvite(u) \/ AskResend(u) \/ LinkAgent(u)
           \/ RevokeInvite(u) \/ InviteExpires(u) \/ UnlinkAgent(u)
    \/ \E t \in requests : CommitRequest(t) \/ \E override \in BOOLEAN : OpenRequest(t, override)
    \/ \E n \in SeatLimits : LimitChanges(n)

MembersSpec == MembersInit /\ [][MembersNext]_memberVars

-----------------------------------------------------------------------------
MembersTypeOK ==
    /\ member \in [People -> MemberRows]
    /\ invite \in [People -> {"none", "pending", "expired"}]
    /\ provisioned \subseteq People /\ seatLimit \in SeatLimits /\ misread \in BOOLEAN
    /\ \A t \in requests : t.pc \in {"asked", "open"} /\ t.user \in People

(* A tenant keeps an active leader: two leaders who remove or demote each  *)
(* other at once, or an agent who was promoted and is then unlinked, do    *)
(* not leave it without one, as long as no request acts on a row that      *)
(* changed since it was read (setStatus, setRole, unlink).                 *)
LeaderRemains == misread \/ Leaders # {}

(* A commit that takes a seat, or reserves one, stays within the limit     *)
(* that was in force when its transaction counted, whatever other invites, *)
(* acceptances, resends and promotions commit in between (assertCanAdd).   *)
SeatsWithinLimit ==
    [][misread' \/ \A t \in requests \ requests' :
          t.pc = "open" /\ t.limit # NoLimit /\ SeatsTaken' > SeatsTaken
          => SeatsTaken' <= t.limit]_memberVars

(* The rows of the members, with a leader among them.                      *)
MembersInv == MembersTypeOK /\ LeaderRemains
=============================================================================
