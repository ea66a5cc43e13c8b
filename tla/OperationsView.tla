----------------------------- MODULE OperationsView -----------------------------
(***************************************************************************)
(* useOperationsRealtime(): the snapshot of the operation that a page      *)
(* shows.  It comes by request, one at a time, and on a socket that also   *)
(* tells of changes made in the same process of the API; of the others the *)
(* page learns by polling.  Changing the company disposes of all of it and *)
(* begins again.                                                           *)
(***************************************************************************)
EXTENDS Naturals, FiniteSets

CONSTANTS
    MaxVersions,    \* bound: changes of the operation
    MaxViews,       \* bound: times the company is changed, plus one
    MaxBreaks       \* bound: requests and sockets that fail

ASSUME OperationsViewConstants ==
    MaxVersions \in Nat /\ MaxViews \in Nat \ {0} /\ MaxBreaks \in Nat

VARIABLES
    version,        \* of the operation, in the API
    view,           \* the number of the effect that runs: one company each
    applied,        \* the effect has run for the company that is chosen
    snapshot,       \* the view and the version that are shown
    reading,        \* the request in flight: its view and what it has read
    linking,        \* the views whose connect() waits for its ticket
    sockets,        \* of each socket that is open, the view it belongs to
    current,        \* socket.current is set
    reconnect,      \* the timer of scheduleReconnect() runs
    refreshDue,     \* the timer of scheduleSnapshotRefresh() runs
    breaks

opsVars == <<version, view, applied, snapshot, reading, linking, sockets, current, reconnect,
             refreshDue, breaks>>

Views == 1..MaxViews
NoSnapshot == [of |-> 0, version |-> 0]
NotReading == [of |-> 0, version |-> 0]

OpsTypeOK ==
    /\ version \in 1..(MaxVersions + 1) /\ view \in Views /\ applied \in BOOLEAN
    /\ snapshot = NoSnapshot \/ snapshot.of \in Views
    /\ reading = NotReading \/ reading.of \in Views
    /\ linking \subseteq Views /\ sockets \subseteq Views
    /\ current \in BOOLEAN /\ reconnect \in BOOLEAN /\ refreshDue \in BOOLEAN

OpsInit ==
    /\ version = 1 /\ view = 1 /\ applied = FALSE
    /\ snapshot = NoSnapshot /\ reading = NotReading
    /\ linking = {} /\ sockets = {} /\ current = FALSE
    /\ reconnect = FALSE /\ refreshDue = FALSE /\ breaks = 0

-----------------------------------------------------------------------------
Break == breaks < MaxBreaks /\ breaks' = breaks + 1

(* refresh(), one at a time for a company.  What it will read is known when *)
(* the API answers.                                                         *)
Refreshed == IF reading.of = view THEN reading ELSE [of |-> view, version |-> 0]

(* The effect: everything is reset, a request goes out and a ticket is     *)
(* asked for.                                                              *)
OpsEffect ==
    /\ ~applied /\ applied' = TRUE
    /\ snapshot' = NoSnapshot
    /\ reading' = Refreshed /\ linking' = linking \union {view}
    /\ UNCHANGED <<version, view, sockets, current, reconnect, refreshDue, breaks>>

(* Another company: setActiveTenantId() aborts the request, and before the *)
(* next effect the last one is disposed of.                                *)
ChangesCompany ==
    /\ applied /\ view < MaxViews /\ view' = view + 1 /\ applied' = FALSE
    /\ reading' = NotReading
    /\ sockets' = sockets \ {view} /\ current' = FALSE
    /\ reconnect' = FALSE /\ refreshDue' = FALSE
    /\ UNCHANGED <<version, snapshot, linking, breaks>>

(* The API reads, and then its answer arrives.                             *)
Reads ==
    /\ reading # NotReading /\ reading.version = 0
    /\ reading' = [reading EXCEPT !.version = version]
    /\ UNCHANGED <<version, view, applied, snapshot, linking, sockets, current, reconnect,
                   refreshDue, breaks>>

Shows ==
    /\ reading # NotReading /\ reading.version > 0 /\ snapshot' = reading
    /\ reading' = NotReading
    /\ UNCHANGED <<version, view, applied, linking, sockets, current, reconnect, refreshDue,
                   breaks>>

ReadFails ==
    /\ reading # NotReading /\ Break /\ reading' = NotReading
    /\ UNCHANGED <<version, view, applied, snapshot, linking, sockets, current, reconnect,
                   refreshDue>>

(* Wrong on purpose: polling is left to the times without a socket.        *)
PollsUnconnected ==
    /\ applied /\ ~current /\ reading # Refreshed /\ reading' = Refreshed
    /\ UNCHANGED <<version, view, applied, snapshot, linking, sockets, current, reconnect,
                   refreshDue, breaks>>

(* Every 15 seconds, even while the socket is open.                        *)
Polls ==
    /\ applied /\ reading # Refreshed /\ reading' = Refreshed
    /\ UNCHANGED <<version, view, applied, snapshot, linking, sockets, current, reconnect,
                   refreshDue, breaks>>

-----------------------------------------------------------------------------
(* Wrong on purpose: the view may be gone when the ticket comes.           *)
AnyView(v) == TRUE

(* disposed, looked at again after the wait for the ticket.                *)
Alive(v) == v = view /\ applied

(* The ticket comes: the socket opens and brings a snapshot.               *)
Links(v) ==
    /\ v \in linking /\ linking' = linking \ {v}
    /\ IF Alive(v)
       THEN /\ sockets' = sockets \union {v} /\ current' = TRUE
            /\ snapshot' = [of |-> v, version |-> version]
            /\ UNCHANGED reading
       ELSE /\ UNCHANGED <<sockets, current, snapshot>>
            /\ reading' = IF applied THEN Refreshed ELSE reading
    /\ UNCHANGED <<version, view, applied, reconnect, refreshDue, breaks>>

(* No ticket: a request instead, and another try later.                    *)
LinkFails(v) ==
    /\ v \in linking /\ Break /\ linking' = linking \ {v}
    /\ reading' = IF applied THEN Refreshed ELSE reading
    /\ reconnect' = (reconnect \/ (v = view /\ applied))
    /\ UNCHANGED <<version, view, applied, snapshot, sockets, current, refreshDue>>

SocketBreaks ==
    /\ view \in sockets /\ current /\ Break
    /\ sockets' = sockets \ {view} /\ current' = FALSE
    /\ refreshDue' = TRUE /\ reconnect' = TRUE
    /\ UNCHANGED <<version, view, applied, snapshot, reading, linking>>

Reconnects ==
    /\ reconnect /\ reconnect' = FALSE /\ linking' = linking \union {view}
    /\ UNCHANGED <<version, view, applied, snapshot, reading, sockets, current, refreshDue,
                   breaks>>

RefreshTimer ==
    /\ refreshDue /\ refreshDue' = FALSE /\ reading' = Refreshed
    /\ UNCHANGED <<version, view, applied, snapshot, linking, sockets, current, reconnect,
                   breaks>>

(* Something changes: here the sockets are told, elsewhere they are not.   *)
Changes(here) ==
    /\ version <= MaxVersions /\ version' = version + 1
    /\ refreshDue' = (refreshDue \/ (here /\ current))
    /\ UNCHANGED <<view, applied, snapshot, reading, linking, sockets, current, reconnect,
                   breaks>>

OpsNext ==
    \/ OpsEffect \/ ChangesCompany \/ Reads \/ Shows \/ ReadFails \/ Polls
    \/ \E v \in Views : Links(v) \/ LinkFails(v)
    \/ SocketBreaks \/ Reconnects \/ RefreshTimer
    \/ \E here \in BOOLEAN : Changes(here)

OpsRequest == Reads \/ Shows
OpsTimers == OpsEffect \/ Reconnects \/ RefreshTimer
OpsLinks == \E v \in Views : Links(v)

OpsSpec ==
    /\ OpsInit /\ [][OpsNext]_opsVars
    /\ WF_opsVars(OpsRequest) /\ WF_opsVars(OpsTimers) /\ WF_opsVars(OpsLinks) /\ WF_opsVars(Polls)

-----------------------------------------------------------------------------
(* A page shows the company that is chosen, once its effect has run, and   *)
(* has no socket but its own, which it will close.                         *)
ViewOwnsAll ==
    /\ applied => snapshot = NoSnapshot \/ snapshot.of = view
    /\ sockets \subseteq IF current THEN {view} ELSE {}
    /\ reconnect => ~current

(* What is shown catches up with the operation, though answers overtake    *)
(* each other and changes in other processes are not told.                 *)
ViewCatchesUp == <>[](snapshot = [of |-> view, version |-> version])
=============================================================================
