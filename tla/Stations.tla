------------------------------ MODULE Stations ------------------------------
(***************************************************************************)
(* The station of one agent: control sockets that open, identify, displace *)
(* one another and close, in the processes of the API, and the row of the  *)
(* agent all of them write.  The handlers of a socket await the database,  *)
(* so each is split where it does: what is checked or written before the   *)
(* await may be old after it.  An automatic call needs an available desk, a *)
(* standard station and an open socket in the process that ticks.          *)
(***************************************************************************)
EXTENDS FiniteSets

CONSTANTS
    Processes,      \* the instances of the API, one run of a process each
    Sockets,        \* the control sockets the agent opens
    Nowhere,        \* no process
    NoSocket

ASSUME StationConstants == Nowhere \notin Processes /\ NoSocket \notin Sockets

Kinds == {"standard", "manual_only"}

VARIABLES
    desk,           \* sdrs: available, paused, at (connection_instance_id), mode
    socket,         \* of each socket: its process, its kind, and its state
    controls,       \* of each process: the socket the agent is reached by
    manualOnly,     \* the processes that take the agent's station for a manual one
    identified,     \* sessions: the sockets that have identified
    latest,         \* the last socket that claimed the row
    claiming,       \* identify has written the row and not yet the maps
    asking,         \* setAvailability(true) has made its checks and not its UPDATE
    leaving,        \* controlClosed: the sockets that still have a row to write
    parting,        \* handleSdrDisconnected: those that still have the agent to write
    talking,        \* the agent has a call
    picked,         \* the processes whose tick has read the agent as ready
    resetting,      \* resetStaleSdrPresence has found the row stale
    alive,          \* the instances that run
    beats,          \* those whose key zapcall:runtime has not expired
    started,        \* those that ever ran
    crossed         \* a step has used what another had made untrue meanwhile

hosts == <<resetting, alive, beats, started>>
maps == <<controls, manualOnly, identified, latest>>
handlers == <<claiming, asking, leaving, parting>>
calls == <<talking, picked>>
stationVars ==
    <<desk, socket, controls, manualOnly, identified, latest, claiming, asking, leaving,
      parting, talking, picked, resetting, alive, beats, started, crossed>>

StationTypeOK ==
    /\ desk \in [available : BOOLEAN, paused : BOOLEAN,
                at : Processes \union {Nowhere}, mode : Kinds]
    /\ socket \in [Sockets -> [at : Processes \union {Nowhere}, kind : Kinds,
                               state : {"new", "open", "shut"}]]
    /\ controls \in [Processes -> Sockets \union {NoSocket}]
    /\ UNION {identified, claiming, asking, leaving, parting} \subseteq Sockets
    /\ UNION {manualOnly, picked, alive, beats, started} \subseteq Processes
    /\ latest \in Sockets \union {NoSocket}
    /\ {talking, resetting, crossed} \subseteq BOOLEAN

StationInit ==
    /\ desk = [available |-> FALSE, paused |-> FALSE, at |-> Nowhere, mode |-> "standard"]
    /\ socket = [s \in Sockets |-> [at |-> Nowhere, kind |-> "standard", state |-> "new"]]
    /\ controls = [p \in Processes |-> NoSocket]
    /\ identified = {} /\ claiming = {} /\ asking = {} /\ leaving = {} /\ parting = {}
    /\ manualOnly = {} /\ picked = {} /\ talking = FALSE /\ resetting = FALSE
    /\ \E p \in Processes : alive = {p} /\ beats = {p} /\ started = {p}
    /\ latest = NoSocket /\ crossed = FALSE

IsOpen(s) == s # NoSocket /\ socket[s].state = "open"
isConnected(p) == IsOpen(controls[p])
Current(s) == controls[socket[s].at] = s
Reached == {p \in Processes : isConnected(p)}

(* attach(): the ticket says which process, and which kind of station.     *)
Upgrade(s, p, kind) ==
    /\ socket[s].state = "new" /\ p \in alive
    /\ socket' = [socket EXCEPT ![s] = [at |-> p, kind |-> kind, state |-> "open"]]
    /\ UNCHANGED <<desk, crossed, hosts, maps, handlers, calls>>

(* identify, up to its UPDATE; it crosses another identify, and a tick.    *)
Claim(s) ==
    /\ IsOpen(s) /\ s \notin identified \union claiming
    /\ desk' = [desk EXCEPT !.at = socket[s].at, !.mode = socket[s].kind,
                          !.available = @ /\ socket[s].kind = "standard"]
    /\ claiming' = claiming \union {s} /\ latest' = s
    /\ crossed' = (crossed \/ claiming \union picked # {})
    /\ UNCHANGED <<socket, controls, manualOnly, identified, asking, leaving,
                   parting, hosts, calls>>

(* identify, after it: the station of this process moves to this socket.   *)
(* It crosses a close of the socket itself, and a tick that has picked.    *)
Identified(s) ==
    LET p == socket[s].at
        previous == controls[p] IN
    /\ s \in claiming
    /\ claiming' = claiming \ {s} /\ identified' = identified \union {s}
    /\ controls' = [controls EXCEPT ![p] = s]
    /\ manualOnly' = IF socket[s].kind = "manual_only" THEN manualOnly \union {p}
                     ELSE manualOnly \ {p}
    /\ socket' = IF IsOpen(previous) THEN [socket EXCEPT ![previous].state = "shut"]
                 ELSE socket
    /\ crossed' = (crossed \/ ~IsOpen(s) \/ p \in picked)
    /\ UNCHANGED <<latest, desk, asking, leaving, parting, hosts, calls>>

(* availability true, up to the checks of setAvailability().               *)
AskAvailable(s) ==
    /\ IsOpen(s) /\ s \in identified /\ s \notin asking
    /\ socket[s].at \notin manualOnly
    /\ ~desk.paused /\ ~talking
    /\ asking' = asking \union {s}
    /\ UNCHANGED <<desk, socket, claiming, leaving, parting, crossed, hosts,
                   maps, calls>>

(* Its UPDATE, whatever has become of the socket, the pause and the call.  *)
BecomesAvailable(s) ==
    /\ s \in asking /\ asking' = asking \ {s}
    /\ desk' = [desk EXCEPT !.available = TRUE]
    /\ crossed' = (crossed \/ ~(IsOpen(s) /\ Current(s)) \/ desk.paused \/ talking)
    /\ UNCHANGED <<socket, claiming, leaving, parting, hosts, maps, calls>>

(* availability false.                                                     *)
GoesOffline(s) ==
    /\ IsOpen(s) /\ s \in identified /\ desk.available
    /\ desk' = [desk EXCEPT !.available = FALSE]
    /\ UNCHANGED <<socket, crossed, hosts, maps, handlers, calls>>

(* The agent's browser leaves, or the network does.                        *)
Shut(s) ==
    /\ IsOpen(s) /\ socket' = [socket EXCEPT ![s].state = "shut"]
    /\ UNCHANGED <<desk, crossed, hosts, maps, handlers, calls>>

(* Wrong on purpose: a displaced socket is taken for the current one.      *)
ClosedAny(s) ==
    /\ socket[s].state = "shut" /\ s \in identified
    /\ identified' = identified \ {s}
    /\ controls' = [controls EXCEPT ![socket[s].at] = NoSocket]
    /\ manualOnly' = manualOnly \ {socket[s].at}
    /\ leaving' = leaving \union {s}
    /\ UNCHANGED <<latest, desk, socket, claiming, asking, parting, crossed,
                   hosts, calls>>

(* controlClosed(), up to its first await.                                 *)
controlClosed(s) ==
    /\ socket[s].state = "shut" /\ s \in identified
    /\ identified' = identified \ {s}
    /\ IF Current(s)
       THEN /\ controls' = [controls EXCEPT ![socket[s].at] = NoSocket]
            /\ manualOnly' = manualOnly \ {socket[s].at}
            /\ leaving' = leaving \union {s}
       ELSE UNCHANGED <<controls, manualOnly, leaving>>
    /\ UNCHANGED <<latest, desk, socket, claiming, asking, parting, crossed,
                   hosts, calls>>

(* Its UPDATE, of a row this process still holds; another socket of the    *)
(* process may have claimed it meanwhile.                                  *)
ReleaseRow(s) ==
    LET p == socket[s].at IN
    /\ s \in leaving /\ leaving' = leaving \ {s} /\ parting' = parting \union {s}
    /\ desk' = IF desk.at = p THEN [desk EXCEPT !.available = FALSE, !.at = Nowhere] ELSE desk
    /\ crossed' = (crossed \/ (desk.at = p /\ (controls[p] # NoSocket
                                              \/ \E r \in claiming : socket[r].at = p)))
    /\ UNCHANGED <<socket, claiming, asking, hosts, maps, calls>>

(* handleSdrDisconnected(): whoever holds the desk.                         *)
handleSdrDisconnected(s) ==
    /\ s \in parting /\ parting' = parting \ {s}
    /\ desk' = [desk EXCEPT !.available = FALSE]
    /\ UNCHANGED <<socket, claiming, asking, leaving, crossed, hosts, maps,
                   calls>>

-----------------------------------------------------------------------------
(* tick(): the rows it reads, and, after awaits, the call it places.  A    *)
(* station that has claimed the row is not yet the one the process reaches.*)
TickReads(p) ==
    /\ p \in alive \ picked /\ desk.available /\ ~talking
    /\ desk.mode = "standard"
    /\ picked' = picked \union {p}
    /\ crossed' = (crossed \/ claiming # {})
    /\ UNCHANGED <<desk, socket, talking, hosts, maps, handlers>>

TickPlaces(p) ==
    /\ p \in picked /\ picked' = picked \ {p}
    /\ talking' = (talking \/ isConnected(p))
    /\ UNCHANGED <<desk, socket, crossed, hosts, maps, handlers>>

(* dial: a manual call asks for no more than the socket.                   *)
PlaceManual(s) ==
    /\ IsOpen(s) /\ s \in identified /\ isConnected(socket[s].at) /\ ~talking
    /\ ~desk.paused /\ talking' = TRUE
    /\ UNCHANGED <<desk, socket, picked, crossed, hosts, maps, handlers>>

(* finishCall(): the agent goes into the wrap-up.                          *)
CallOver ==
    /\ talking /\ talking' = FALSE
    /\ desk' = [desk EXCEPT !.available = FALSE, !.paused = TRUE]
    /\ UNCHANGED <<socket, picked, crossed, hosts, maps, handlers>>

(* finishPause(), continuing or not, at a process the agent is reached by; *)
(* its check of the socket and its transaction are one step here.          *)
PauseOver(p, continue) ==
    /\ desk.paused /\ p \in alive /\ (continue => isConnected(p))
    /\ desk' = [desk EXCEPT !.paused = FALSE, !.available = continue]
    /\ UNCHANGED <<socket, crossed, hosts, maps, handlers, calls>>

-----------------------------------------------------------------------------
(* What a process loses when it stops: its sockets and all it was doing.   *)
Loses(p) ==
    LET of(set) == {s \in set : socket[s].at = p} IN
    /\ socket' = [s \in Sockets |-> IF socket[s].at = p THEN [socket[s] EXCEPT !.state = "shut"]
                                    ELSE socket[s]]
    /\ controls' = [controls EXCEPT ![p] = NoSocket]
    /\ manualOnly' = manualOnly \ {p} /\ picked' = picked \ {p}
    /\ identified' = identified \ of(identified) /\ claiming' = claiming \ of(claiming)
    /\ asking' = asking \ of(asking) /\ leaving' = leaving \ of(leaving)
    /\ parting' = parting \ of(parting) /\ resetting' = FALSE
    /\ alive' = alive \ {p}
    /\ UNCHANGED <<desk, latest, talking, started, crossed>>

(* onModuleDestroy() and closeAll(): the key of the process is deleted.    *)
Stop(p) == p \in alive /\ Loses(p) /\ beats' = beats \ {p}

(* The process dies: its key outlives it by 30 s.                          *)
Crash(p) == p \in alive /\ Loses(p) /\ UNCHANGED beats

KeyExpires(p) ==
    /\ p \in beats \ alive /\ beats' = beats \ {p}
    /\ UNCHANGED <<desk, socket, resetting, alive, started, crossed, maps,
                   handlers, calls>>

(* onModuleInit(): heartbeat(), and what resetStaleSdrPresence() reads.    *)
Boot(p) ==
    /\ p \notin started
    /\ started' = started \union {p} /\ alive' = alive \union {p} /\ beats' = beats \union {p}
    /\ resetting' = ((desk.available \/ desk.at # Nowhere) /\ desk.at \notin beats)
    /\ UNCHANGED <<desk, socket, crossed, maps, handlers, calls>>

(* Its UPDATE, without a second look.                                      *)
ResetPresence ==
    /\ resetting /\ resetting' = FALSE
    /\ desk' = [desk EXCEPT !.available = FALSE, !.at = Nowhere]
    /\ crossed' = (crossed \/ claiming # {} \/ Reached # {})
    /\ UNCHANGED <<socket, alive, beats, started, maps, handlers, calls>>

StationNext ==
    \/ \E s \in Sockets :
         \/ \E p \in Processes, kind \in Kinds : Upgrade(s, p, kind)
         \/ Claim(s) \/ Identified(s) \/ AskAvailable(s) \/ BecomesAvailable(s)
         \/ GoesOffline(s) \/ Shut(s) \/ controlClosed(s) \/ ReleaseRow(s)
         \/ handleSdrDisconnected(s) \/ PlaceManual(s)
    \/ \E p \in Processes :
         \/ TickReads(p) \/ TickPlaces(p) \/ PauseOver(p, TRUE) \/ PauseOver(p, FALSE)
         \/ Stop(p) \/ Crash(p) \/ KeyExpires(p) \/ Boot(p)
    \/ CallOver \/ ResetPresence

StationSpec == StationInit /\ [][StationNext]_stationVars

-----------------------------------------------------------------------------
Settled ==
    /\ claiming = {} /\ leaving = {} /\ parting = {} /\ ~resetting
    /\ \A s \in identified : IsOpen(s)

(* The last station the agent opened, while it is open, is the one its     *)
(* process reaches and the one the row names, in its mode: older stations  *)
(* close, here or in another process, and it stays the agent's.            *)
LatestKeepsTheRow ==
    Settled /\ ~crossed /\ latest \in identified =>
        /\ Current(latest)
        /\ desk.at = socket[latest].at /\ desk.mode = socket[latest].kind

(* The last station of a process that has not stopped leaves nobody        *)
(* available behind it.                                                    *)
NobodyBehind ==
    Settled /\ ~crossed /\ desk.available /\ started \subseteq alive => Reached # {}

(* A manual station is given no automatic call by the process where the    *)
(* agent is registered, however the wrap-up ended.                         *)
ManualStaysOut ==
    ~crossed => \A p \in picked :
        isConnected(p) /\ desk.at = p => socket[controls[p]].kind = "standard"

StationsInv ==
    StationTypeOK /\ LatestKeepsTheRow /\ NobodyBehind /\ ManualStaysOut
=============================================================================
