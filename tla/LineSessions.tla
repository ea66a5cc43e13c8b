----------------------------- MODULE LineSessions -----------------------------
(***************************************************************************)
(* The lines of a company and the sessions Waxum keeps for them.  Requests *)
(* of the panel and of CRMs create, remove, pair and reconnect a line; the *)
(* dialer copies the status of the sessions into the rows and recovers a   *)
(* line without audio.  Each reads a row, asks Waxum and writes the row by *)
(* its id, whatever others have made of it.  A new session is asked for    *)
(* under a lock with a TTL, and not while a 429 is remembered.  Of a row's *)
(* status it matters whether the line is listed or removed: connected,     *)
(* disconnected and reconnecting are listed.                               *)
(***************************************************************************)
EXTENDS Naturals, FiniteSets

CONSTANTS
    Rows,           \* whatsapp_numbers, some not yet inserted
    WaxSessions,    \* the sessions Waxum may come to have, in the order it makes them
    Workers,        \* the requests and rounds that run, any number of times
    NoSession,
    NoWorker        \* the lock is free

ASSUME LineSessionConstants ==
    WaxSessions \subseteq Nat /\ NoSession \notin WaxSessions \union Rows /\ NoWorker \notin Workers

LineStatus == {"none", "listed", "removed"}
Operations == {"none", "create", "qr", "reconnect", "remove", "sync", "recover"}
Steps == {"idle", "asks", "queues", "locked", "posts", "made", "undo", "looks", "writes",
          "deletes", "removes"}

VARIABLES
    number,         \* of each row, its status and session
    waxum,          \* of each session: "unborn", "there", "gone"
    cooling,        \* zapcall:waxum:create-session:cooldown
    createLock,     \* zapcall:waxum:create-session:lock
    worker,         \* what each does: operation, row, step, session in hand
    overrun,        \* the lock ran out under a creation
    lost            \* sessions a named event has made nobody's

sessionVars == <<number, waxum, cooling, createLock, worker, overrun, lost>>

Rest == [op |-> "none", row |-> NoSession, step |-> "idle", session |-> NoSession]

LineSessionTypeOK ==
    /\ number \in [Rows -> [status : LineStatus, session : WaxSessions \union {NoSession}]]
    /\ waxum \in [WaxSessions -> {"unborn", "there", "gone"}]
    /\ cooling \in BOOLEAN /\ overrun \in BOOLEAN
    /\ createLock \in Workers \union {NoWorker}
    /\ worker \in [Workers -> [op : Operations, row : Rows \union {NoSession}, step : Steps,
                               session : WaxSessions \union {NoSession}]]
    /\ lost \subseteq WaxSessions

SessionInit ==
    /\ number = [r \in Rows |-> [status |-> "none", session |-> NoSession]]
    /\ waxum = [s \in WaxSessions |-> "unborn"]
    /\ worker = [w \in Workers |-> Rest]
    /\ cooling = FALSE /\ createLock = NoWorker /\ overrun = FALSE
    /\ lost = {}

Newborn(s) ==
    /\ waxum[s] = "unborn" /\ \A t \in WaxSessions : waxum[t] = "unborn" => s <= t
    /\ waxum' = [waxum EXCEPT ![s] = "there"]

Exists(s) == s # NoSession /\ waxum[s] = "there"
Does(w, step) == worker[w].step = step
Goes(w, step) == worker' = [worker EXCEPT ![w].step = step]
Done(w) == worker' = [worker EXCEPT ![w] = Rest]
RowOf(w) == number[worker[w].row]
Freed(w) == IF createLock = w THEN NoWorker ELSE createLock     \* releaseLock()

-----------------------------------------------------------------------------
(* create(): a row that is not there yet, and nobody's else.               *)
Create(w, r) ==
    /\ Does(w, "idle") /\ number[r].status = "none"
    /\ \A v \in Workers : worker[v].row # r
    /\ worker' = [worker EXCEPT ![w] = [Rest EXCEPT !.op = "create", !.row = r, !.step = "asks"]]
    /\ UNCHANGED <<number, waxum, cooling, createLock, overrun, lost>>

(* qr() and reconnect(): find() has removed lines too.                     *)
Open(w, r, op) ==
    /\ Does(w, "idle") /\ number[r].status # "none" /\ op \in {"qr", "reconnect"}
    /\ worker' = [worker EXCEPT ![w] = [op |-> op, row |-> r, step |-> "looks",
                                        session |-> number[r].session]]
    /\ UNCHANGED <<number, waxum, cooling, createLock, overrun, lost>>

(* syncNumberStatuses(): the rows that are not removed.                    *)
Sync(w, r) ==
    /\ Does(w, "idle") /\ number[r].status \notin {"none", "removed"}
    /\ worker' = [worker EXCEPT ![w] = [op |-> "sync", row |-> r, step |-> "looks",
                                        session |-> number[r].session]]
    /\ UNCHANGED <<number, waxum, cooling, createLock, overrun, lost>>

(* recoverWaxumSession(), once per session, after a call without audio:    *)
(* whatever the row has become during the call.                            *)
Recover(w, r) ==
    /\ Does(w, "idle") /\ number[r].status # "none"
    /\ \A v \in Workers : worker[v].op = "recover" => worker[v].session # number[r].session
    /\ number' = [number EXCEPT ![r].status = "listed"]
    /\ worker' = [worker EXCEPT ![w] = [op |-> "recover", row |-> r, step |-> "looks",
                                        session |-> number[r].session]]
    /\ UNCHANGED <<waxum, cooling, createLock, overrun, lost>>

(* What Waxum says of the session: a qr and a reconnect of one it does not *)
(* know ask for another, a reconnect of one it knows writes nothing.       *)
Looks(w) ==
    LET there == Exists(worker[w].session)
        op == worker[w].op IN
    /\ Does(w, "looks")
    /\ worker' = [worker EXCEPT ![w] =
          IF op \in {"qr", "reconnect"} /\ ~there
          THEN [@ EXCEPT !.step = "asks", !.session = NoSession]
          ELSE IF op = "reconnect" THEN Rest
          ELSE [@ EXCEPT !.step = "writes"]]
    /\ UNCHANGED <<number, waxum, cooling, createLock, overrun, lost>>

(* Waxum does not answer: the row keeps its status, unless it is being     *)
(* recovered.                                                              *)
NoAnswer(w) ==
    /\ Does(w, "looks") /\ Done(w)
    /\ number' = IF worker[w].op = "recover"
                 THEN [number EXCEPT ![worker[w].row].status = "listed"] ELSE number
    /\ UNCHANGED <<waxum, cooling, createLock, overrun, lost>>

(* refreshNumberStatus(), and the UPDATE of a round, by the id of the row. *)
Writes(w) ==
    /\ Does(w, "writes") /\ Done(w)
    /\ number' = [number EXCEPT ![worker[w].row].status = "listed"]
    /\ UNCHANGED <<waxum, cooling, createLock, overrun, lost>>

-----------------------------------------------------------------------------
(* createWaxumSession(), up to the lock.                                   *)
AsksCooldown(w) ==
    /\ Does(w, "asks")
    /\ IF cooling THEN Done(w) ELSE Goes(w, "queues")
    /\ UNCHANGED <<number, waxum, cooling, createLock, overrun, lost>>

acquireLock(w) ==
    /\ Does(w, "queues")
    /\ IF createLock # NoWorker THEN Done(w) /\ UNCHANGED createLock
       ELSE createLock' = w /\ Goes(w, "locked")
    /\ UNCHANGED <<number, waxum, cooling, overrun, lost>>

(* Wrong on purpose: one look at the cooldown, before the lock.            *)
LooksOnce(w) ==
    /\ Does(w, "locked") /\ Goes(w, "posts")
    /\ UNCHANGED <<number, waxum, cooling, createLock, overrun, lost>>

(* The second look at the cooldown, and the request goes out.              *)
LooksAgain(w) ==
    /\ Does(w, "locked")
    /\ IF cooling THEN Done(w) /\ createLock' = Freed(w)
       ELSE Goes(w, "posts") /\ UNCHANGED createLock
    /\ UNCHANGED <<number, waxum, cooling, overrun, lost>>

(* Its answer: a session,                                                  *)
Made(w, s) ==
    /\ Does(w, "posts") /\ Newborn(s)
    /\ worker' = [worker EXCEPT ![w].step = "made", ![w].session = s]
    /\ createLock' = Freed(w)
    /\ UNCHANGED <<number, cooling, overrun, lost>>

(* 429, remembered in Redis,                                               *)
Limited(w) ==
    /\ Does(w, "posts") /\ Done(w)
    /\ cooling' = TRUE /\ createLock' = Freed(w)
    /\ UNCHANGED <<number, waxum, overrun, lost>>

(* an error, and nobody knows of the session that may have been made,      *)
PostFails(w) ==
    /\ Does(w, "posts") /\ Done(w) /\ createLock' = Freed(w)
    /\ \/ UNCHANGED <<waxum, lost>>
       \/ \E s \in WaxSessions :
             Newborn(s) /\ lost' = lost \union {s}
    /\ UNCHANGED <<number, cooling, overrun>>

(* or a 502, 503 or 504, on which request() posts once more.               *)
PostsAgain(w, s) ==
    /\ Does(w, "posts") /\ Newborn(s)
    /\ lost' = lost \union {s}
    /\ UNCHANGED <<number, cooling, createLock, worker, overrun>>

(* create(): the row, unless the plan or the database refuses it.          *)
Inserts(w) ==
    /\ Does(w, "made") /\ worker[w].op = "create" /\ Done(w)
    /\ number' = [number EXCEPT ![worker[w].row] =
                     [status |-> "listed", session |-> worker[w].session]]
    /\ UNCHANGED <<waxum, cooling, createLock, overrun, lost>>

(* Wrong on purpose: the refusal goes straight back to the caller.         *)
RefusedAtOnce(w) ==
    /\ Does(w, "made") /\ worker[w].op = "create" /\ Done(w)
    /\ UNCHANGED <<number, waxum, cooling, createLock, overrun, lost>>

Refused(w) ==
    /\ Does(w, "made") /\ worker[w].op = "create" /\ Goes(w, "undo")
    /\ UNCHANGED <<number, waxum, cooling, createLock, overrun, lost>>

(* Its session is deleted, if Waxum does as asked.                         *)
Undoes(w, done) ==
    LET s == worker[w].session IN
    /\ Does(w, "undo") /\ Done(w)
    /\ waxum' = IF done THEN [waxum EXCEPT ![s] = "gone"] ELSE waxum
    /\ lost' = IF done THEN lost ELSE lost \union {s}
    /\ UNCHANGED <<number, cooling, createLock, overrun>>

(* replaceMissingSession(): the row takes the new one, whatever it has by  *)
(* now; a qr then reads its status.                                        *)
Replaces(w) ==
    LET old == RowOf(w).session IN
    /\ Does(w, "made") /\ worker[w].op \in {"qr", "reconnect"}
    /\ number' = [number EXCEPT ![worker[w].row] =
                     [status |-> "listed", session |-> worker[w].session]]
    /\ lost' = IF Exists(old) THEN lost \union {old} ELSE lost
    /\ IF worker[w].op = "qr" THEN Goes(w, "looks") ELSE Done(w)
    /\ UNCHANGED <<waxum, cooling, createLock, overrun>>

-----------------------------------------------------------------------------
(* remove(), when it finds no call of the line: the session goes first, and *)
(* then the row.                                                            *)
RemoveLine(w, r) ==
    /\ Does(w, "idle") /\ number[r].status # "none"
    /\ worker' = [worker EXCEPT ![w] = [op |-> "remove", row |-> r, step |-> "deletes",
                                        session |-> number[r].session]]
    /\ UNCHANGED <<number, waxum, cooling, createLock, overrun, lost>>

Deletes(w) ==
    /\ Does(w, "deletes")
    /\ \/ Goes(w, "removes") /\ waxum' = [waxum EXCEPT ![worker[w].session] = "gone"]
       \/ Done(w) /\ UNCHANGED waxum
    /\ UNCHANGED <<number, cooling, createLock, overrun, lost>>

Removes(w) ==
    /\ Does(w, "removes") /\ Done(w)
    /\ number' = [number EXCEPT ![worker[w].row].status = "removed"]
    /\ lost' = IF Exists(RowOf(w).session) THEN lost \union {RowOf(w).session} ELSE lost
    /\ UNCHANGED <<waxum, cooling, createLock, overrun>>

-----------------------------------------------------------------------------
(* A process dies: its session is nobody's, its lock stays for 30 s.       *)
Dies(w) ==
    /\ ~Does(w, "idle") /\ Done(w)
    /\ lost' = IF Does(w, "made") \/ Does(w, "undo")
               THEN lost \union {worker[w].session} ELSE lost
    /\ UNCHANGED <<number, waxum, cooling, createLock, overrun>>

LockRunsOut ==
    /\ createLock # NoWorker /\ createLock' = NoWorker
    /\ overrun' = (overrun \/ Does(createLock, "posts") \/ Does(createLock, "locked"))
    /\ UNCHANGED <<number, waxum, cooling, worker, lost>>

CooldownEnds ==
    /\ cooling /\ cooling' = FALSE
    /\ UNCHANGED <<number, waxum, createLock, worker, overrun, lost>>

(* Waxum forgets a session.                                                *)
Forgets(s) ==
    /\ Exists(s) /\ waxum' = [waxum EXCEPT ![s] = "gone"]
    /\ UNCHANGED <<number, cooling, createLock, worker, overrun, lost>>

SessionNext ==
    \/ \E w \in Workers, r \in Rows :
         \/ Create(w, r) \/ Sync(w, r) \/ Recover(w, r) \/ RemoveLine(w, r)
         \/ \E op \in {"qr", "reconnect"} : Open(w, r, op)
    \/ \E w \in Workers :
         \/ Looks(w) \/ NoAnswer(w) \/ Writes(w)
         \/ AsksCooldown(w) \/ acquireLock(w) \/ LooksAgain(w)
         \/ Limited(w) \/ PostFails(w)
         \/ \E s \in WaxSessions : Made(w, s) \/ PostsAgain(w, s)
         \/ Inserts(w) \/ Refused(w) \/ Undoes(w, TRUE) \/ Undoes(w, FALSE) \/ Replaces(w)
         \/ Deletes(w) \/ Removes(w) \/ Dies(w)
    \/ LockRunsOut \/ CooldownEnds
    \/ \E s \in WaxSessions : Forgets(s)

SessionSpec == SessionInit /\ [][SessionNext]_sessionVars

-----------------------------------------------------------------------------
Posting == {w \in Workers : Does(w, "posts")}

(* Sessions are asked for one at a time by all the processes together, and *)
(* not while a 429 is remembered, as long as no creation outlives its lock. *)
CreationsInTurn == ~overrun => Cardinality(Posting) <= 1 /\ (cooling => Posting = {})

InHand(s) == \E w \in Workers : worker[w].session = s /\ worker[w].step \in {"made", "undo"}

(* A session at Waxum has its line: a creation that is refused, and a line *)
(* that is removed, leave none behind, but for the events that name it     *)
(* lost - an answer or a deletion that failed, a death, and two requests   *)
(* that replace the session of one line, or one that removes it meanwhile. *)
NoSessionForgotten ==
    \A s \in WaxSessions : Exists(s) =>
        \/ s \in lost \/ InHand(s)
        \/ \E r \in Rows : number[r].session = s /\ number[r].status # "removed"

(* Two lines never share a session.                                        *)
OwnSession ==
    \A q, r \in Rows : q # r /\ number[q].session # NoSession =>
        number[q].session # number[r].session

LineSessionsInv ==
    LineSessionTypeOK /\ CreationsInTurn /\ NoSessionForgotten /\ OwnSession
=============================================================================
