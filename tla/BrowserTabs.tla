------------------------------ MODULE BrowserTabs ------------------------------
(***************************************************************************)
(* The session in the tabs of one browser.  They share the refresh cookie; *)
(* each keeps an access token in memory, the user it shows, at most one    *)
(* rotation of the cookie in flight (refreshAccessToken()) and a queue of  *)
(* transitions that change the account (runAuthTransition()).  Rotations   *)
(* take turns by a lock of the browser, and new tokens are broadcast.      *)
(***************************************************************************)
EXTENDS Naturals, Sequences

CONSTANTS
    Tabs, FirstTab,     \* the second tab may never be opened
    Accounts, NoAccount,
    MaxTabEvents        \* bound: what the user asks for, tokens that run out,
                        \* requests that fail; a second tab counts as two

ASSUME TabConstants ==
    /\ FirstTab \in Tabs /\ NoAccount \notin Accounts
    /\ MaxTabEvents \in Nat /\ "none" \notin Tabs    \* NoTab is no tab

VARIABLES
    cookie,         \* the account whose refresh token the browser keeps
    opened,         \* the tabs that are open
    token,          \* of each tab: whose access token, and whether it is fresh
    shown,          \* of each tab: session.user, or nobody
    doing,          \* of each tab: its transition and the step it is at
    next,           \* of each tab: the transition that waits behind it
    rotation,       \* of each tab: the rotation in flight
    lockedBy,       \* the tab that holds the lock of the browser
    news,           \* of each tab: the broadcasts it has not handled
    half,           \* a switch whose /me failed: ghost
    tabEvents

tabVars == <<cookie, opened, token, shown, doing, next, rotation, lockedBy, news, half,
             tabEvents>>

Nothing == [op |-> "none", acct |-> NoAccount, at |-> "none"]
NoToken == [acct |-> NoAccount, fresh |-> FALSE]
NoRotation == [at |-> "none", newer |-> FALSE, sent |-> NoAccount, ok |-> FALSE]
Fresh(a) == [acct |-> a, fresh |-> TRUE]
Others(t) == Tabs \ {t}
NoTab == "none"

TabsTypeOK ==
    /\ cookie \in Accounts \union {NoAccount}
    /\ opened \subseteq Tabs /\ lockedBy \in Tabs \union {NoTab}
    /\ \A t \in Tabs :
        /\ token[t] = NoToken \/ token[t].acct \in Accounts
        /\ shown[t] \in Accounts \union {NoAccount}
        /\ doing[t].op \in {"none", "load", "reload", "login", "switch", "accept", "logout"}
        /\ doing[t].at \in {"none", "waits", "refresh", "post", "me", "itself"}
        /\ rotation[t].at \in {"none", "lock", "post", "over"}

TabsInit ==
    /\ cookie \in Accounts \union {NoAccount}
    /\ opened = {} /\ lockedBy = NoTab
    /\ token = [t \in Tabs |-> NoToken] /\ shown = [t \in Tabs |-> NoAccount]
    /\ doing = [t \in Tabs |-> Nothing] /\ next = [t \in Tabs |-> Nothing]
    /\ rotation = [t \in Tabs |-> NoRotation]
    /\ news = [t \in Tabs |-> <<>>] /\ half = [t \in Tabs |-> FALSE]
    /\ tabEvents = 0

-----------------------------------------------------------------------------
Spends(n) == tabEvents + n <= MaxTabEvents /\ tabEvents' = tabEvents + n
Trouble == Spends(1)
Busy(t) == doing[t].op # "none"
Rotating(t) == rotation[t].at \in {"lock", "post"}

(* setAccessToken(): the revision moves on, and the other tabs are told.   *)
Holds(t, a) ==
    /\ token' = [token EXCEPT ![t] = Fresh(a)]
    /\ news' = [s \in Tabs |-> IF s \in Others(t) \cap opened THEN Append(news[s], a) ELSE news[s]]

(* reload(), the first of a tab or a later one.                            *)
Reloads == {"load", "reload"}

(* runAuthTransition(): one at a time, the next behind it.  reload() joins *)
(* the one that is under way.                                              *)
Enters(t, op, a) ==
    LET it == [op |-> op, acct |-> a, at |-> IF op \in Reloads THEN "refresh" ELSE "waits"] IN
    IF ~Busy(t) THEN doing' = [doing EXCEPT ![t] = it] /\ UNCHANGED next
    ELSE /\ next[t].op = "none" /\ UNCHANGED doing
         /\ next' = IF {op, doing[t].op} \subseteq Reloads THEN next
                    ELSE [next EXCEPT ![t] = it]

Reload == [Nothing EXCEPT !.op = "reload", !.at = "refresh"]
Leaves(t) == doing' = [doing EXCEPT ![t] = next[t]] /\ next' = [next EXCEPT ![t] = Nothing]

(* A 401 tells the page to reload the session.                             *)
LeavesRefused(t) ==
    IF next[t].op = "none" THEN doing' = [doing EXCEPT ![t] = Reload] /\ UNCHANGED next
    ELSE Leaves(t)

At(t, op, step) == doing[t].op \in op /\ doing[t].at = step
GoesTo(t, step) == doing' = [doing EXCEPT ![t].at = step] /\ UNCHANGED next

OpensTab(t) ==
    /\ t \notin opened /\ (t = FirstTab \/ FirstTab \in opened)
    /\ opened' = opened \union {t} /\ Enters(t, "load", NoAccount)
    /\ IF t = FirstTab THEN UNCHANGED tabEvents ELSE Spends(2)
    /\ UNCHANGED <<cookie, token, shown, rotation, lockedBy, news, half>>

(* login(), register() and acceptInvite() come from pages that show nobody, *)
(* which appear after the first load; switchAccount(), addAccount() and     *)
(* logout() from those of a session.                                        *)
UserAsks(t, op, a) ==
    /\ t \in opened /\ doing[t].op # "load" /\ Spends(1)
    /\ IF op \in {"login", "accept"} THEN shown[t] = NoAccount ELSE shown[t] # NoAccount
    /\ op = "logout" <=> a = NoAccount
    /\ Enters(t, op, a)
    /\ UNCHANGED <<cookie, opened, token, shown, rotation, lockedBy, news, half>>

-----------------------------------------------------------------------------
(* refreshAccessToken(): whoever asks during a rotation joins it.          *)
Rotates(t) ==
    rotation' = IF Rotating(t) THEN rotation
                ELSE [rotation EXCEPT ![t] = [NoRotation EXCEPT !.at = "lock"]]

(* A request of the page finds its token old, or refused.  During a        *)
(* transition it waits for the token that this installs.                   *)
PageRefreshes(t) ==
    /\ t \in opened /\ shown[t] # NoAccount /\ token[t] # NoToken /\ ~token[t].fresh
    /\ ~Busy(t) /\ ~Rotating(t) /\ Rotates(t)
    /\ UNCHANGED <<cookie, opened, token, shown, doing, next, lockedBy, news, half, tabEvents>>

(* Wrong on purpose: the rotations of two tabs do not wait for each other. *)
LockFreeAlways == TRUE

LockFree == lockedBy = NoTab

(* The lock of the browser.  A token that came meanwhile is enough.        *)
TakesLock(t) ==
    /\ rotation[t].at = "lock" /\ LockFree
    /\ IF token[t] # NoToken /\ rotation[t].newer
       THEN /\ rotation' = [rotation EXCEPT ![t].at = "over", ![t].ok = TRUE]
            /\ UNCHANGED lockedBy
       ELSE /\ rotation' = [rotation EXCEPT ![t].at = "post", ![t].sent = cookie]
            /\ lockedBy' = t
    /\ UNCHANGED <<cookie, opened, token, shown, doing, next, news, half, tabEvents>>

(* The answer brings the next cookie and a token of the account whose      *)
(* cookie was sent.                                                        *)
Rotated(t) ==
    /\ rotation[t].at = "post" /\ rotation[t].sent # NoAccount
    /\ cookie' = rotation[t].sent /\ Holds(t, rotation[t].sent)
    /\ rotation' = [rotation EXCEPT ![t].at = "over", ![t].ok = TRUE] /\ lockedBy' = NoTab
    /\ UNCHANGED <<opened, shown, doing, next, half, tabEvents>>

(* It is refused: the session is over.  A page that asked finds out from   *)
(* the 401 that follows, and reloads the session.                          *)
RotationRefused(t) ==
    /\ rotation[t].at = "post" /\ (rotation[t].sent # NoAccount => Trouble)
    /\ rotation[t].sent = NoAccount => UNCHANGED tabEvents
    /\ token' = [token EXCEPT ![t] = NoToken]
    /\ rotation' = [rotation EXCEPT ![t].at = "over", ![t].ok = FALSE] /\ lockedBy' = NoTab
    /\ IF At(t, Reloads \union {"switch"}, "refresh") \/ next[t].op # "none"
       THEN UNCHANGED <<doing, next>> ELSE Enters(t, "reload", NoAccount)
    /\ UNCHANGED <<cookie, opened, shown, news, half>>

(* Three attempts fail.                                                    *)
RotationFails(t) ==
    /\ rotation[t].at = "post" /\ Trouble
    /\ rotation' = [rotation EXCEPT ![t].at = "over", ![t].ok = FALSE] /\ lockedBy' = NoTab
    /\ UNCHANGED <<cookie, opened, token, shown, doing, next, news, half>>

-----------------------------------------------------------------------------
(* reload(): refresh, then /me.  A failure that may pass leaves the page   *)
(* as it is, if it shows somebody.                                         *)
AsksRefresh(t) ==
    /\ At(t, Reloads \union {"switch"}, "refresh") /\ rotation[t].at = "none" /\ Rotates(t)
    /\ UNCHANGED <<cookie, opened, token, shown, doing, next, lockedBy, news, half, tabEvents>>

(* What waits for the rotation goes on when it is over.                    *)
RefreshOver(t) ==
    /\ rotation[t].at = "over" /\ rotation' = [rotation EXCEPT ![t] = NoRotation]
    /\ CASE At(t, Reloads \union {"switch"}, "refresh") /\ rotation[t].ok ->
              GoesTo(t, IF doing[t].op \in Reloads THEN "me" ELSE "post") /\ UNCHANGED shown
         [] At(t, Reloads, "refresh") /\ ~rotation[t].ok ->
              /\ Leaves(t)
              /\ shown' = IF token[t] # NoToken THEN shown ELSE [shown EXCEPT ![t] = NoAccount]
         [] At(t, {"switch"}, "refresh") /\ ~rotation[t].ok -> Leaves(t) /\ UNCHANGED shown
         [] OTHER -> UNCHANGED <<doing, next, shown>>
    /\ UNCHANGED <<cookie, opened, token, lockedBy, news, half, tabEvents>>

(* Wrong on purpose: nobody waits for the rotation that is in flight.      *)
QuietAlways(t) == TRUE

(* waitForRefresh().                                                       *)
Quiet(t) == rotation[t].at = "none"

(* A switch refreshes an old token first.                                  *)
MayPost(t) == doing[t].op = "accept" => token[t] = NoToken \/ token[t].fresh

Waited(t) ==
    /\ doing[t].at = "waits" /\ Quiet(t) /\ MayPost(t)
    /\ GoesTo(t, IF doing[t].op = "switch" /\ token[t] # NoToken /\ ~token[t].fresh
                 THEN "refresh" ELSE "post")
    /\ UNCHANGED <<cookie, opened, token, shown, rotation, lockedBy, news, half, tabEvents>>

(* acceptInvite() asks a route that is not under /api/auth: json() would   *)
(* refresh an old token for it, and waits for the transition in flight -   *)
(* which is this one.                                                      *)
WaitsForItself(t) ==
    /\ doing[t].at = "waits" /\ Quiet(t) /\ ~MayPost(t) /\ GoesTo(t, "itself")
    /\ UNCHANGED <<cookie, opened, token, shown, rotation, lockedBy, news, half, tabEvents>>

(* The answer to the POST brings the cookie and the token of the account.  *)
Posted(t) ==
    /\ At(t, {"login", "switch", "accept"}, "post")
    /\ cookie' = doing[t].acct /\ Holds(t, doing[t].acct) /\ GoesTo(t, "me")
    /\ UNCHANGED <<opened, shown, rotation, lockedBy, half, tabEvents>>

PostFails(t, refused) ==
    /\ At(t, {"login", "switch", "accept"}, "post") /\ Trouble
    /\ IF refused THEN LeavesRefused(t) ELSE Leaves(t)
    /\ UNCHANGED <<cookie, opened, token, shown, rotation, lockedBy, news, half>>

(* /me answers with the user of the token that was sent.                   *)
Me(t) ==
    /\ doing[t].at = "me" /\ token[t].fresh
    /\ shown' = [shown EXCEPT ![t] = token[t].acct] /\ Leaves(t)
    /\ half' = [half EXCEPT ![t] = FALSE]
    /\ UNCHANGED <<cookie, opened, token, rotation, lockedBy, news, tabEvents>>

(* It fails: reload() gives the session up, the others leave it as it was. *)
MeFails(t) ==
    /\ doing[t].at = "me" /\ (token[t].fresh => Trouble)
    /\ ~token[t].fresh => UNCHANGED tabEvents
    /\ IF doing[t].op \in Reloads \/ token[t].fresh THEN Leaves(t) ELSE LeavesRefused(t)
    /\ IF doing[t].op \in Reloads
       THEN /\ shown' = [shown EXCEPT ![t] = NoAccount]
            /\ token' = [token EXCEPT ![t] = NoToken] /\ half' = [half EXCEPT ![t] = FALSE]
       ELSE UNCHANGED <<shown, token>> /\ half' = [half EXCEPT ![t] = TRUE]
    /\ UNCHANGED <<cookie, opened, rotation, lockedBy, news>>

(* logout(): whatever the API answers, the page forgets.                   *)
LoggedOut(t, answered) ==
    /\ At(t, {"logout"}, "post") /\ Leaves(t)
    /\ cookie' = IF answered THEN NoAccount ELSE cookie
    /\ IF answered THEN UNCHANGED tabEvents ELSE Trouble
    /\ token' = [token EXCEPT ![t] = NoToken] /\ shown' = [shown EXCEPT ![t] = NoAccount]
    /\ half' = [half EXCEPT ![t] = FALSE]
    /\ UNCHANGED <<opened, rotation, lockedBy, news>>

-----------------------------------------------------------------------------
(* A broadcast: the token of another tab, whoever this one shows.          *)
Hears(t) ==
    /\ news[t] # <<>> /\ news' = [news EXCEPT ![t] = Tail(@)]
    /\ token' = [token EXCEPT ![t] = Fresh(Head(news[t]))]
    /\ rotation' = [rotation EXCEPT ![t].newer = Rotating(t)]
    /\ UNCHANGED <<cookie, opened, shown, doing, next, lockedBy, half, tabEvents>>

TokenRunsOut(t) ==
    /\ token[t] # NoToken /\ token[t].fresh /\ Trouble
    /\ token' = [token EXCEPT ![t].fresh = FALSE]
    /\ UNCHANGED <<cookie, opened, shown, doing, next, rotation, lockedBy, news, half>>

(* The timer and the return to a visible tab.                              *)
TimerReloads(t) ==
    /\ t \in opened /\ shown[t] # NoAccount /\ token[t] # NoToken /\ ~token[t].fresh
    /\ ~Busy(t) /\ Enters(t, "reload", NoAccount)
    /\ UNCHANGED <<cookie, opened, token, shown, rotation, lockedBy, news, half, tabEvents>>

TabStep(t) ==
    \/ TakesLock(t) \/ Rotated(t) \/ RotationRefused(t) \/ RotationFails(t)
    \/ AsksRefresh(t) \/ RefreshOver(t) \/ Waited(t) \/ WaitsForItself(t)
    \/ Posted(t) \/ Me(t) \/ MeFails(t)
    \/ \E b \in BOOLEAN : PostFails(t, b) \/ LoggedOut(t, b)

TabsNext ==
    \E t \in Tabs :
        \/ TabStep(t) \/ OpensTab(t) \/ PageRefreshes(t) \/ TimerReloads(t)
        \/ Hears(t) \/ TokenRunsOut(t)
        \/ \E op \in {"login", "accept", "switch", "logout"}, a \in Accounts \union {NoAccount} :
              UserAsks(t, op, a)

TabsSpec == TabsInit /\ [][TabsNext]_tabVars

-----------------------------------------------------------------------------
Still(t) == ~Busy(t) /\ rotation[t].at = "none"

(* As long as one tab is open: when nothing is under way, the page shows   *)
(* the account its requests go out as, and the cookie is of that account.  *)
(* A switch whose /me failed is the exception until the next reload.       *)
AccountAgrees ==
    LET t == FirstTab IN
    opened = {t} /\ Still(t) /\ ~half[t] =>
        /\ shown[t] # NoAccount /\ token[t] # NoToken => shown[t] = token[t].acct
        /\ token[t] # NoToken => cookie = token[t].acct

(* Two tabs never rotate the same cookie at once: the second would look    *)
(* like the use of a token that was stolen.                                *)
RotationsApart ==
    \A s, t \in Tabs : s # t => ~(rotation[s].at = "post" /\ rotation[t].at = "post")

(* Whatever waits in a tab can go on: for the answer to a request, or for  *)
(* the tab that has the lock and waits for one.  Only an invitation may    *)
(* wait for itself, and with it everything that is asked of the tab.       *)
CanMove(t) == ENABLED TabStep(t)

TransitionsMove ==
    \A t \in Tabs : Busy(t) /\ ~CanMove(t) =>
        \/ doing[t].at = "itself"
        \/ rotation[t].at = "lock" /\ lockedBy # NoTab /\ CanMove(lockedBy)

TabsInv == TabsTypeOK /\ AccountAgrees /\ RotationsApart /\ TransitionsMove
=============================================================================
