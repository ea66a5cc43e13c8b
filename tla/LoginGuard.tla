------------------------------- MODULE LoginGuard -------------------------------
(***************************************************************************)
(* The counter in Redis that slows down guessing of one password.  login() *)
(* reads it, tries the password, and counts a failure; whoever counts the  *)
(* first one sets its life, in a command of its own.                       *)
(***************************************************************************)
EXTENDS Integers, FiniteSets

CONSTANTS Logins, LoginLimit    \* requests in flight; failures before the lock (8)

ASSUME LoginConstants == LoginLimit \in Nat \ {0} /\ IsFiniteSet(Logins)

VARIABLES
    failures,       \* value of the key, 0 when there is none
    failuresEnd,    \* the key has a time to live
    loginPhase,     \* of each request: idle, trying, counted the first failure
    loginOrphaned   \* ghost: a process died before it set the life of the key

loginVars == <<failures, failuresEnd, loginPhase, loginOrphaned>>

LoginInit ==
    failures = 0 /\ failuresEnd = FALSE /\ loginOrphaned = FALSE /\ loginPhase = [a \in Logins |-> "idle"]

Phase(a, from, to) == loginPhase[a] = from /\ loginPhase' = [loginPhase EXCEPT ![a] = to]

(* Wrong on purpose: one more than the limit.                              *)
MayTryOneMore == failures <= LoginLimit

MayTry == failures < LoginLimit

BeginLogin(a) == MayTry /\ Phase(a, "idle", "trying") /\ UNCHANGED <<failures, failuresEnd, loginOrphaned>>

(* Wrong on purpose: the life is set by the first failure above the limit. *)
SetsLifeAbove(n) == n > LoginLimit

SetsLife(n) == n = 1

WrongPassword(a) ==
    /\ Phase(a, "trying", IF SetsLife(failures + 1) THEN "first" ELSE "idle")
    /\ failures' = failures + 1
    /\ UNCHANGED <<failuresEnd, loginOrphaned>>

(* EXPIRE does nothing to a key that is gone.                              *)
SetLife(a) ==
    /\ Phase(a, "first", "idle") /\ failuresEnd' = (failures > 0)
    /\ UNCHANGED <<failures, loginOrphaned>>

RightPassword(a) ==
    /\ Phase(a, "trying", "idle") /\ failures' = 0 /\ failuresEnd' = FALSE
    /\ UNCHANGED loginOrphaned

FailuresExpire ==
    /\ failuresEnd /\ failures' = 0 /\ failuresEnd' = FALSE
    /\ UNCHANGED <<loginPhase, loginOrphaned>>

LoginDies(a) ==
    /\ loginPhase[a] # "idle" /\ loginPhase' = [loginPhase EXCEPT ![a] = "idle"]
    /\ loginOrphaned' = (loginOrphaned \/ loginPhase[a] = "first")
    /\ UNCHANGED <<failures, failuresEnd>>

LoginStep(a) == WrongPassword(a) \/ SetLife(a) \/ RightPassword(a)

LoginNext == FailuresExpire \/ \E a \in Logins : BeginLogin(a) \/ LoginStep(a) \/ LoginDies(a)

(* A request comes to its end, and a key with a life ends (15 minutes).    *)
LoginFairness == WF_loginVars(FailuresExpire) /\ \A a \in Logins : WF_loginVars(LoginStep(a))

LoginSpec == LoginInit /\ [][LoginNext]_loginVars /\ LoginFairness

-----------------------------------------------------------------------------
(* Between two openings of the lock at most the limit and one more for     *)
(* every other request in flight are tried: the key is read and counted in *)
(* two commands (login).                                                   *)
GuessesBounded == failures < LoginLimit + Cardinality(Logins)

(* Who is locked out may try again, unless a process died between counting *)
(* the first failure and setting the life of the key: then the lock stays. *)
LockoutEnds == []<>(failures < LoginLimit \/ loginOrphaned)
=============================================================================
