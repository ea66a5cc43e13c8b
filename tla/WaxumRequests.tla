---------------------------- MODULE WaxumRequests ----------------------------
(***************************************************************************)
(* The client of Waxum in one process.  The requests of one session form a *)
(* chain: each starts when the one before it in the chain has ended, well  *)
(* or badly, and the map of chains holds the last of each only as long as  *)
(* it runs or waits.  A request is tried again when the gateway fails, and *)
(* its attempts keep an interval in time.                                  *)
(***************************************************************************)
EXTENDS Naturals, FiniteSets

CONSTANTS
    Requests,       \* the requests made
    Chains,         \* queueKey(): one per session, and the control plane
    NoRequest,
    MaxAttempts,    \* 3, or 1 for what must not be repeated
    Interval,       \* requestIntervalMs
    LastMoment      \* bound: the clock

ASSUME WaxumRequestConstants ==
    /\ IsFiniteSet(Requests) /\ NoRequest \notin Requests \union Chains
    /\ MaxAttempts \in Nat \ {0} /\ Interval \in Nat /\ LastMoment \in Nat

VARIABLES
    moment,         \* the clock
    requestChains,  \* of each chain, its last request, or none
    nextRequestAt,  \* of each chain, when its next attempt may start
    request         \* of each: chain, the one before it, state, attempts, earliest start

requestVars == <<moment, requestChains, nextRequestAt, request>>

RequestStates == {"new", "queued", "slot", "fetching", "ended", "settled"}

RequestTypeOK ==
    /\ moment \in 0..LastMoment
    /\ requestChains \in [Chains -> Requests \union {NoRequest}]
    /\ nextRequestAt \in [Chains -> 0..(LastMoment + 2 * Interval)]
    /\ \A r \in Requests :
          /\ request[r].state \in RequestStates
          /\ request[r].attempt \in 0..MaxAttempts

RequestInit ==
    /\ moment = 0
    /\ requestChains = [k \in Chains |-> NoRequest]
    /\ nextRequestAt = [k \in Chains |-> 0]
    /\ request = [r \in Requests |-> [chain |-> NoRequest, previous |-> NoRequest,
                                      state |-> "new", attempt |-> 0, at |-> 0, seq |-> 0]]

MadeSoFar == Cardinality({r \in Requests : request[r].state # "new"})
SetTo(r, state) == request' = [request EXCEPT ![r].state = state]

(* request(): behind the last of its chain.                                *)
Request(r, k) ==
    /\ request[r].state = "new"
    /\ request' = [request EXCEPT ![r] = [chain |-> k, previous |-> requestChains[k],
                                          state |-> "queued", attempt |-> 0, at |-> 0,
                                          seq |-> MadeSoFar + 1]]
    /\ requestChains' = [requestChains EXCEPT ![k] = r]
    /\ UNCHANGED <<moment, nextRequestAt>>

(* waitForRequestSlot(): the slot is taken before the wait for it.         *)
TakesSlot(r) ==
    LET k == request[r].chain
        start == IF nextRequestAt[k] > moment THEN nextRequestAt[k] ELSE moment IN
    /\ nextRequestAt' = [nextRequestAt EXCEPT ![k] = start + Interval]
    /\ request' = [request EXCEPT ![r].state = "slot", ![r].at = start]
    /\ UNCHANGED <<moment, requestChains>>

(* previous.then(run, run): whatever became of it.                         *)
RunsRequest(r) ==
    LET previous == request[r].previous IN
    /\ request[r].state = "queued"
    /\ previous # NoRequest => request[previous].state = "settled"
    /\ TakesSlot(r)

Fetches(r) ==
    /\ request[r].state = "slot" /\ moment >= request[r].at
    /\ request' = [request EXCEPT ![r].state = "fetching", ![r].attempt = @ + 1]
    /\ UNCHANGED <<moment, requestChains, nextRequestAt>>

(* An answer, an error or the time-out of the fetch.                       *)
RequestAnswered(r) ==
    /\ request[r].state = "fetching" /\ SetTo(r, "ended")
    /\ UNCHANGED <<moment, requestChains, nextRequestAt>>

(* 502, 503 or 504, and an attempt is left.                                *)
GatewayFails(r) ==
    /\ request[r].state = "fetching" /\ request[r].attempt < MaxAttempts /\ TakesSlot(r)

(* Wrong on purpose: the chain is forgotten with whoever waits in it.      *)
SettlesAny(r) ==
    /\ request[r].state = "ended" /\ SetTo(r, "settled")
    /\ requestChains' = [requestChains EXCEPT ![request[r].chain] = NoRequest]
    /\ UNCHANGED <<moment, nextRequestAt>>

(* settled: the map forgets a chain whose last request this was.           *)
Settles(r) ==
    LET k == request[r].chain IN
    /\ request[r].state = "ended" /\ SetTo(r, "settled")
    /\ requestChains' = IF requestChains[k] = r
                        THEN [requestChains EXCEPT ![k] = NoRequest] ELSE requestChains
    /\ UNCHANGED <<moment, nextRequestAt>>

MomentPasses ==
    /\ moment < LastMoment /\ moment' = moment + 1
    /\ UNCHANGED <<requestChains, nextRequestAt, request>>

RequestNext ==
    \/ \E r \in Requests :
         \/ \E k \in Chains : Request(r, k)
         \/ RunsRequest(r) \/ Fetches(r) \/ RequestAnswered(r) \/ GatewayFails(r) \/ Settles(r)
    \/ MomentPasses

RequestSpec == RequestInit /\ [][RequestNext]_requestVars

-----------------------------------------------------------------------------
UnderWay(r) == request[r].state \in {"slot", "fetching"}
Unsettled(r) == request[r].state \notin {"new", "settled"}

(* One request of a session runs at a time, in the order they were made.   *)
InOrder ==
    \A q, r \in Requests :
        UnderWay(r) /\ request[q].chain = request[r].chain /\ request[q].seq < request[r].seq
        => request[q].state \in {"ended", "settled"}

OneRuns ==
    \A q, r \in Requests :
        q # r /\ request[q].chain = request[r].chain => ~(UnderWay(q) /\ UnderWay(r))

(* The map holds a chain exactly as long as something in it waits or runs. *)
NoChainKept ==
    \A k \in Chains :
        requestChains[k] # NoRequest <=> \E r \in Requests : request[r].chain = k /\ Unsettled(r)

RequestsInv == RequestTypeOK /\ InOrder /\ OneRuns /\ NoChainKept
=============================================================================
