------------------------------ MODULE MetricsView ------------------------------
(***************************************************************************)
(* useMetrics(): the page of the metrics asks for a summary and for        *)
(* rankings while the filters change.  Answers come in any order; a        *)
(* request for a query that is in flight is joined (useSingleFlight()).    *)
(***************************************************************************)
EXTENDS Naturals, FiniteSets, FiniteSetsExt

CONSTANTS
    Queries,        \* the filters of the page
    NoQuery,        \* nothing is shown
    Rankings,       \* of SDRs, of folders, of numbers
    MaxLooks        \* bound: filters changed, rankings opened, answers lost

ASSUME MetricsViewConstants == NoQuery \notin Queries /\ MaxLooks \in Nat

VARIABLES
    filters,        \* the query of the last render: currentQueryKey
    unrun,          \* the effects of that render have not run
    summary,        \* the query whose summary is shown
    summaryId,      \* the request that counts: a query and its turn
    flights,        \* the summaries in flight: a query and its turn
    ranking,        \* of each: the query whose ranking is shown
    rankingId,      \* the number of ranking requests
    asking,         \* the rankings in flight
    loaded,         \* rankingKeys
    looks

viewVars == <<filters, unrun, summary, summaryId, flights, ranking, rankingId, asking,
              loaded, looks>>

MetricsViewTypeOK ==
    /\ filters \in Queries /\ unrun \in BOOLEAN
    /\ summary \in Queries \union {NoQuery}
    /\ \A f \in flights : f.query \in Queries
    /\ ranking \in [Rankings -> Queries \union {NoQuery}]
    /\ loaded \subseteq Queries \X Rankings

MetricsViewInit ==
    /\ filters \in Queries /\ unrun = TRUE
    /\ summary = NoQuery /\ summaryId = 0 /\ flights = {}
    /\ ranking = [r \in Rankings |-> NoQuery] /\ rankingId = 0 /\ asking = {} /\ loaded = {}
    /\ looks = 0

-----------------------------------------------------------------------------
Looks == looks < MaxLooks /\ looks' = looks + 1
InFlight(q) == \E f \in flights : f.query = q

(* requestId, counted from the last request in flight: only their order    *)
(* matters.                                                                *)
Turn == Max({0} \union {f.turn : f \in flights}) + 1

(* loadSummary(), joined by whoever asks the same meanwhile.               *)
Loads ==
    IF InFlight(filters) THEN UNCHANGED <<flights, summaryId>>
    ELSE /\ flights' = flights \union {[query |-> filters, turn |-> Turn]}
         /\ summaryId' = Turn

SetFilters(q) ==
    /\ q # filters /\ Looks /\ filters' = q /\ unrun' = TRUE
    /\ UNCHANGED <<summary, summaryId, flights, ranking, rankingId, asking, loaded>>

(* The effect of a new query: the rankings go, the summary stays until the *)
(* next is there.                                                          *)
Effects ==
    /\ unrun /\ unrun' = FALSE
    /\ rankingId' = rankingId + 1 /\ loaded' = {}
    /\ ranking' = [r \in Rankings |-> NoQuery]
    /\ Loads
    /\ UNCHANGED <<filters, summary, asking, looks>>

(* Wrong on purpose: once something is shown nothing refreshes it.         *)
RefreshesFirst ==
    /\ ~unrun /\ summary = NoQuery /\ Loads
    /\ UNCHANGED <<filters, unrun, summary, ranking, rankingId, asking, loaded, looks>>

(* Every half minute, and when the user asks.                              *)
Refreshes ==
    /\ ~unrun /\ Loads
    /\ UNCHANGED <<filters, unrun, summary, ranking, rankingId, asking, loaded, looks>>

(* Wrong on purpose: only the number of the request is compared.           *)
CountsByTurn(f) == f.turn = summaryId

(* The answer counts if it is the last asked and the filters are the same. *)
Counts(f) == f.query = filters /\ f.turn = summaryId

Answered(f) ==
    /\ f \in flights /\ flights' = flights \ {f}
    /\ summary' = IF Counts(f) THEN f.query ELSE summary
    /\ UNCHANGED <<filters, unrun, summaryId, ranking, rankingId, asking, loaded, looks>>

AnswerLost(f) ==
    /\ f \in flights /\ Looks /\ flights' = flights \ {f}
    /\ UNCHANGED <<filters, unrun, summary, summaryId, ranking, rankingId, asking, loaded>>

-----------------------------------------------------------------------------
(* loadRanking(): the last request counts, whichever ranking it is for.    *)
OpensRanking(r) ==
    /\ ~unrun /\ <<filters, r>> \notin loaded /\ Looks
    /\ rankingId' = rankingId + 1
    /\ asking' = asking \union {[query |-> filters, of |-> r, id |-> rankingId + 1]}
    /\ UNCHANGED <<filters, unrun, summary, summaryId, flights, ranking, loaded>>

RankingCounts(a) == a.query = filters /\ a.id = rankingId

RankingAnswered(a) ==
    /\ a \in asking /\ asking' = asking \ {a}
    /\ ranking' = IF RankingCounts(a) THEN [ranking EXCEPT ![a.of] = a.query] ELSE ranking
    /\ loaded' = IF RankingCounts(a) THEN loaded \union {<<a.query, a.of>>} ELSE loaded
    /\ UNCHANGED <<filters, unrun, summary, summaryId, flights, rankingId, looks>>

MetricsViewNext ==
    \/ \E q \in Queries : SetFilters(q)
    \/ Effects \/ Refreshes
    \/ \E f \in flights : Answered(f) \/ AnswerLost(f)
    \/ \E r \in Rankings : OpensRanking(r)
    \/ \E a \in asking : RankingAnswered(a)

ViewAnswers == \E f \in flights : Answered(f)

MetricsViewSpec ==
    /\ MetricsViewInit /\ [][MetricsViewNext]_viewVars
    /\ WF_viewVars(Effects) /\ WF_viewVars(Refreshes) /\ WF_viewVars(ViewAnswers)

-----------------------------------------------------------------------------
(* A ranking that is shown is of the filters that are set, and what counts *)
(* as loaded is shown.                                                     *)
RankingsOfFilters ==
    ~unrun =>
        /\ \A r \in Rankings : ranking[r] \in {filters, NoQuery}
        /\ \A l \in loaded : l[1] = filters /\ ranking[l[2]] = filters

(* No answer to an earlier query replaces what is shown.                   *)
SummaryOfFilters == [][summary' # summary => summary' = filters]_viewVars

(* The summary follows the filters, whatever order the answers come in,    *)
(* even when they go back to a query whose answer no longer counts.        *)
SummaryFollows == <>[](summary = filters)
=============================================================================
