--------------------------- MODULE HybridRetrieval ---------------------------
(***************************************************************************)
(* From a query to the context of a prompt (services/ai/rag: pipeline.py,  *)
(* retriever.py, reranker.py, context_injector.py): three ranked answers   *)
(* are fused by reciprocal rank, the best are scored again, and the        *)
(* documents that fit the token budget are taken in the order of their     *)
(* scores.  Fused scores are exact fractions here, over one denominator.   *)
(* The embedder, the vector store and the gateway are passed in: they must *)
(* be of the caller's making, since the repository's own gateway has       *)
(* neither embed nor rerank, and its PostgreSQL store no tenant's table.   *)
(***************************************************************************)
EXTENDS Integers, Sequences, FiniteSets, SequencesExt, Functions

CONSTANTS
    Documents,
    Tokens,             \* document -> its estimated tokens
    TOP_K, RRF_K, BUDGET,
    Scale,              \* the common denominator of all reciprocal ranks
    MaxRelevance        \* bound: the scores of the reranker, 0..MaxRelevance

ASSUME RetrievalAssumption ==
    /\ IsFiniteSet(Documents) /\ Tokens \in [Documents -> Nat]
    /\ TOP_K \in Nat /\ RRF_K \in Nat /\ BUDGET \in Nat /\ MaxRelevance \in Nat
    /\ Scale \in Nat \ {0} /\ \A i \in 1..Cardinality(Documents) : Scale % (RRF_K + i) = 0

VARIABLES
    answers,            \* signal -> the documents it answered, best first
    fused, reranked, context,
    relevance,          \* document -> the reranker's score
    stage

retrievalVars == <<answers, fused, reranked, context, relevance, stage>>

\* The default weights, in tenths.
Weights == [dense |-> 5, sparse |-> 3, graph |-> 2]
Signals == DOMAIN Weights
Rankings == UNION {{s \in [1..n -> Documents] : IsInjective(s)} : n \in 0..Cardinality(Documents)}

RetrievalInit ==
    /\ answers = [s \in Signals |-> <<>>]
    /\ fused = <<>> /\ reranked = <<>> /\ context = <<>>
    /\ relevance = [d \in Documents |-> 0] /\ stage = "query"

\* The embedding of the query and the vector store's search, and the two
\* optional indexes: an index that is not configured answers nothing.
RetrieveSignals(dense, sparse, graph) ==
    /\ stage = "query"
    /\ answers' = [dense |-> dense, sparse |-> sparse, graph |-> graph]
    /\ stage' = "answered"
    /\ UNCHANGED <<fused, reranked, context, relevance>>
-----------------------------------------------------------------------------
Found == UNION {ToSet(answers[s]) : s \in Signals}
Rank(s, d) == CHOOSE i \in DOMAIN answers[s] : answers[s][i] = d

\* A signal's share of a score: its weight by the reciprocal of the rank.
Share(s, d) == IF d \in ToSet(answers[s]) THEN Weights[s] * (Scale \div (RRF_K + Rank(s, d))) ELSE 0
RrfScore(d) == Share("dense", d) + Share("sparse", d) + Share("graph", d)

\* The orders sorted(..., reverse=True) may give: the ids come from a set.
SortedBy(S, Score(_)) ==
    {o \in SetToSeqs(S) : \A i, j \in DOMAIN o : i < j => Score(o[i]) >= Score(o[j])}
FusedOrders(S) == SortedBy(S, RrfScore)

TopOf(s, k) == SubSeq(s, 1, IF Len(s) < k THEN Len(s) ELSE k)

\* retrieve asks for twice as many as the reranker will leave.
FuseRanks ==
    /\ stage = "answered"
    /\ \E order \in FusedOrders(Found) : fused' = TopOf(order, 2 * TOP_K)
    /\ stage' = "fused"
    /\ UNCHANGED <<answers, reranked, context, relevance>>

\* The places of the fused documents in the order of a stable sort.
RerankedPlaces(scores) ==
    {p \in SetToSeqs(DOMAIN fused) : \A i, j \in DOMAIN p : i < j =>
        \/ scores[fused[p[i]]] > scores[fused[p[j]]]
        \/ scores[fused[p[i]]] = scores[fused[p[j]]] /\ p[i] < p[j]}

\* rerank: new scores, the sort, and the cut.
Rerank(scores) ==
    /\ stage = "fused"
    /\ relevance' = scores
    /\ \E p \in RerankedPlaces(scores) : reranked' = TopOf([i \in DOMAIN p |-> fused[p[i]]], TOP_K)
    /\ stage' = "reranked"
    /\ UNCHANGED <<answers, fused, context>>

\* Mutant of TakeIfFits: the first document that does not fit ends the loop.
StopAtMiss(acc, d) ==
    IF Tokens[d] > acc.remaining THEN [acc EXCEPT !.remaining = 0]
    ELSE [taken |-> Append(acc.taken, d), remaining |-> acc.remaining - Tokens[d]]

\* The loop of build_context: what does not fit is passed over.
TakeIfFits(acc, d) ==
    IF Tokens[d] > acc.remaining THEN acc
    ELSE [taken |-> Append(acc.taken, d), remaining |-> acc.remaining - Tokens[d]]

AfterTurn ==
    LET turn[i \in 0..Len(reranked)] ==
            IF i = 0 THEN [taken |-> <<>>, remaining |-> BUDGET]
            ELSE TakeIfFits(turn[i - 1], reranked[i])
    IN turn

BuildContext ==
    /\ stage = "reranked"
    /\ context' = AfterTurn[Len(reranked)].taken
    /\ stage' = "context"
    /\ UNCHANGED <<answers, fused, reranked, relevance>>

RetrievalNext ==
    \/ \E dense, sparse, graph \in Rankings : RetrieveSignals(dense, sparse, graph)
    \/ FuseRanks \/ BuildContext
    \/ \E scores \in [Documents -> 0..MaxRelevance] : Rerank(scores)
-----------------------------------------------------------------------------
RetrievalTypeOK ==
    /\ stage \in {"query", "answered", "fused", "reranked", "context"}
    /\ ToSet(fused) \subseteq Documents /\ ToSet(context) \subseteq Documents

\* A document stands above another if every signal that answered the other
\* answered it, and in a better place.
Above(a, b) ==
    /\ a # b
    /\ \A s \in Signals : b \in ToSet(answers[s]) => a \in ToSet(answers[s]) /\ Rank(s, a) < Rank(s, b)

\* Fusion never puts a document before one that all signals agree is better,
\* and the cut never drops the better one of the two.
FusionRespectsAgreement ==
    stage \in {"fused", "reranked"} =>
        \A i \in DOMAIN fused, a \in Found :
            Above(a, fused[i]) => \E j \in 1..(i - 1) : fused[j] = a

\* The context fits its budget, and a reranked document is missing only if it
\* did not fit beside the ones taken before it.
Spent(docs) ==
    LET sum[n \in 0..Len(docs)] == IF n = 0 THEN 0 ELSE sum[n - 1] + Tokens[docs[n]] IN sum
ContextIsGreedy ==
    stage = "context" =>
        /\ Spent(context)[Len(context)] <= BUDGET
        /\ \A i \in DOMAIN reranked :
               LET before == {j \in 1..(i - 1) : reranked[j] \in ToSet(context)}
               IN reranked[i] \notin ToSet(context) =>
                      Spent(context)[Cardinality(before)] + Tokens[reranked[i]] > BUDGET
=============================================================================
