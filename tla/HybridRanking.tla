----------------------------- MODULE HybridRanking -----------------------------
(*****************************************************************************)
(* From the stored chunks to the evidence of a plan: three lanes recall      *)
(* candidates, reciprocal rank fusion and rules order them, the first        *)
(* ResultLimit are the results, and _bounded_evidence cuts them to the       *)
(* characters the model may read.                                            *)
(*                                                                           *)
(* A candidate is its place in the order (path, start line, id) that breaks  *)
(* every tie.  What full text search and cosine distance find is any order;  *)
(* a query is how its tokens match the names and paths.  Scores are the      *)
(* rational numbers of the source times Scale.                               *)
(*****************************************************************************)
EXTENDS Integers, Sequences, FiniteSets

CONSTANTS
    Candidates,    \* 1 .. n in tie-break order
    PathOf,        \* file of each candidate; files are numbered in the order of their paths
    Length,        \* number of characters of its content
    LaneLimit,     \* retrieval_candidate_limit
    ResultLimit,   \* retrieval_result_limit
    Scale,         \* common denominator of the scores
    Evidences,     \* planning_evidence_limit: values tried
    MaxSnippet,    \* planning_max_snippet_characters
    Budgets        \* planning_max_evidence_characters: values tried

RRF_K == 60

ASSUME CandidatesAssumption ==
    /\ IsFiniteSet(Candidates) /\ Candidates = 1 .. Cardinality(Candidates)
    /\ PathOf \in [Candidates -> Nat] /\ Length \in [Candidates -> Nat \ {0}]
    /\ \A c, d \in Candidates : c < d => PathOf[c] <= PathOf[d]
ASSUME RankingLimitsAssumption ==
    /\ {LaneLimit, ResultLimit, MaxSnippet} \subseteq Nat \ {0}
    /\ Evidences \subseteq Nat \ {0} /\ Budgets \subseteq Nat \ {0}
ASSUME ScaleAssumption ==
    /\ Scale \in Nat \ {0} /\ Scale % 1000 = 0
    /\ \A rank \in 1 .. LaneLimit : Scale % (RRF_K + rank) = 0

Channels == {"keyword", "symbol", "vector"}
Paths == {PathOf[c] : c \in Candidates}

VARIABLES
    phase,     \* "idle", "query", "ranked", "planned"
    query,     \* how the tokens of the issue match
    lanes,     \* channel -> candidates recalled, best first
    ranked,    \* the results, best first
    evidence   \* [limit, budget, snippets, truncated] of the plan

rankingVars == <<phase, query, lanes, ranked, evidence>>

NoQuery == [symbol |-> <<>>, stem |-> <<>>, test |-> <<>>, intent |-> FALSE]
NoLanes == [ch \in Channels |-> <<>>]
NoEvidence == [limit |-> 0, budget |-> 0, snippets |-> <<>>, truncated |-> FALSE]

RankingInit ==
    /\ phase = "idle" /\ query = NoQuery /\ lanes = NoLanes
    /\ ranked = <<>> /\ evidence = NoEvidence

Members(lane) == {lane[i] : i \in DOMAIN lane}
Smaller(a, b) == IF a < b THEN a ELSE b

-----------------------------------------------------------------------------
\* _symbol_score of each candidate: 3 a token is its name, 2 begins it, 1 occurs in
\* the name or the path; then what _rerank_bonus asks: a token is the stem of its path,
\* the path is a test file, a token is one of TEST_TERMS.
SymbolScores == {0, 1, 2, 3}

Ask ==
    /\ phase = "idle"
    /\ \E symbol \in [Candidates -> SymbolScores], stem \in [Paths -> BOOLEAN],
          test \in [Paths -> BOOLEAN], intent \in BOOLEAN :
          /\ \A c \in Candidates : stem[PathOf[c]] => symbol[c] > 0
          /\ query' = [symbol |-> symbol, stem |-> stem, test |-> test, intent |-> intent]
    /\ phase' = "query"
    /\ UNCHANGED <<lanes, ranked, evidence>>

\* A list of the members of a set, each after those that Before puts before it.
InOrder(S, Before(_, _)) ==
    [i \in 1 .. Cardinality(S) |->
        CHOOSE c \in S : Cardinality({d \in S : Before(d, c)}) = i - 1]

Prefix(seq, n) == SubSeq(seq, 1, Smaller(n, Len(seq)))

\* score_symbol_candidates
SymbolLane ==
    Prefix(InOrder({c \in Candidates : query.symbol[c] > 0},
                   LAMBDA c, d : \/ query.symbol[c] > query.symbol[d]
                                 \/ query.symbol[c] = query.symbol[d] /\ c < d),
           LaneLimit)

Distinct(lane) == \A i, j \in DOMAIN lane : lane[i] = lane[j] => i = j
Lists(n) == {lane \in [1 .. n -> Candidates] : Distinct(lane)}

\* _keyword_lane finds any of the chunks, _vector_lane as many as it may.
KeywordLanes == UNION {Lists(n) : n \in 0 .. Smaller(LaneLimit, Cardinality(Candidates))}
VectorLanes == Lists(Smaller(LaneLimit, Cardinality(Candidates)))

-----------------------------------------------------------------------------
\* Ranks of a candidate, by channel, in some lanes.
RankIn(lane, c) == CHOOSE i \in DOMAIN lane : lane[i] = c
Matched(ls, c) == {ch \in Channels : c \in Members(ls[ch])}
Found(ls) == UNION {Members(ls[ch]) : ch \in Channels}

\* reciprocal_rank_fusion: 1 / (RRF_K + rank) for every channel.
Reciprocal(rank) == Scale \div (RRF_K + rank)
InChannel(ls, ch, c) == IF c \in Members(ls[ch]) THEN Reciprocal(RankIn(ls[ch], c)) ELSE 0
RRF(ls, c) == InChannel(ls, "keyword", c) + InChannel(ls, "symbol", c)
                + InChannel(ls, "vector", c)

\* _rerank_bonus: 0.005 for each further channel, 0.02 for the name, 0.005 for the
\* file, 0.012 for a test that is asked for, 0.003 for code when none is.
Thousandths(n) == n * (Scale \div 1000)
Points(condition, n) == IF condition THEN Thousandths(n) ELSE 0
RerankBonus(q, ls, c) ==
    LET isTest == q.test[PathOf[c]]
    IN (Cardinality(Matched(ls, c)) - 1) * Thousandths(5)
         + Points(q.symbol[c] = 3, 20)
         + Points(q.stem[PathOf[c]], 5)
         + Points(q.intent /\ isTest, 12)
         + Points(~q.intent /\ ~isTest, 3)
Score(q, ls, c) == RRF(ls, c) + RerankBonus(q, ls, c)

\* _rank_sort_key
RanksBefore(q, ls, c, d) ==
    \/ Score(q, ls, c) > Score(q, ls, d)
    \/ Score(q, ls, c) = Score(q, ls, d) /\ RRF(ls, c) > RRF(ls, d)
    \/ Score(q, ls, c) = Score(q, ls, d) /\ RRF(ls, c) = RRF(ls, d) /\ c < d

\* Mutant: the limit is applied before the order.
FuseAndLimit(q, ls) ==
    InOrder(Members(Prefix(InOrder(Found(ls), LAMBDA c, d : c < d), ResultLimit)),
            LAMBDA c, d : RanksBefore(q, ls, c, d))

FuseAndRerank(q, ls) ==
    Prefix(InOrder(Found(ls), LAMBDA c, d : RanksBefore(q, ls, c, d)), ResultLimit)

\* RetrievalStore.persist_retrieval: _recall, fuse_and_rerank, the rows.
PersistRetrieval ==
    /\ phase = "query"
    /\ \E keyword \in KeywordLanes, vector \in VectorLanes :
          lanes' = [keyword |-> keyword, symbol |-> SymbolLane, vector |-> vector]
    /\ ranked' = FuseAndRerank(query, lanes')
    /\ phase' = "ranked"
    /\ UNCHANGED <<query, evidence>>

-----------------------------------------------------------------------------
\* _bounded_evidence: what is left of the budget before record i, and its snippet.
BoundedEvidence(results, limit, budget) ==
    LET records == Prefix(results, limit)
        Allowed(left) == Smaller(MaxSnippet, left)
        left[i \in 1 .. Len(records) + 1] ==
            IF i = 1 THEN budget
            ELSE left[i - 1] - Smaller(Allowed(left[i - 1]), Length[records[i - 1]])
        Snippet(i) == Smaller(Allowed(left[i]), Length[records[i]])
        taken == {i \in 1 .. Len(records) : Allowed(left[i]) >= 1}
    IN [limit |-> limit, budget |-> budget,
        snippets |-> [i \in taken |-> Snippet(i)],
        truncated |-> \/ Len(results) > limit
                      \/ Cardinality(taken) < Len(records)
                      \/ \E i \in taken : Snippet(i) < Length[records[i]]]

\* _evidence_bundle; with limits of at least one, a result gives an item.
EvidenceBundle ==
    /\ phase = "ranked"
    /\ \E limit \in Evidences, budget \in Budgets :
          evidence' = BoundedEvidence(ranked, limit, budget)
    /\ phase' = "planned"
    /\ UNCHANGED <<query, lanes, ranked>>

RankingNext == Ask \/ PersistRetrieval \/ EvidenceBundle

-----------------------------------------------------------------------------
\* The results are the best of what the lanes found: none twice, as many as the limit
\* allows, and none better is left out.
ResultsAreBest ==
    /\ Distinct(ranked)
    /\ Len(ranked) = Smaller(ResultLimit, Cardinality(Found(lanes)))
    /\ \A c \in Members(ranked), d \in Found(lanes) \ Members(ranked) :
          RanksBefore(query, lanes, c, d)

\* A chunk that no lane ranks lower than another, of the same file and with a name that
\* matches as well, is not overtaken by it, neither in the order nor at the limit.
AsGood(c, d) ==
    /\ PathOf[c] = PathOf[d] /\ query.symbol[c] >= query.symbol[d]
    /\ \A ch \in Matched(lanes, d) :
          c \in Members(lanes[ch]) /\ RankIn(lanes[ch], c) <= RankIn(lanes[ch], d)

NoOvertaking ==
    \A c, d \in Found(lanes) :
        AsGood(c, d) /\ d \in Members(ranked) =>
            c \in Members(ranked) /\ RankIn(ranked, c) <= RankIn(ranked, d)

\* The model reads the first results, in order, within the budget, and is told when
\* anything is missing.
EvidenceIsHonest ==
    phase = "planned" =>
        LET s == evidence.snippets
            n == Cardinality(DOMAIN s)
            read[i \in 0 .. n] == IF i = 0 THEN 0 ELSE read[i - 1] + s[i]
        IN /\ DOMAIN s = 1 .. n /\ n <= evidence.limit /\ (ranked # <<>> => n > 0)
           /\ read[n] <= evidence.budget
           /\ evidence.truncated <=> (n < Len(ranked)
                                        \/ \E i \in 1 .. n : s[i] < Length[ranked[i]])

RankingIsFair ==
    phase \in {"ranked", "planned"} => ResultsAreBest /\ NoOvertaking /\ EvidenceIsHonest

===============================================================================
