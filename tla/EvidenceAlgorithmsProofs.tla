------------------------ MODULE EvidenceAlgorithmsProofs ------------------------
(*****************************************************************************)
(* What a model may read of a repository: the chunks describe every file,    *)
(* and the results and the evidence of every issue are the best of what the  *)
(* lanes recall, for any number of candidates and any limits.                *)
(*****************************************************************************)
EXTENDS EvidenceAlgorithms, SourceChunksProofs

-----------------------------------------------------------------------------
(* Ranking. *)

QueryType ==
    /\ query.symbol \in [Candidates -> SymbolScores]
    /\ query.stem \in [Paths -> BOOLEAN] /\ query.test \in [Paths -> BOOLEAN]
    /\ query.intent \in BOOLEAN

LaneType(lane) == lane \in Seq(Candidates) /\ Len(lane) <= LaneLimit
LanesType ==
    lanes \in [Channels -> Seq(Candidates)] /\ \A ch \in Channels : Len(lanes[ch]) <= LaneLimit

LEMMA CandidatesAre ==
    /\ Candidates \subseteq Nat /\ IsFiniteSet(Candidates) /\ Cardinality(Candidates) \in Nat
    /\ \A c \in Candidates : PathOf[c] \in Paths
<1>1. IsFiniteSet(Candidates) /\ Candidates = 1 .. Cardinality(Candidates)
  BY CandidatesAssumption
<1>2. Cardinality(Candidates) \in Nat
  BY <1>1, FS_CardinalityType
<1>3. 1 .. Cardinality(Candidates) \subseteq Nat
  BY <1>2
<1> QED
  BY <1>1, <1>2, <1>3 DEF Paths

\* A list and what its members are.
LEMMA RankIs ==
    ASSUME NEW S, NEW lane \in Seq(S), NEW c \in Members(lane)
    PROVE  /\ RankIn(lane, c) \in 1 .. Len(lane) /\ lane[RankIn(lane, c)] = c /\ c \in S
           /\ DOMAIN lane = 1 .. Len(lane) /\ Len(lane) \in Nat
<1>1. DOMAIN lane = 1 .. Len(lane) /\ Len(lane) \in Nat
  OBVIOUS
<1>2. \E i \in DOMAIN lane : lane[i] = c
  BY DEF Members
<1>3. RankIn(lane, c) \in DOMAIN lane /\ lane[RankIn(lane, c)] = c
  BY <1>2 DEF RankIn
<1> QED
  BY <1>1, <1>3

LEMMA PrefixIs ==
    ASSUME NEW S, NEW seq \in Seq(S), NEW n \in Nat
    PROVE  /\ Prefix(seq, n) \in Seq(S) /\ Len(Prefix(seq, n)) = Smaller(n, Len(seq))
           /\ Smaller(n, Len(seq)) \in Nat /\ Len(seq) \in Nat
           /\ Smaller(n, Len(seq)) <= n /\ Smaller(n, Len(seq)) <= Len(seq)
           /\ \A i \in 1 .. Smaller(n, Len(seq)) : Prefix(seq, n)[i] = seq[i]
<1> DEFINE m == Smaller(n, Len(seq))
<1>1. m \in Nat /\ m <= Len(seq) /\ m <= n /\ Len(seq) \in Nat
  BY DEF Smaller
<1> HIDE DEF m
<1>2. \A i \in 1 .. m : seq[i] \in S
  BY <1>1
<1>3. /\ SubSeq(seq, 1, m) \in Seq(S)
      /\ Len(SubSeq(seq, 1, m)) = IF 1 <= m THEN m - 1 + 1 ELSE 0
      /\ \A i \in 1 .. m - 1 + 1 : SubSeq(seq, 1, m)[i] = seq[1 + i - 1]
  BY <1>1, <1>2, SubSeqProperties
<1>4. Len(SubSeq(seq, 1, m)) = m /\ \A i \in 1 .. m : SubSeq(seq, 1, m)[i] = seq[i]
  BY <1>1, <1>3
<1> QED
  BY <1>1, <1>3, <1>4 DEF Prefix, m

\* The same numerator over the greater denominator is less.
LEMMA Fractions ==
    ASSUME NEW s \in Nat \ {0}, NEW a \in Nat \ {0}, NEW b \in Nat \ {0},
           s % a = 0, s % b = 0, a < b
    PROVE  s \div a > s \div b
<1> DEFINE p == s \div a
           q == s \div b
<1>1. p \in Nat /\ q \in Nat /\ s = a * p /\ s = b * q
  OBVIOUS
<1> HIDE DEF p, q
<1>2. q > 0
  BY <1>1
<1>3. a * q < b * q
  BY <1>1, <1>2
<1>4. ASSUME p <= q PROVE FALSE
  <2>1. a * p <= a * q
    BY <1>1, <1>4
  <2> QED
    BY <1>1, <1>3, <2>1
<1> QED
  BY <1>1, <1>4 DEF p, q

\* 1 / (RRF_K + rank) falls with the rank.
LEMMA ReciprocalIs ==
    ASSUME NEW i \in 1 .. LaneLimit
    PROVE  /\ Reciprocal(i) \in Nat
           /\ \A j \in 1 .. LaneLimit : i < j => Reciprocal(i) > Reciprocal(j)
<1>1. \A j \in 1 .. LaneLimit : /\ RRF_K + j \in Nat \ {0} /\ Scale % (RRF_K + j) = 0
                               /\ Scale \in Nat \ {0} /\ j \in Nat
  BY RankingLimitsAssumption, ScaleAssumption DEF RRF_K
<1>2. Reciprocal(i) \in Nat
  BY <1>1 DEF Reciprocal
<1>3. ASSUME NEW j \in 1 .. LaneLimit, i < j PROVE Reciprocal(i) > Reciprocal(j)
  <2>1. RRF_K + i < RRF_K + j
    BY <1>1, <1>3 DEF RRF_K
  <2> QED
    BY <1>1, <2>1, Fractions DEF Reciprocal
<1> QED
  BY <1>2, <1>3

LEMMA ThousandthsAre == \A n \in Int : Thousandths(n) \in Int /\ (n >= 0 => Thousandths(n) >= 0)
<1> DEFINE u == Scale \div 1000
<1>1. u \in Nat
  BY ScaleAssumption
<1>2. \A n \in Int : Thousandths(n) = n * u
  BY DEF Thousandths
<1> HIDE DEF u
<1> QED
  BY <1>1, <1>2

LEMMA ScoreIs ==
    ASSUME QueryType, LanesType, NEW c \in Found(lanes)
    PROVE  /\ c \in Candidates
           /\ RRF(lanes, c) \in Int /\ RerankBonus(query, lanes, c) \in Int
           /\ Score(query, lanes, c) \in Int
           /\ IsFiniteSet(Matched(lanes, c)) /\ Cardinality(Matched(lanes, c)) \in Nat
           /\ \A ch \in Channels : InChannel(lanes, ch, c) \in Nat
<1>1. \A ch \in Channels : lanes[ch] \in Seq(Candidates) /\ Len(lanes[ch]) <= LaneLimit
  BY DEF LanesType
<1>2. c \in Candidates
  BY <1>1, RankIs DEF Found
<1>3. ASSUME NEW ch \in Channels PROVE InChannel(lanes, ch, c) \in Nat
  <2>1. CASE c \in Members(lanes[ch])
    <3>1. RankIn(lanes[ch], c) \in 1 .. LaneLimit
      BY <1>1, <2>1, RankIs, RankingLimitsAssumption
    <3> QED
      BY <2>1, <3>1, ReciprocalIs DEF InChannel
  <2> QED
    BY <2>1 DEF InChannel
<1>4. IsFiniteSet(Channels)
  <2>1. IsFiniteSet({}) /\ IsFiniteSet({} \cup {"keyword"})
    BY FS_EmptySet, FS_AddElement
  <2>2. IsFiniteSet(({} \cup {"keyword"}) \cup {"symbol"})
    BY <2>1, FS_AddElement
  <2>3. IsFiniteSet((({} \cup {"keyword"}) \cup {"symbol"}) \cup {"vector"})
    BY <2>2, FS_AddElement
  <2>4. (({} \cup {"keyword"}) \cup {"symbol"}) \cup {"vector"} = Channels
    BY DEF Channels
  <2> QED
    BY <2>3, <2>4
<1>5. IsFiniteSet(Matched(lanes, c))
  BY <1>4, FS_Subset DEF Matched
<1>6. Cardinality(Matched(lanes, c)) \in Nat
  BY <1>5, FS_CardinalityType
<1>7. RRF(lanes, c) \in Int
  BY <1>3 DEF RRF, Channels
<1>8. RerankBonus(query, lanes, c) \in Int
  <2> DEFINE a1 == Points(query.symbol[c] = 3, 20)
             a2 == Points(query.stem[PathOf[c]], 5)
             a3 == Points(query.intent /\ query.test[PathOf[c]], 12)
             a4 == Points(~query.intent /\ ~query.test[PathOf[c]], 3)
             k == Cardinality(Matched(lanes, c))
             t == Thousandths(5)
  <2>1. a1 \in Int /\ a2 \in Int /\ a3 \in Int /\ a4 \in Int
    BY ThousandthsAre DEF Points
  <2>2. RerankBonus(query, lanes, c) = (k - 1) * t + a1 + a2 + a3 + a4
    BY DEF RerankBonus
  <2> HIDE DEF a1, a2, a3, a4, k, t
  <2>3. k \in Nat /\ t \in Int
    BY <1>6, ThousandthsAre DEF k, t
  <2> QED
    BY <2>1, <2>2, <2>3
<1> QED
  BY <1>2, <1>3, <1>5, <1>6, <1>7, <1>8 DEF Score

LEMMA FoundIs ==
    ASSUME LanesType
    PROVE  /\ Found(lanes) \subseteq Candidates /\ IsFiniteSet(Found(lanes))
           /\ Cardinality(Found(lanes)) \in Nat
<1>1. \A ch \in Channels : lanes[ch] \in Seq(Candidates)
  BY DEF LanesType
<1>2. Found(lanes) \subseteq Candidates
  BY <1>1, RankIs DEF Found
<1>3. IsFiniteSet(Candidates)
  BY CandidatesAre
<1>4. IsFiniteSet(Found(lanes))
  BY <1>2, <1>3, FS_Subset
<1> QED
  BY <1>2, <1>4, FS_CardinalityType

\* The candidates in the order of _rank_sort_key.
RankOrder == {p \in Found(lanes) \X Found(lanes) : RanksBefore(query, lanes, p[1], p[2])}

LEMMA RankOrderIsStrict ==
    ASSUME QueryType, LanesType
    PROVE  StrictOrder(RankOrder, Found(lanes))
<1> DEFINE s(c) == Score(query, lanes, c)
           r(c) == RRF(lanes, c)
           Before(c, d) == \/ s(c) > s(d)
                           \/ s(c) = s(d) /\ r(c) > r(d)
                           \/ s(c) = s(d) /\ r(c) = r(d) /\ c < d
<1>1. \A c \in Found(lanes) : s(c) \in Int /\ r(c) \in Int /\ c \in Nat
  BY ScoreIs, CandidatesAre
<1>2. \A c, d \in Found(lanes) : <<c, d>> \in RankOrder <=> Before(c, d)
  <2>1. \A c, d \in Found(lanes) : <<c, d>> \in RankOrder <=> RanksBefore(query, lanes, c, d)
    BY DEF RankOrder
  <2> QED
    BY <2>1 DEF RanksBefore
<1> HIDE DEF s, r
<1>3. \A c \in Found(lanes) : <<c, c>> \notin RankOrder
  BY <1>1, <1>2
<1>4. \A c, d \in Found(lanes) : c # d => <<c, d>> \in RankOrder \/ <<d, c>> \in RankOrder
  BY <1>1, <1>2
<1>5. ASSUME NEW c \in Found(lanes), NEW d \in Found(lanes), NEW e \in Found(lanes),
             <<c, d>> \in RankOrder, <<d, e>> \in RankOrder
      PROVE  <<c, e>> \in RankOrder
  <2>1. /\ s(c) \in Int /\ s(d) \in Int /\ s(e) \in Int
        /\ r(c) \in Int /\ r(d) \in Int /\ r(e) \in Int
        /\ c \in Nat /\ d \in Nat /\ e \in Nat
    BY <1>1
  <2>2. Before(c, d) /\ Before(d, e)
    BY <1>2, <1>5
  <2>3. Before(c, e)
    BY <2>1, <2>2
  <2> QED
    BY <1>2, <2>3
<1> QED
  BY <1>3, <1>4, <1>5 DEF StrictOrder

LEMMA Fused ==
    ASSUME QueryType, LanesType
    PROVE  \E o \in Seq(Found(lanes)) :
              /\ FuseAndRerank(query, lanes) = Prefix(o, ResultLimit)
              /\ Len(o) = Cardinality(Found(lanes))
              /\ \A c \in Found(lanes) : \E i \in 1 .. Len(o) : o[i] = c
              /\ \A i, j \in 1 .. Len(o) : i < j =>
                     RanksBefore(query, lanes, o[i], o[j]) /\ o[i] # o[j]
<1> DEFINE S == Found(lanes)
           B(c) == {d \in S : RanksBefore(query, lanes, d, c)}
           o == [i \in 1 .. Cardinality(S) |-> CHOOSE c \in S : Cardinality(B(c)) = i - 1]
<1>1. FuseAndRerank(query, lanes) = Prefix(o, ResultLimit)
  BY DEF FuseAndRerank, InOrder
<1>2. IsFiniteSet(S) /\ StrictOrder(RankOrder, S)
  BY FoundIs, RankOrderIsStrict
<1>3. \A c \in S : B(c) = Ahead(RankOrder, S, c)
  BY DEF Ahead, RankOrder
<1>4. \A c, d \in S : <<c, d>> \in RankOrder => RanksBefore(query, lanes, c, d)
  BY DEF RankOrder
<1> HIDE DEF S, B
<1>5. ASSUME NEW c \in S PROVE o[Cardinality(Ahead(RankOrder, S, c)) + 1] = c
  <2> DEFINE k == Cardinality(B(c)) + 1
  <2>1. /\ Cardinality(S) \in Nat /\ Cardinality(B(c)) \in 0 .. Cardinality(S) - 1
        /\ \A d \in S : Cardinality(B(d)) = Cardinality(B(c)) => d = c
    BY <1>2, <1>3, Numbered
  <2>2. k \in 1 .. Cardinality(S) /\ k - 1 = Cardinality(B(c))
    BY <2>1
  <2>3. o[k] = CHOOSE d \in S : Cardinality(B(d)) = k - 1
    BY <2>2
  <2> HIDE DEF o
  <2>4. o[k] = c
    BY <2>1, <2>2, <2>3
  <2> QED
    BY <1>3, <2>4
<1>6. o \in [1 .. Cardinality(S) -> {o[i] : i \in 1 .. Cardinality(S)}]
  OBVIOUS
<1> HIDE DEF o
<1>7. OrderedList(o, S, RankOrder)
  <2>1. \A c \in S : o[Cardinality(Ahead(RankOrder, S, c)) + 1] = c
    BY <1>5
  <2> QED
    BY <1>2, <1>6, <2>1, Listed
<1>8. Len(o) \in Nat /\ \A i \in 1 .. Len(o) : o[i] \in S
  BY <1>7 DEF OrderedList
<1> QED
  BY <1>1, <1>4, <1>7, <1>8 DEF S, OrderedList

LEMMA SymbolLaneIs ==
    ASSUME QueryType
    PROVE  SymbolLane \in Seq(Candidates) /\ Len(SymbolLane) <= LaneLimit
<1> DEFINE S == {c \in Candidates : query.symbol[c] > 0}
           Before(c, d) == \/ query.symbol[c] > query.symbol[d]
                           \/ query.symbol[c] = query.symbol[d] /\ c < d
           R == {p \in S \X S : Before(p[1], p[2])}
           B(c) == {d \in S : Before(d, c)}
           o == [i \in 1 .. Cardinality(S) |-> CHOOSE c \in S : Cardinality(B(c)) = i - 1]
<1>1. SymbolLane = Prefix(o, LaneLimit)
  BY DEF SymbolLane, InOrder
<1>2. IsFiniteSet(S) /\ S \subseteq Candidates
  BY CandidatesAre, FS_Subset
<1>3. StrictOrder(R, S)
  <2>1. \A c \in S : query.symbol[c] \in Int /\ c \in Nat
    BY CandidatesAre DEF QueryType, SymbolScores
  <2>2. \A c, d \in S : <<c, d>> \in R <=> Before(c, d)
    OBVIOUS
  <2> HIDE DEF S, R
  <2> QED
    BY <2>1, <2>2 DEF StrictOrder
<1>4. \A c \in S : B(c) = Ahead(R, S, c)
  BY DEF Ahead
<1> HIDE DEF S, R, B, Before
<1>5. ASSUME NEW c \in S PROVE o[Cardinality(Ahead(R, S, c)) + 1] = c
  <2> DEFINE k == Cardinality(B(c)) + 1
  <2>1. /\ Cardinality(S) \in Nat /\ Cardinality(B(c)) \in 0 .. Cardinality(S) - 1
        /\ \A d \in S : Cardinality(B(d)) = Cardinality(B(c)) => d = c
    BY <1>2, <1>3, <1>4, Numbered
  <2>2. k \in 1 .. Cardinality(S) /\ k - 1 = Cardinality(B(c))
    BY <2>1
  <2>3. o[k] = CHOOSE d \in S : Cardinality(B(d)) = k - 1
    BY <2>2
  <2> HIDE DEF o
  <2>4. o[k] = c
    BY <2>1, <2>2, <2>3
  <2> QED
    BY <1>4, <2>4
<1>6. o \in [1 .. Cardinality(S) -> {o[i] : i \in 1 .. Cardinality(S)}]
  OBVIOUS
<1> HIDE DEF o
<1>7. OrderedList(o, S, R)
  BY <1>2, <1>3, <1>5, <1>6, Listed
<1>8. LaneLimit \in Nat
  BY RankingLimitsAssumption
<1>9. o \in Seq(Candidates)
  BY <1>2, <1>7 DEF OrderedList
<1>10. /\ Prefix(o, LaneLimit) \in Seq(Candidates)
       /\ Len(Prefix(o, LaneLimit)) = Smaller(LaneLimit, Len(o))
       /\ Smaller(LaneLimit, Len(o)) <= LaneLimit /\ Smaller(LaneLimit, Len(o)) \in Nat
  BY <1>8, <1>9, PrefixIs
<1> QED
  BY <1>1, <1>8, <1>10

\* The rows that persist_retrieval stores: the first of the ordered candidates.
LEMMA Ranked ==
    ASSUME QueryType, LanesType, ranked = FuseAndRerank(query, lanes)
    PROVE  /\ ranked \in Seq(Found(lanes)) /\ Len(ranked) \in Nat
           /\ Len(ranked) = Smaller(ResultLimit, Cardinality(Found(lanes)))
           /\ \A i, j \in 1 .. Len(ranked) : i < j =>
                  RanksBefore(query, lanes, ranked[i], ranked[j]) /\ ranked[i] # ranked[j]
           /\ \A d \in Found(lanes) \ Members(ranked), i \in 1 .. Len(ranked) :
                  RanksBefore(query, lanes, ranked[i], d)
<1>1. PICK o \in Seq(Found(lanes)) :
        /\ FuseAndRerank(query, lanes) = Prefix(o, ResultLimit)
        /\ Len(o) = Cardinality(Found(lanes))
        /\ \A c \in Found(lanes) : \E i \in 1 .. Len(o) : o[i] = c
        /\ \A i, j \in 1 .. Len(o) : i < j => RanksBefore(query, lanes, o[i], o[j]) /\ o[i] # o[j]
  BY Fused
<1>2. ResultLimit \in Nat
  BY RankingLimitsAssumption
<1> DEFINE n == Smaller(ResultLimit, Len(o))
<1>3. /\ ranked \in Seq(Found(lanes)) /\ Len(ranked) = n
      /\ n \in Nat /\ Len(o) \in Nat /\ n <= Len(o)
      /\ \A i \in 1 .. n : ranked[i] = o[i]
  <2>1. ranked = Prefix(o, ResultLimit)
    BY <1>1
  <2>2. /\ Prefix(o, ResultLimit) \in Seq(Found(lanes))
        /\ Len(Prefix(o, ResultLimit)) = n
        /\ n \in Nat /\ Len(o) \in Nat /\ n <= Len(o)
        /\ \A i \in 1 .. n : Prefix(o, ResultLimit)[i] = o[i]
    BY <1>2, PrefixIs
  <2> QED
    BY <2>1, <2>2
<1>4. n = Smaller(ResultLimit, Cardinality(Found(lanes)))
  BY <1>1
<1> HIDE DEF n
<1>5. \A i, j \in 1 .. Len(ranked) : i < j =>
        RanksBefore(query, lanes, ranked[i], ranked[j]) /\ ranked[i] # ranked[j]
  <2>1. \A i \in 1 .. n : i \in 1 .. Len(o)
    BY <1>3
  <2> QED
    BY <1>1, <1>3, <2>1
<1>6. ASSUME NEW d \in Found(lanes) \ Members(ranked), NEW i \in 1 .. Len(ranked)
      PROVE  RanksBefore(query, lanes, ranked[i], d)
  <2>1. PICK k \in 1 .. Len(o) : o[k] = d
    BY <1>1
  <2>2. DOMAIN ranked = 1 .. n
    BY <1>3
  <2>3. k \notin 1 .. n
    BY <1>3, <2>1, <2>2 DEF Members
  <2>4. i < k /\ i \in 1 .. Len(o)
    BY <1>3, <2>3
  <2> QED
    BY <1>1, <1>3, <2>1, <2>4
<1> QED
  BY <1>3, <1>4, <1>5, <1>6

LEMMA BestResults ==
    ASSUME QueryType, LanesType, ranked = FuseAndRerank(query, lanes)
    PROVE  ResultsAreBest
<1>1. /\ ranked \in Seq(Found(lanes)) /\ Len(ranked) \in Nat
      /\ Len(ranked) = Smaller(ResultLimit, Cardinality(Found(lanes)))
      /\ \A i, j \in 1 .. Len(ranked) : i < j =>
             RanksBefore(query, lanes, ranked[i], ranked[j]) /\ ranked[i] # ranked[j]
      /\ \A d \in Found(lanes) \ Members(ranked), i \in 1 .. Len(ranked) :
             RanksBefore(query, lanes, ranked[i], d)
  BY Ranked
<1>2. DOMAIN ranked = 1 .. Len(ranked)
  BY <1>1
<1>3. Distinct(ranked)
  <2> SUFFICES ASSUME NEW i \in 1 .. Len(ranked), NEW j \in 1 .. Len(ranked),
                      ranked[i] = ranked[j]
               PROVE  i = j
    BY <1>2 DEF Distinct
  <2>1. ~(i < j) /\ ~(j < i)
    BY <1>1
  <2> QED
    BY <1>1, <2>1
<1>4. \A c \in Members(ranked), d \in Found(lanes) \ Members(ranked) :
        RanksBefore(query, lanes, c, d)
  BY <1>1, <1>2 DEF Members
<1> QED
  BY <1>1, <1>3, <1>4 DEF ResultsAreBest

\* What reciprocal_rank_fusion gives in a channel falls with the rank.
LEMMA ChannelIsMonotone ==
    ASSUME LanesType, NEW ch \in Channels, NEW c, NEW d,
           d \in Members(lanes[ch]) =>
               c \in Members(lanes[ch]) /\ RankIn(lanes[ch], c) <= RankIn(lanes[ch], d)
    PROVE  /\ InChannel(lanes, ch, c) >= InChannel(lanes, ch, d)
           /\ d \in Members(lanes[ch]) /\ InChannel(lanes, ch, c) = InChannel(lanes, ch, d)
                  => c = d
<1>1. lanes[ch] \in Seq(Candidates) /\ Len(lanes[ch]) <= LaneLimit
  BY DEF LanesType
<1>2. CASE d \in Members(lanes[ch])
  <2>1. /\ RankIn(lanes[ch], c) \in 1 .. Len(lanes[ch]) /\ lanes[ch][RankIn(lanes[ch], c)] = c
        /\ RankIn(lanes[ch], d) \in 1 .. Len(lanes[ch]) /\ lanes[ch][RankIn(lanes[ch], d)] = d
        /\ Len(lanes[ch]) \in Nat
    BY <1>1, <1>2, RankIs
  <2>2. RankIn(lanes[ch], c) \in 1 .. LaneLimit /\ RankIn(lanes[ch], d) \in 1 .. LaneLimit
    BY <1>1, <2>1, RankingLimitsAssumption
  <2>3. /\ InChannel(lanes, ch, c) = Reciprocal(RankIn(lanes[ch], c))
        /\ InChannel(lanes, ch, d) = Reciprocal(RankIn(lanes[ch], d))
    BY <1>2 DEF InChannel
  <2>4. \A i, j \in 1 .. LaneLimit : i <= j =>
          Reciprocal(i) >= Reciprocal(j) /\ (Reciprocal(i) = Reciprocal(j) => i = j)
    <3>1. \A i, j \in 1 .. LaneLimit :
            Reciprocal(i) \in Nat /\ (i < j => Reciprocal(i) > Reciprocal(j))
      BY ReciprocalIs
    <3>2. \A i, j \in 1 .. LaneLimit : i <= j => i < j \/ i = j
      BY RankingLimitsAssumption
    <3> QED
      BY <3>1, <3>2
  <2> QED
    BY <1>2, <2>1, <2>2, <2>3, <2>4
<1>3. CASE d \notin Members(lanes[ch])
  <2>1. InChannel(lanes, ch, d) = 0
    BY <1>3 DEF InChannel
  <2>2. InChannel(lanes, ch, c) >= 0
    <3>1. CASE c \in Members(lanes[ch])
      <4>1. RankIn(lanes[ch], c) \in 1 .. LaneLimit
        BY <1>1, <3>1, RankIs, RankingLimitsAssumption
      <4> QED
        BY <3>1, <4>1, ReciprocalIs DEF InChannel
    <3> QED
      BY <3>1 DEF InChannel
  <2> QED
    BY <1>3, <2>1, <2>2
<1> QED
  BY <1>2, <1>3

LEMMA BonusIs ==
    ASSUME QueryType, NEW c \in Candidates, NEW k \in Int, k = Cardinality(Matched(lanes, c))
    PROVE  RerankBonus(query, lanes, c) =
               (k - 1) * Thousandths(5)
                 + (IF query.symbol[c] = 3 THEN Thousandths(20) ELSE 0)
                 + (IF query.stem[PathOf[c]] THEN Thousandths(5) ELSE 0)
                 + (IF query.intent /\ query.test[PathOf[c]] THEN Thousandths(12) ELSE 0)
                 + (IF ~query.intent /\ ~query.test[PathOf[c]] THEN Thousandths(3) ELSE 0)
BY DEF RerankBonus, Points

LEMMA AsGoodRanksBefore ==
    ASSUME QueryType, LanesType, NEW c \in Found(lanes), NEW d \in Found(lanes),
           AsGood(c, d), c # d
    PROVE  RanksBefore(query, lanes, c, d)
<1>1. \A e \in Found(lanes) :
        /\ e \in Candidates /\ RRF(lanes, e) \in Int
        /\ IsFiniteSet(Matched(lanes, e)) /\ Cardinality(Matched(lanes, e)) \in Nat
        /\ \A ch \in Channels : InChannel(lanes, ch, e) \in Nat
  BY ScoreIs
<1>2. ASSUME NEW ch \in Channels
      PROVE  /\ InChannel(lanes, ch, c) >= InChannel(lanes, ch, d)
             /\ ~(d \in Members(lanes[ch])
                    /\ InChannel(lanes, ch, c) = InChannel(lanes, ch, d))
  <2>1. d \in Members(lanes[ch]) =>
          c \in Members(lanes[ch]) /\ RankIn(lanes[ch], c) <= RankIn(lanes[ch], d)
    BY DEF AsGood, Matched
  <2> QED
    BY <2>1, ChannelIsMonotone
<1>3. PICK ch \in Channels : d \in Members(lanes[ch])
  BY DEF Found
<1>4. RRF(lanes, c) > RRF(lanes, d)
  <2> DEFINE C(h) == InChannel(lanes, h, c)
             D(h) == InChannel(lanes, h, d)
  <2>1. \A h \in Channels : C(h) \in Nat /\ D(h) \in Nat /\ C(h) >= D(h)
    BY <1>1, <1>2
  <2>2. C(ch) # D(ch)
    BY <1>2, <1>3
  <2>3. /\ RRF(lanes, c) = C("keyword") + C("symbol") + C("vector")
        /\ RRF(lanes, d) = D("keyword") + D("symbol") + D("vector")
    BY DEF RRF
  <2> HIDE DEF C, D
  <2>4. ch = "keyword" \/ ch = "symbol" \/ ch = "vector"
    BY DEF Channels
  <2>5. "keyword" \in Channels /\ "symbol" \in Channels /\ "vector" \in Channels
    BY DEF Channels
  <2> QED
    BY <2>1, <2>2, <2>3, <2>4, <2>5
<1>5. Cardinality(Matched(lanes, d)) <= Cardinality(Matched(lanes, c))
  <2>1. Matched(lanes, d) \subseteq Matched(lanes, c)
    BY DEF AsGood, Matched
  <2> QED
    BY <1>1, <2>1, FS_Subset
<1>6. RerankBonus(query, lanes, c) >= RerankBonus(query, lanes, d)
  <2>1. PathOf[c] = PathOf[d]
    BY DEF AsGood
  <2>2. query.symbol[d] = 3 => query.symbol[c] = 3
    <3>1. /\ query.symbol[c] \in SymbolScores /\ query.symbol[d] \in SymbolScores
          /\ query.symbol[c] >= query.symbol[d]
      BY <1>1 DEF AsGood, QueryType
    <3> QED
      BY <3>1 DEF SymbolScores
  <2> DEFINE k == Cardinality(Matched(lanes, c))
             m == Cardinality(Matched(lanes, d))
             t == Thousandths(5)
             a == IF query.stem[PathOf[d]] THEN Thousandths(5) ELSE 0
             b == IF query.intent /\ query.test[PathOf[d]] THEN Thousandths(12) ELSE 0
             e == IF ~query.intent /\ ~query.test[PathOf[d]] THEN Thousandths(3) ELSE 0
             x == IF query.symbol[c] = 3 THEN Thousandths(20) ELSE 0
             y == IF query.symbol[d] = 3 THEN Thousandths(20) ELSE 0
  <2>3. /\ RerankBonus(query, lanes, c) = (k - 1) * t + x + a + b + e
        /\ RerankBonus(query, lanes, d) = (m - 1) * t + y + a + b + e
    BY <1>1, <2>1, BonusIs
  <2>4. a \in Int /\ b \in Int /\ e \in Int
    BY ThousandthsAre
  <2>5. x \in Int /\ y \in Int /\ x >= y
    BY <2>2, ThousandthsAre
  <2>6. k \in Int /\ m \in Int /\ m <= k /\ t \in Nat
    BY <1>1, <1>5, ThousandthsAre
  <2> HIDE DEF k, m, t, a, b, e, x, y
  <2>7. (m - 1) * t <= (k - 1) * t
    BY <2>6
  <2>8. (k - 1) * t \in Int /\ (m - 1) * t \in Int
    BY <2>6
  <2> QED
    BY <2>3, <2>4, <2>5, <2>7, <2>8
<1>7. Score(query, lanes, c) > Score(query, lanes, d)
  <2>1. \A e \in Found(lanes) : RRF(lanes, e) \in Int /\ RerankBonus(query, lanes, e) \in Int
    BY ScoreIs
  <2> QED
    BY <1>4, <1>6, <2>1 DEF Score
<1> QED
  BY <1>7 DEF RanksBefore

LEMMA NoneOvertaken ==
    ASSUME QueryType, LanesType, ranked = FuseAndRerank(query, lanes)
    PROVE  NoOvertaking
<1> SUFFICES ASSUME NEW c \in Found(lanes), NEW d \in Found(lanes),
                    AsGood(c, d), d \in Members(ranked), c # d
             PROVE  c \in Members(ranked) /\ RankIn(ranked, c) <= RankIn(ranked, d)
  <2>1. ranked \in Seq(Found(lanes))
    BY Ranked
  <2>2. \A d \in Members(ranked) : RankIn(ranked, d) <= RankIn(ranked, d)
    BY <2>1, RankIs
  <2> QED
    BY <2>2 DEF NoOvertaking
<1>1. /\ ranked \in Seq(Found(lanes)) /\ Len(ranked) \in Nat
      /\ \A i, j \in 1 .. Len(ranked) : i < j => RanksBefore(query, lanes, ranked[i], ranked[j])
      /\ \A e \in Found(lanes) \ Members(ranked), i \in 1 .. Len(ranked) :
             RanksBefore(query, lanes, ranked[i], e)
  BY Ranked
<1>2. ~RanksBefore(query, lanes, d, c)
  <2>1. <<c, d>> \in RankOrder
    BY AsGoodRanksBefore DEF RankOrder
  <2>2. <<d, c>> \notin RankOrder
    BY <2>1, RankOrderIsStrict DEF StrictOrder
  <2> QED
    BY <2>2 DEF RankOrder
<1>3. RankIn(ranked, d) \in 1 .. Len(ranked) /\ ranked[RankIn(ranked, d)] = d
  BY <1>1, RankIs
<1>4. c \in Members(ranked)
  BY <1>1, <1>2, <1>3
<1>5. RankIn(ranked, c) \in 1 .. Len(ranked) /\ ranked[RankIn(ranked, c)] = c
  BY <1>1, <1>4, RankIs
<1>6. ~(RankIn(ranked, d) < RankIn(ranked, c))
  BY <1>1, <1>2, <1>3, <1>5
<1> QED
  BY <1>1, <1>3, <1>4, <1>5, <1>6

-----------------------------------------------------------------------------
(* The evidence. *)

\* Numbers of which none is taken before the one below it are the first ones.
LEMMA FirstOnes ==
    ASSUME NEW n \in Nat, NEW T \in SUBSET (1 .. n),
           \A i \in 1 .. n - 1 : i + 1 \in T => i \in T
    PROVE  \E k \in 0 .. n : T = 1 .. k /\ Cardinality(T) = k
<1>1. \E k \in 0 .. n : T = 1 .. k
  <2> DEFINE out == {i \in 1 .. n + 1 : i \notin T}
  <2>1. n + 1 \in out /\ out \subseteq Nat
    OBVIOUS
  <2>2. PICK j \in out : \A i \in out : ~(i < j)
    BY <2>1, LeastMember
  <2>3. \A i \in 1 .. j - 1 : i \in T
    BY <2>2
  <2>4. ASSUME NEW i \in T PROVE i < j
    <3> SUFFICES ASSUME ~(i < j) PROVE FALSE
      OBVIOUS
    <3> DEFINE P == {d \in 0 .. n - j : j + d \notin T}
    <3>1. n - j \in Nat /\ i - j \in 0 .. n - j /\ j + (i - j) = i /\ j + 0 = j
      BY <2>2
    <3>2. 0 \in P
      BY <2>2, <3>1
    <3>3. \A d \in 0 .. (n - j) - 1 : d \in P => d + 1 \in P
      <4> SUFFICES ASSUME NEW d \in 0 .. (n - j) - 1, j + d \notin T
                   PROVE  j + (d + 1) \notin T /\ d + 1 \in 0 .. n - j
        OBVIOUS
      <4>1. j + d \in 1 .. n - 1 /\ j + d + 1 = j + (d + 1)
        BY <2>2
      <4> QED
        BY <4>1
    <3>4. \A d \in 0 .. n - j : d \in P
      <4> HIDE DEF P
      <4> QED
        BY <3>1, <3>2, <3>3, UpTo
    <3> QED
      BY <3>1, <3>4
  <2>5. j \in 1 .. n + 1 /\ j - 1 \in 0 .. n
    BY <2>2
  <2>6. T \subseteq 1 .. j - 1
    BY <2>4, <2>5
  <2>7. T = 1 .. j - 1
    BY <2>3, <2>6
  <2> QED
    BY <2>5, <2>7
<1>2. PICK k \in 0 .. n : T = 1 .. k
  BY <1>1
<1>3. Cardinality(1 .. k) = k
  <2>1. 1 \in Int /\ k \in Int
    OBVIOUS
  <2>2. Cardinality(1 .. k) = IF 1 > k THEN 0 ELSE k - 1 + 1
    BY <2>1, FS_Interval
  <2> QED
    BY <2>2
<1> QED
  BY <1>2, <1>3

EvidenceOf(limit, budget, left, taken, m) ==
    /\ m \in Nat /\ m = Smaller(limit, Len(ranked))
    /\ left \in [1 .. m + 1 -> Nat] /\ left[1] = budget
    /\ \A i \in 1 .. m :
          left[i + 1] = left[i] - Smaller(Smaller(MaxSnippet, left[i]), Length[ranked[i]])
    /\ taken = {i \in 1 .. m : Smaller(MaxSnippet, left[i]) >= 1}
    /\ BoundedEvidence(ranked, limit, budget) =
         [limit |-> limit, budget |-> budget,
          snippets |-> [i \in taken |->
              Smaller(Smaller(MaxSnippet, left[i]), Length[ranked[i]])],
          truncated |-> \/ Len(ranked) > limit
                        \/ Cardinality(taken) < m
                        \/ \E i \in taken :
                              Smaller(Smaller(MaxSnippet, left[i]), Length[ranked[i]])
                                < Length[ranked[i]]]

\* What is cut from a record is within what is left.
LEMMA CutIs ==
    ASSUME NEW x \in Nat, NEW c \in Candidates
    PROVE  Smaller(Smaller(MaxSnippet, x), Length[c]) \in 0 .. x
<1>1. MaxSnippet \in Nat /\ Length[c] \in Nat
  BY RankingLimitsAssumption, CandidatesAssumption
<1> QED
  BY <1>1 DEF Smaller

\* What _bounded_evidence is left with before each record, and what it takes.
LEMMA EvidenceIs ==
    ASSUME ranked \in Seq(Candidates), NEW limit \in Nat \ {0}, NEW budget \in Nat \ {0}
    PROVE  \E left, taken, m : EvidenceOf(limit, budget, left, taken, m)
<1> DEFINE records == Prefix(ranked, limit)
           Cut(x, i) == Smaller(Smaller(MaxSnippet, x), Length[records[i]])
           IsLeft(f) == f = [i \in 1 .. Len(records) + 1 |->
                               IF i = 1 THEN budget ELSE f[i - 1] - Cut(f[i - 1], i - 1)]
           left == CHOOSE f : IsLeft(f)
           taken == {i \in 1 .. Len(records) : Smaller(MaxSnippet, left[i]) >= 1}
           m == Len(records)
<1>1. BoundedEvidence(ranked, limit, budget) =
        [limit |-> limit, budget |-> budget,
         snippets |-> [i \in taken |-> Cut(left[i], i)],
         truncated |-> \/ Len(ranked) > limit
                       \/ Cardinality(taken) < m
                       \/ \E i \in taken : Cut(left[i], i) < Length[records[i]]]
  BY DEF BoundedEvidence
<1>2. /\ m = Smaller(limit, Len(ranked)) /\ m \in Nat
      /\ \A i \in 1 .. m : records[i] = ranked[i]
  BY PrefixIs
<1>3. \A x \in Nat, i \in 1 .. m : Cut(x, i) \in 0 .. x
  <2>1. \A i \in 1 .. m : records[i] \in Candidates
    BY <1>2 DEF Smaller
  <2> HIDE DEF records, m
  <2> QED
    BY <2>1, CutIs
<1> HIDE DEF records, Cut, m
<1>4. \E f : IsLeft(f)
  <2> DEFINE step == [p \in (2 .. m + 1) \X Nat |-> p[2] - Cut(p[2], p[1] - 1)]
  <2>1. \A i \in 1 + 1 .. m + 1, x \in Nat : step[<<i, x>>] \in Nat
    <3> SUFFICES ASSUME NEW i \in 1 + 1 .. m + 1, NEW x \in Nat
                 PROVE  step[<<i, x>>] \in Nat
      OBVIOUS
    <3>1. i - 1 \in 1 .. m /\ i \in 2 .. m + 1
      BY <1>2
    <3>2. Cut(x, i - 1) \in 0 .. x
      BY <1>3, <3>1
    <3>3. step[<<i, x>>] = x - Cut(x, i - 1)
      BY <3>1
    <3> QED
      BY <3>2, <3>3
  <2>2. 1 \in Nat /\ m + 1 \in Nat /\ 1 <= m + 1 /\ budget \in Nat
    BY <1>2
  <2>3. \A i \in 2 .. m + 1, x \in Nat : step[<<i, x>>] = x - Cut(x, i - 1)
    OBVIOUS
  <2> HIDE DEF step
  <2>4. PICK f : Computed(f, 1, m + 1, Nat, budget, step)
    BY <2>1, <2>2, Recursion
  <2>5. /\ f \in [1 .. m + 1 -> Nat] /\ f[1] = budget
        /\ \A i \in 2 .. m + 1 : f[i] = step[<<i, f[i - 1]>>]
    BY <2>4 DEF Computed
  <2>6. ASSUME NEW i \in 1 .. m + 1
        PROVE  f[i] = IF i = 1 THEN budget ELSE f[i - 1] - Cut(f[i - 1], i - 1)
    <3>1. CASE i = 1
      BY <2>5, <3>1
    <3>2. CASE i # 1
      <4>1. i \in 2 .. m + 1 /\ i - 1 \in 1 .. m + 1
        BY <1>2, <3>2
      <4>2. f[i - 1] \in Nat
        BY <2>5, <4>1
      <4>3. f[i] = step[<<i, f[i - 1]>>]
        BY <2>5, <4>1
      <4> QED
        BY <2>3, <3>2, <4>1, <4>2, <4>3
    <3> QED
      BY <3>1, <3>2
  <2>7. f = [i \in 1 .. m + 1 |->
               IF i = 1 THEN budget ELSE f[i - 1] - Cut(f[i - 1], i - 1)]
    BY <2>5, <2>6
  <2> QED
    BY <2>7 DEF m
<1>5. left = [i \in 1 .. m + 1 |->
                IF i = 1 THEN budget ELSE left[i - 1] - Cut(left[i - 1], i - 1)]
  BY <1>4 DEF m
<1> HIDE DEF left
<1>6. left[1] = budget
  BY <1>2, <1>5
<1>7. \A i \in 1 .. m : left[i + 1] = left[i] - Cut(left[i], i)
  BY <1>2, <1>5
<1>8. \A i \in 1 .. m + 1 : left[i] \in Nat
  <2> DEFINE T == {d \in 0 .. m : left[d + 1] \in Nat}
  <2>1. 0 \in T
    BY <1>2, <1>6
  <2>2. \A d \in 0 .. m - 1 : d \in T => d + 1 \in T
    <3> SUFFICES ASSUME NEW d \in 0 .. m - 1, left[d + 1] \in Nat
                 PROVE  d + 1 \in 0 .. m /\ left[d + 1 + 1] \in Nat
      OBVIOUS
    <3>1. d + 1 \in 1 .. m
      BY <1>2
    <3>2. Cut(left[d + 1], d + 1) \in 0 .. left[d + 1]
      BY <1>3, <3>1
    <3> QED
      BY <1>2, <1>7, <3>1, <3>2
  <2>3. \A d \in 0 .. m : d \in T
    <3> HIDE DEF T
    <3> QED
      BY <1>2, <2>1, <2>2, UpTo
  <2> SUFFICES ASSUME NEW i \in 1 .. m + 1 PROVE left[i] \in Nat
    OBVIOUS
  <2>4. i - 1 \in 0 .. m /\ i - 1 + 1 = i
    BY <1>2
  <2> QED
    BY <2>3, <2>4
<1>9. left \in [1 .. m + 1 -> Nat]
  <2>1. DOMAIN left = 1 .. m + 1
    BY <1>5
  <2>2. left = [i \in 1 .. m + 1 |-> left[i]]
    BY <1>5, <2>1
  <2> QED
    BY <1>8, <2>2
<1>10. \A i \in 1 .. m : Cut(left[i], i) =
         Smaller(Smaller(MaxSnippet, left[i]), Length[ranked[i]])
  BY <1>2 DEF Cut
<1>11. taken = {i \in 1 .. m : Smaller(MaxSnippet, left[i]) >= 1} /\ taken \subseteq 1 .. m
  BY DEF m
<1> HIDE DEF taken
<1>12. [i \in taken |-> Cut(left[i], i)]
         = [i \in taken |-> Smaller(Smaller(MaxSnippet, left[i]), Length[ranked[i]])]
  BY <1>10, <1>11
<1>13. (\E i \in taken : Cut(left[i], i) < Length[records[i]])
         <=> \E i \in taken : Smaller(Smaller(MaxSnippet, left[i]), Length[ranked[i]])
                                < Length[ranked[i]]
  BY <1>2, <1>10, <1>11
<1>14. \A i \in 1 .. m :
         left[i + 1] = left[i] - Smaller(Smaller(MaxSnippet, left[i]), Length[ranked[i]])
  BY <1>7, <1>10
<1> HIDE DEF IsLeft
<1>15. BoundedEvidence(ranked, limit, budget) =
         [limit |-> limit, budget |-> budget,
          snippets |-> [i \in taken |->
              Smaller(Smaller(MaxSnippet, left[i]), Length[ranked[i]])],
          truncated |-> \/ Len(ranked) > limit
                        \/ Cardinality(taken) < m
                        \/ \E i \in taken :
                              Smaller(Smaller(MaxSnippet, left[i]), Length[ranked[i]])
                                < Length[ranked[i]]]
  BY <1>1, <1>12, <1>13
<1>16. EvidenceOf(limit, budget, left, taken, m)
  BY <1>2, <1>6, <1>9, <1>11, <1>14, <1>15 DEF EvidenceOf
<1> QED
  BY <1>16

\* What the snippets before record i took is what the budget lost.
LEMMA HonestEvidence ==
    ASSUME ranked \in Seq(Candidates), NEW limit \in Evidences, NEW budget \in Budgets,
           evidence = BoundedEvidence(ranked, limit, budget)
    PROVE  EvidenceIsHonest
<1>1. limit \in Nat \ {0} /\ budget \in Nat \ {0} /\ MaxSnippet \in Nat \ {0}
  BY RankingLimitsAssumption
<1>2. PICK left, taken, m : EvidenceOf(limit, budget, left, taken, m)
  BY <1>1, EvidenceIs
<1> DEFINE Cut(i) == Smaller(Smaller(MaxSnippet, left[i]), Length[ranked[i]])
<1>3. /\ m \in Nat /\ m = Smaller(limit, Len(ranked)) /\ Len(ranked) \in Nat
      /\ left[1] = budget /\ \A i \in 1 .. m + 1 : left[i] \in Nat
      /\ \A i \in 1 .. m : left[i + 1] = left[i] - Cut(i)
      /\ taken = {i \in 1 .. m : Smaller(MaxSnippet, left[i]) >= 1}
  BY <1>2 DEF EvidenceOf
<1>4. /\ evidence.limit = limit /\ evidence.budget = budget
      /\ evidence.snippets = [i \in taken |-> Cut(i)]
      /\ evidence.truncated <=> \/ Len(ranked) > limit
                                \/ Cardinality(taken) < m
                                \/ \E i \in taken : Cut(i) < Length[ranked[i]]
  BY <1>2 DEF EvidenceOf
<1>5. \A i \in 1 .. m : Cut(i) \in 0 .. left[i]
  <2>1. \A i \in 1 .. m : left[i] \in Nat
    BY <1>3
  <2>2. \A i \in 1 .. m : ranked[i] \in Candidates
    BY <1>1, <1>3 DEF Smaller
  <2> QED
    BY <2>1, <2>2, CutIs
<1> HIDE DEF Cut
<1>6. PICK n \in 0 .. m : taken = 1 .. n /\ Cardinality(taken) = n
  <2>1. \A i \in 1 .. m - 1 : i + 1 \in taken => i \in taken
    <3> SUFFICES ASSUME NEW i \in 1 .. m - 1, i + 1 \in taken PROVE i \in taken
      OBVIOUS
    <3>1. i \in 1 .. m /\ i + 1 \in 1 .. m + 1 /\ i \in 1 .. m + 1
      BY <1>3
    <3>2. left[i] \in Nat /\ left[i + 1] \in Nat /\ left[i + 1] <= left[i]
      BY <1>3, <1>5, <3>1
    <3>3. Smaller(MaxSnippet, left[i + 1]) >= 1
      BY <1>3
    <3> QED
      BY <1>1, <1>3, <3>1, <3>2, <3>3 DEF Smaller
  <2>2. taken \in SUBSET (1 .. m)
    BY <1>3
  <2>3. m \in Nat
    BY <1>3
  <2> QED
    BY <2>1, <2>2, <2>3, FirstOnes
<1>7. n \in Nat /\ m \in Nat /\ n <= m /\ m <= limit /\ m <= Len(ranked)
  BY <1>1, <1>3, <1>6 DEF Smaller
<1>8. ranked # <<>> => n > 0
  <2> SUFFICES ASSUME ranked # <<>> PROVE n > 0
    OBVIOUS
  <2>1. Len(ranked) >= 1
    BY <1>3
  <2>2. 1 \in 1 .. m
    BY <1>1, <1>3, <2>1 DEF Smaller
  <2>3. 1 \in taken
    BY <1>1, <1>3, <2>2 DEF Smaller
  <2> QED
    BY <1>6, <2>3
<1> DEFINE s == evidence.snippets
           read == CHOOSE f : SumsOf(f, s, n)
<1>9. DOMAIN s = 1 .. n /\ Cardinality(DOMAIN s) = n /\ \A i \in 1 .. n : s[i] = Cut(i)
  BY <1>4, <1>6
<1> HIDE DEF s
<1>10. \A i \in 1 .. n : s[i] \in Nat
  <2>1. \A i \in 1 .. n : i \in 1 .. m /\ i \in 1 .. m + 1
    BY <1>7, <1>3
  <2> QED
    BY <1>3, <1>5, <1>9, <2>1
<1>11. SumsOf(read, s, n)
  <2>1. \E f : SumsOf(f, s, n)
    BY <1>7, <1>10, SumsExist
  <2> QED
    BY <2>1
<1> HIDE DEF read
<1>12. read[0] = 0 /\ \A i \in 1 .. n : read[i] = read[i - 1] + s[i]
  BY <1>7, <1>10, <1>11, SumsAre
<1>13. read[n] <= budget
  <2> DEFINE T == {i \in 0 .. n : read[i] = budget - left[i + 1]}
  <2>1. 0 \in T
    <3>1. read[0] = 0 /\ left[0 + 1] = budget
      BY <1>3, <1>7, <1>12
    <3> QED
      BY <1>1, <1>7, <3>1
  <2>2. \A i \in 0 .. n - 1 : i \in T => i + 1 \in T
    <3> SUFFICES ASSUME NEW i \in 0 .. n - 1, read[i] = budget - left[i + 1]
                 PROVE  i + 1 \in 0 .. n /\ read[i + 1] = budget - left[i + 1 + 1]
      OBVIOUS
    <3>1. i + 1 \in 0 .. n /\ i + 1 \in 1 .. n /\ i + 1 \in 1 .. m /\ i + 1 - 1 = i
          /\ i + 1 \in 1 .. m + 1
      BY <1>7
    <3>2. read[i + 1] = read[i] + s[i + 1]
      BY <1>12, <3>1
    <3>3. s[i + 1] = Cut(i + 1) /\ left[i + 1 + 1] = left[i + 1] - Cut(i + 1)
      BY <1>3, <1>9, <3>1
    <3>4. left[i + 1] \in Nat /\ Cut(i + 1) \in Nat
      BY <1>3, <1>5, <3>1
    <3> QED
      BY <1>1, <3>1, <3>2, <3>3, <3>4
  <2>3. n \in T
    <3> HIDE DEF T
    <3>1. \A i \in 0 .. n : i \in T
      BY <1>7, <2>1, <2>2, UpTo
    <3> QED
      BY <1>7, <3>1
  <2>4. left[n + 1] \in Nat
    BY <1>3, <1>7
  <2> QED
    BY <1>1, <2>3, <2>4
<1>14. evidence.truncated
         <=> (n < Len(ranked) \/ \E i \in 1 .. n : s[i] < Length[ranked[i]])
  <2>1. (\E i \in taken : Cut(i) < Length[ranked[i]])
          <=> \E i \in 1 .. n : s[i] < Length[ranked[i]]
    BY <1>6, <1>9
  <2>2. n < Len(ranked) <=> Len(ranked) > limit \/ n < m
    BY <1>1, <1>3, <1>7 DEF Smaller
  <2> QED
    BY <1>4, <1>6, <2>1, <2>2
<1> QED
  <2>1. Cardinality(DOMAIN evidence.snippets) = n
    BY <1>9 DEF s
  <2>2. /\ DOMAIN s = 1 .. n /\ n <= evidence.limit /\ (ranked # <<>> => n > 0)
        /\ read[n] <= evidence.budget
    <3>1. n <= limit
      BY <1>1, <1>7
    <3> QED
      BY <1>4, <1>8, <1>9, <1>13, <3>1
  <2> QED
    BY <1>14, <2>1, <2>2 DEF EvidenceIsHonest, s, read, SumsOf

-----------------------------------------------------------------------------
(* The behaviours. *)

\* The tokens of the issue match every candidate in one of the four ways; the lanes are
\* recalled and the results computed together; the evidence is computed from the results.
RankingInv ==
    /\ phase \in {"idle", "query", "ranked", "planned"}
    /\ phase # "idle" => QueryType
    /\ phase \in {"ranked", "planned"} => LanesType /\ ranked = FuseAndRerank(query, lanes)
    /\ phase = "planned" =>
         \E limit \in Evidences, budget \in Budgets :
             evidence = BoundedEvidence(ranked, limit, budget)

LEMMA ListsAre ==
    ASSUME NEW n \in 0 .. Smaller(LaneLimit, Cardinality(Candidates)), NEW lane \in Lists(n)
    PROVE  lane \in Seq(Candidates) /\ Len(lane) <= LaneLimit
<1>1. n \in Nat /\ n <= LaneLimit
  BY CandidatesAre, RankingLimitsAssumption DEF Smaller
<1>2. lane \in [1 .. n -> Candidates]
  BY DEF Lists
<1>3. lane \in Seq(Candidates) /\ DOMAIN lane = 1 .. n
  BY <1>1, <1>2, SeqDef
<1>4. Len(lane) = n
  BY <1>1, <1>3, LengthIs
<1> QED
  BY <1>1, <1>3, <1>4

LEMMA PersistRetrievalTypes ==
    ASSUME QueryType, PersistRetrieval
    PROVE  LanesType'
<1> DEFINE m == Smaller(LaneLimit, Cardinality(Candidates))
<1>1. PICK keyword \in KeywordLanes, vector \in VectorLanes :
        lanes' = [keyword |-> keyword, symbol |-> SymbolLane, vector |-> vector]
  BY DEF PersistRetrieval
<1>2. m \in 0 .. m
  BY CandidatesAre, RankingLimitsAssumption DEF Smaller
<1>3. PICK n \in 0 .. m : keyword \in Lists(n)
  BY DEF KeywordLanes
<1>4. /\ keyword \in Seq(Candidates) /\ Len(keyword) <= LaneLimit
      /\ vector \in Seq(Candidates) /\ Len(vector) <= LaneLimit
  BY <1>2, <1>3, ListsAre DEF VectorLanes
<1>5. SymbolLane \in Seq(Candidates) /\ Len(SymbolLane) <= LaneLimit
  BY SymbolLaneIs
<1> QED
  BY <1>1, <1>4, <1>5 DEF LanesType, Channels

LEMMA RankingInvariant == Spec => []RankingInv
<1>1. Init => RankingInv
  BY DEF Init, RankingInit, RankingInv
<1>2. RankingInv /\ [Next]_vars => RankingInv'
  <2> SUFFICES ASSUME RankingInv, [Next]_vars PROVE RankingInv'
    OBVIOUS
  <2>1. CASE Ask
    <3>1. query' \in [symbol : [Candidates -> SymbolScores], stem : [Paths -> BOOLEAN],
                      test : [Paths -> BOOLEAN], intent : BOOLEAN]
      BY <2>1 DEF Ask
    <3>2. QueryType'
      BY <3>1 DEF QueryType
    <3> QED
      BY <2>1, <3>2 DEF Ask, RankingInv
  <2>2. CASE PersistRetrieval
    <3>1. QueryType /\ QueryType'
      BY <2>2 DEF PersistRetrieval, RankingInv, QueryType
    <3>2. LanesType'
      BY <2>2, <3>1, PersistRetrievalTypes
    <3> QED
      BY <2>2, <3>1, <3>2 DEF PersistRetrieval, RankingInv
  <2>3. CASE EvidenceBundle
    BY <2>3 DEF EvidenceBundle, RankingInv, QueryType, LanesType
  <2>4. CASE UNCHANGED rankingVars
    BY <2>4 DEF rankingVars, RankingInv, QueryType, LanesType
  <2> QED
    BY <2>1, <2>2, <2>3, <2>4 DEF Next, RankingNext, vars
<1> QED
  BY <1>1, <1>2, PTL DEF Spec

\* RetrievalStore.persist_retrieval, fuse_and_rerank and _bounded_evidence: the results are
\* the best of the candidates and in order, no candidate overtakes one that is as good in
\* every lane, and what a plan is given is within the budget and says what is missing.
THEOREM RankingFair == Spec => []RankingIsFair
<1>1. RankingInv => RankingIsFair
  <2> SUFFICES ASSUME RankingInv, phase \in {"ranked", "planned"}
               PROVE  ResultsAreBest /\ NoOvertaking /\ EvidenceIsHonest
    BY DEF RankingIsFair
  <2>1. QueryType /\ LanesType /\ ranked = FuseAndRerank(query, lanes)
    BY DEF RankingInv
  <2>2. ResultsAreBest /\ NoOvertaking
    BY <2>1, BestResults, NoneOvertaken
  <2>3. CASE phase = "planned"
    <3>1. PICK limit \in Evidences, budget \in Budgets :
            evidence = BoundedEvidence(ranked, limit, budget)
      BY <2>3 DEF RankingInv
    <3>2. ranked \in Seq(Candidates)
      BY <2>1, Ranked, FoundIs
    <3> QED
      BY <2>2, <3>1, <3>2, HonestEvidence
  <2> QED
    BY <2>2, <2>3 DEF EvidenceIsHonest
<1> QED
  BY <1>1, RankingInvariant, PTL

LEMMA ChunkInvariant == Spec => []ChunkInv
<1>1. Init => ChunkInv
  BY ChunkInvInit DEF Init
<1>2. ChunkInv /\ [Next]_vars => ChunkInv'
  BY ChunkInvNext DEF Next, vars
<1> QED
  BY <1>1, <1>2, PTL DEF Spec

\* StructureVisitor, _add_file, get_structure and build_python_chunks, for files of any
\* length, symbols nested to any depth and any limits: no line of code is lost between the
\* windows, a symbol is found at its first line, chunks are unique and within the limits.
THEOREM FilesAreDescribed == Spec => []ChunksDescribeFile
<1>1. ChunkInv => ChunksDescribeFile
  BY ChunksOfInv
<1> QED
  BY <1>1, ChunkInvariant, PTL

=================================================================================
