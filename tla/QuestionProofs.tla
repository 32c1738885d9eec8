----------------------------- MODULE QuestionProofs ----------------------------
(***************************************************************************)
(* Theorems about Question, for every library, request, ranking and length *)
(* of answer. AskTypes gives the request, the search and the stream their  *)
(* types, RankInv follows the two rankings into the order of the hits,     *)
(* CostInv says what a turn has paid at each stage, and ThreadInv that a   *)
(* thread keeps a question away from the cache.                            *)
(***************************************************************************)
EXTENDS Question, ListProofs

-----------------------------------------------------------------------------
(* Two ranks within the pool beat one.                                     *)

\* 1/u + 1/v > 6/5r for all u, v up to 99 and r from 60.
LEMMA TwoReciprocals ==
    ASSUME NEW u \in 60..99, NEW v \in 60..99, NEW r \in Int, r >= 60
    PROVE  /\ u * v > 0 /\ (u + v) * r > 0
           /\ 6 * (u * v) < 5 * ((u + v) * r)
<1>1. u * v <= 99 * u /\ u * v <= 99 * v /\ u * v > 0
  OBVIOUS
<1>2. (u + v) * r >= 60 * (u + v)
  OBVIOUS
<1> DEFINE p == u * v
           q == (u + v) * r
<1>3. p \in Int /\ q \in Int
  OBVIOUS
<1>4. p <= 99 * u /\ p <= 99 * v /\ p > 0 /\ q >= 60 * (u + v)
  BY <1>1, <1>2
<1> HIDE DEF p, q
<1>5. q > 0 /\ 6 * p < 5 * q
  BY <1>3, <1>4
<1> QED BY <1>4, <1>5 DEF p, q

\* What a rank counted from 0 adds, in a ranking no longer than the pool.
LEMMA RankIsInPool ==
    ASSUME NEW order \in Seq(Chunk), Len(order) <= CandidatePool, NEW c \in ToSet(order)
    PROVE  \E u \in 60..99 : Share(order, c) = <<1, u>>
<1>1. PICK i \in DOMAIN order : order[i] = c
  BY DEF ToSet
<1> DEFINE n == CHOOSE j \in DOMAIN order : order[j] = c
<1>2. n \in DOMAIN order
  BY <1>1
<1>3. RankIn(order, c) = n - 1
  BY DEF RankIn
<1> HIDE DEF n
<1>4. DOMAIN order = 1..Len(order) /\ Len(order) \in Nat
  OBVIOUS
<1>5. n \in Int /\ 1 <= n /\ n <= 40
  BY <1>2, <1>4, PoolAssumption
<1>6. 60 + (n - 1) \in 60..99
  BY <1>5
<1> QED BY <1>3, <1>6 DEF Share, Reciprocal, rrfK

\* The heart of fuse: a chunk in both rankings scores above one that is in one
\* of them only, even when a person vouched for the latter.
LEMMA BothScoreAbove ==
    ASSUME NEW near1 \in Seq(Chunk), Len(near1) <= CandidatePool,
           NEW matching1 \in Seq(Chunk), Len(matching1) <= CandidatePool,
           NEW c \in ToSet(near1) \cap ToSet(matching1),
           NEW e \in (ToSet(near1) \cup ToSet(matching1)) \ (ToSet(near1) \cap ToSet(matching1))
    PROVE  Below(Score(near1, matching1, e), Score(near1, matching1, c))
<1>1. PICK u \in 60..99 : Share(near1, c) = <<1, u>>
  BY RankIsInPool
<1>2. PICK v \in 60..99 : Share(matching1, c) = <<1, v>>
  BY RankIsInPool
<1>3. fuse(near1, matching1)[c] = <<u + v, u * v>>
  <2>1. Plus(<<1, u>>, <<1, v>>) = <<u + v, u * v>>
    BY DEF Plus
  <2> QED BY <1>1, <1>2, <2>1 DEF fuse
<1>4. PICK r \in 60..99 : fuse(near1, matching1)[e] = <<1, r>>
  <2>1. CASE e \in ToSet(near1)
    <3>1. PICK r \in 60..99 : Share(near1, e) = <<1, r>>
      BY <2>1, RankIsInPool
    <3>2. Share(matching1, e) = <<0, 1>>
      BY <2>1 DEF Share
    <3>3. Plus(<<1, r>>, <<0, 1>>) = <<1, r>>
      BY DEF Plus
    <3> QED BY <3>1, <3>2, <3>3 DEF fuse
  <2>2. CASE e \in ToSet(matching1)
    <3>1. PICK r \in 60..99 : Share(matching1, e) = <<1, r>>
      BY <2>2, RankIsInPool
    <3>2. Share(near1, e) = <<0, 1>>
      BY <2>2 DEF Share
    <3>3. Plus(<<0, 1>>, <<1, r>>) = <<1, r>>
      BY DEF Plus
    <3> QED BY <3>1, <3>2, <3>3 DEF fuse
  <2> QED BY <2>1, <2>2
<1> DEFINE p == u * v
           q == (u + v) * r
<1>5. p \in Int /\ q \in Int /\ p > 0 /\ 6 * p < 5 * q
  BY TwoReciprocals
<1>6. Score(near1, matching1, c) \in {<<u + v, p>>, <<6 * (u + v), 5 * p>>}
  BY <1>3 DEF Score, Boosted
<1>7. Score(near1, matching1, e) \in {<<1, r>>, <<6, 5 * r>>}
  <2>1. Boosted(<<1, r>>) = <<6, 5 * r>>
    BY DEF Boosted
  <2> QED BY <1>4, <2>1 DEF Score
<1>8. /\ Below(<<1, r>>, <<u + v, p>>) <=> p < q
      /\ Below(<<1, r>>, <<6 * (u + v), 5 * p>>) <=> 5 * p < 6 * q
      /\ Below(<<6, 5 * r>>, <<u + v, p>>) <=> 6 * p < 5 * q
      /\ Below(<<6, 5 * r>>, <<6 * (u + v), 5 * p>>) <=> 30 * p < 30 * q
  BY DEF Below
<1>9. p < q /\ 5 * p < 6 * q /\ 30 * p < 30 * q
  <2> HIDE DEF p, q
  <2> QED BY <1>5
<1> QED BY <1>5, <1>6, <1>7, <1>8, <1>9
-----------------------------------------------------------------------------
(* The hits are in the order of their scores.                              *)

\* Every chunk of a list was found, and none is above one of a higher score.
Ranked(list, near1, matching1) ==
    /\ \A i \in DOMAIN list : list[i] \in ToSet(near1) \cup ToSet(matching1)
    /\ \A i, j \in DOMAIN list :
           i < j => ~ Below(Score(near1, matching1, list[i]), Score(near1, matching1, list[j]))

LEMMA FirstOfIsRanked ==
    ASSUME NEW near1, NEW matching1, NEW s \in Seq(Chunk), NEW n \in Nat,
           Ranked(s, near1, matching1)
    PROVE  /\ FirstOf(s, n) \in Seq(Chunk) /\ Len(FirstOf(s, n)) <= n
           /\ Ranked(FirstOf(s, n), near1, matching1)
<1> DEFINE m == IF Len(s) < n THEN Len(s) ELSE n
<1>1. m \in Nat /\ m <= Len(s) /\ m <= n
  OBVIOUS
<1> HIDE DEF m
<1>2. SubSeq(s, 1, m) \in Seq(Chunk) /\ Len(SubSeq(s, 1, m)) = m
  BY <1>1
<1>3. DOMAIN SubSeq(s, 1, m) = 1..m /\ 1..m \subseteq DOMAIN s
  BY <1>1, <1>2
<1>4. \A i \in 1..m : SubSeq(s, 1, m)[i] = s[i]
  BY <1>1
<1>5. FirstOf(s, n) = SubSeq(s, 1, m)
  BY DEF FirstOf, m
<1>6. 1..m \subseteq Int
  OBVIOUS
<1> QED BY <1>1, <1>2, <1>3, <1>4, <1>5 DEF Ranked

\* A cap takes chunks away and moves none.
LEMMA CapKeepsOrder ==
    ASSUME NEW near1, NEW matching1, NEW t \in Seq(Chunk), Ranked(t, near1, matching1),
           NEW s \in capPerDoc(t)
    PROVE  s \in Seq(Chunk) /\ Ranked(s, near1, matching1)
<1>1. CASE s = t
  BY <1>1
<1>2. CASE s # t
  <2>1. PICK walk \in InOrder(Uncrowded(t)) : s = [i \in DOMAIN walk |-> t[walk[i]]]
    BY <1>2 DEF capPerDoc
  <2>2. Uncrowded(t) \subseteq DOMAIN t /\ DOMAIN t = 1..Len(t)
    BY DEF Uncrowded
  <2>3. IsFiniteSet(Uncrowded(t))
    <3>1. IsFiniteSet(1..Len(t))
      BY FS_Interval
    <3> QED BY <2>2, <3>1, FS_Subset
  <2>4. Cardinality(Uncrowded(t)) \in Nat
    BY <2>3, FS_CardinalityType
  <2> DEFINE n == Cardinality(Uncrowded(t))
  <2>5. /\ walk \in [1..n -> Uncrowded(t)]
        /\ \A i, j \in 1..n : i < j => walk[i] < walk[j]
    BY <2>1 DEF InOrder
  <2> HIDE DEF n
  <2>6. n \in Nat
    BY <2>4 DEF n
  <2>7. DOMAIN s = 1..n /\ \A i \in 1..n : walk[i] \in DOMAIN t /\ s[i] = t[walk[i]]
    BY <2>1, <2>2, <2>5
  <2>8. s \in Seq(Chunk)
    <3>1. \A i \in 1..n : s[i] \in Chunk
      BY <2>7
    <3>2. s = [i \in 1..n |-> s[i]]
      BY <2>1, <2>7
    <3> QED BY <2>6, <2>7, <3>1, <3>2
  <2>9. Ranked(s, near1, matching1)
    BY <2>5, <2>7 DEF Ranked
  <2> QED BY <2>8, <2>9
<1> QED BY <1>1, <1>2

LEMMA HitsAreRanked ==
    ASSUME NEW near1, NEW matching1, NEW there, NEW n \in Nat,
           (ToSet(near1) \cup ToSet(matching1)) \cap there \subseteq Chunk,
           NEW h \in loadHits(near1, matching1, there, n)
    PROVE  h \in Seq(Chunk) /\ Ranked(h, near1, matching1)
<1> DEFINE chunks == (ToSet(near1) \cup ToSet(matching1)) \cap there
<1>1. PICK t \in Sorted(chunks, near1, matching1) : \E s \in capPerDoc(t) : h = FirstOf(s, n)
  BY DEF loadHits
<1>2. PICK s \in capPerDoc(t) : h = FirstOf(s, n)
  BY <1>1
<1>3. Cardinality(chunks) \in Nat
  BY FiniteAssumption, FS_Subset, FS_CardinalityType
<1>4. t \in [1..Cardinality(chunks) -> chunks]
  BY <1>1 DEF Sorted, SetToSeqs
<1>5. t \in Seq(Chunk) /\ \A i \in DOMAIN t : t[i] \in chunks
  <2> DEFINE m == Cardinality(chunks)
  <2> HIDE DEF m, chunks
  <2>1. m \in Nat /\ t \in [1..m -> chunks]
    BY <1>3, <1>4 DEF m
  <2>2. t \in Seq(chunks)
    BY <2>1
  <2>3. chunks \subseteq Chunk
    BY DEF chunks
  <2> QED BY <2>1, <2>2, <2>3
<1>6. Ranked(t, near1, matching1)
  <2>1. \A i, j \in DOMAIN t :
            i < j => ~ Below(Score(near1, matching1, t[i]), Score(near1, matching1, t[j]))
    BY <1>1 DEF Sorted
  <2> QED BY <1>5, <2>1 DEF Ranked
<1> QED BY <1>2, <1>5, <1>6, CapKeepsOrder, FirstOfIsRanked

RankInv ==
    /\ near \in Seq(Chunk) /\ Len(near) <= CandidatePool
    /\ matching \in Seq(Chunk) /\ Len(matching) <= CandidatePool
    /\ hits \in Seq(Chunk) /\ (pc # "fit" => hits = <<>>)
    /\ Ranked(hits, near, matching)

\* A ranking is some order of chunks, cut to the pool.
LEMMA CandidatesFit ==
    ASSUME NEW found \in SUBSET Chunk, NEW order \in SetToSeqs(found)
    PROVE  /\ FirstOf(order, CandidatePool) \in Seq(Chunk)
           /\ Len(FirstOf(order, CandidatePool)) <= CandidatePool
<1>1. Cardinality(found) \in Nat
  BY FiniteAssumption, FS_Subset, FS_CardinalityType
<1>2. order \in Seq(Chunk)
  BY <1>1 DEF SetToSeqs
<1> DEFINE m == IF Len(order) < CandidatePool THEN Len(order) ELSE CandidatePool
<1>3. m \in Nat /\ m <= Len(order) /\ m <= CandidatePool
  BY <1>2, PoolAssumption
<1> HIDE DEF m
<1>4. SubSeq(order, 1, m) \in Seq(Chunk) /\ Len(SubSeq(order, 1, m)) = m
  BY <1>2, <1>3
<1> QED BY <1>3, <1>4 DEF FirstOf, m

LEMMA NoneIsRanked == \A near1, matching1 : Ranked(<<>>, near1, matching1)
BY DEF Ranked

\* The search stays among the chunks there may be.
LEMMA InScopeIsChunk == ask.scope \subseteq Document => InScope \subseteq Chunk
BY DEF InScope, ChunksOf, Chunk

\* Reading a request changes neither its scope nor the public search it lacks.
LEMMA ReadKeepsScope ==
    ASSUME NEW a \in Ask
    PROVE  /\ readQuestion(a).scope = a.scope
           /\ readQuestion(a).websearch = (a.websearch /\ CanSearch)
BY DEF readQuestion, Ask

RankTypes == (pc = "new" => ask \in Ask) /\ ask.scope \subseteq Document /\ RankInv

\* No question is asked twice.
LEMMA NewOnce == [AskNext]_askVars => (pc' = "new" => pc = "new" /\ ask' = ask)
<1> SUFFICES ASSUME [AskNext]_askVars, pc' = "new" PROVE pc = "new" /\ ask' = ask
  OBVIOUS
<1>1. CASE Receive \/ SmallTalk \/ Recent \/ Count \/ ListCounted \/ NotEarly
  BY <1>1 DEF Receive, SmallTalk, Recent, Count, ListCounted, NotEarly, Reply, GoOn, request
<1>2. CASE Rewritten \/ ReadSig \/ LookUp \/ Embed
  BY <1>2 DEF Rewritten, ReadSig, LookUp, Embed, Reply, Fail, request
<1>3. CASE VectorCandidates \/ KeywordCandidates \/ Load \/ Fit \/ Supplement
  BY <1>3 DEF VectorCandidates, KeywordCandidates, Load, Fit, Supplement, Reply, Fail, request
<1>4. CASE UsageFrame \/ TokenFrame \/ StreamEnds \/ Settle
  BY <1>4 DEF UsageFrame, TokenFrame, StreamEnds, Settle, Reply, Fail, request
<1>5. CASE Leave \/ Change \/ UNCHANGED askVars
  BY <1>5 DEF Leave, Change, request, askVars
<1> QED BY <1>1, <1>2, <1>3, <1>4, <1>5 DEF AskNext

LEMMA RankInit == AskInit => RankTypes
<1> SUFFICES ASSUME AskInit PROVE RankTypes
  OBVIOUS
<1>1. ask \in Ask
  BY AsksAssumption DEF AskInit
<1>2. <<>> \in Seq(Chunk) /\ Len(<<>>) = 0 /\ CandidatePool \in 1..40
  BY PoolAssumption
<1>3. ask.scope \subseteq Document
  BY <1>1 DEF Ask
<1>4. pc = "new" /\ near = <<>> /\ matching = <<>> /\ hits = <<>>
  BY DEF AskInit
<1>5. Ranked(<<>>, <<>>, <<>>)
  BY NoneIsRanked
<1>6. RankInv
  BY ONLY <1>2, <1>4, <1>5 DEF RankInv
<1> QED BY ONLY <1>1, <1>3, <1>6 DEF RankTypes

LEMMA RankStep == RankTypes /\ [AskNext]_askVars => RankTypes'
<1> SUFFICES ASSUME RankTypes, [AskNext]_askVars PROVE RankTypes'
  OBVIOUS
<1> USE DEF RankTypes, RankInv
<1>0. pc' = "new" => pc = "new" /\ ask' = ask
  BY NewOnce
\* Most steps leave the search alone, and only Load begins stage fit with hits.
<1>1. ASSUME UNCHANGED <<near, matching, hits>>, hits = <<>> \/ pc' = pc,
             ask'.scope = ask.scope
      PROVE  RankTypes'
  BY <1>0, <1>1
<1>2. CASE Receive
  <2>1. ask'.scope = ask.scope
    BY <1>2, ReadKeepsScope DEF Receive
  <2> QED BY <1>1, <1>2, <2>1 DEF Receive, search
<1>3. CASE VectorCandidates
  <2>1. CASE UNCHANGED near
    BY <1>1, <1>3, <2>1 DEF VectorCandidates, request
  <2>2. CASE \E order \in SetToSeqs(InScope) : near' = FirstOf(order, CandidatePool)
    <3>1. near' \in Seq(Chunk) /\ Len(near') <= CandidatePool
      BY <2>2, InScopeIsChunk, CandidatesFit
    <3>2. hits' = <<>> /\ matching' = matching /\ ask' = ask
      BY <1>3 DEF VectorCandidates, request
    <3> QED BY <1>0, <3>1, <3>2, NoneIsRanked
  <2> QED BY <1>3, <2>1, <2>2 DEF VectorCandidates
<1>4. CASE KeywordCandidates
  <2>1. matching' \in Seq(Chunk) /\ Len(matching') <= CandidatePool
    <3>1. PICK found \in SUBSET InScope : \E order \in SetToSeqs(found) :
              matching' = FirstOf(order, CandidatePool)
      BY <1>4 DEF KeywordCandidates
    <3> QED BY <3>1, InScopeIsChunk, CandidatesFit
  <2>2. hits' = <<>> /\ near' = near /\ ask' = ask
    BY <1>4 DEF KeywordCandidates, request
  <2> QED BY <1>0, <2>1, <2>2, NoneIsRanked
<1>5. CASE Load
  <2>1. CASE UNCHANGED hits
    BY <1>1, <1>5, <2>1 DEF Load, request
  <2>2. CASE hits' \in loadHits(near, matching, ChunksOf(ToSet(live)), k) /\ pc' = "fit"
    <3>1. k \in Nat
      BY PoolAssumption, WidthAssumption DEF k
    <3>2. ToSet(near) \cup ToSet(matching) \subseteq Chunk
      BY DEF ToSet
    <3>3. Ranked(hits', near, matching)
      BY <2>2, <3>1, <3>2, HitsAreRanked
    <3>4. near' = near /\ matching' = matching /\ ask' = ask
      BY <1>5 DEF Load, request
    <3>5. hits' \in Seq(Chunk)
      BY <2>2, <3>1, <3>2, HitsAreRanked
    <3> QED BY <2>2, <3>3, <3>4, <3>5
  <2> QED BY <1>5, <2>1, <2>2 DEF Load
<1>6. CASE Fit
  <2>1. near' = <<>> /\ matching' = <<>> /\ hits' = <<>> /\ ask' = ask
    BY <1>6 DEF Fit, request
  <2>2. <<>> \in Seq(Chunk) /\ Len(<<>>) = 0 /\ CandidatePool \in 1..40
    BY PoolAssumption
  <2>3. Ranked(hits', near', matching')
    BY <2>1 DEF Ranked
  <2> QED BY <1>0, <2>1, <2>2, <2>3
<1>7. CASE SmallTalk \/ Recent \/ Count \/ ListCounted \/ NotEarly \/ Rewritten \/ ReadSig
           \/ LookUp \/ Embed \/ Supplement
  BY <1>1, <1>7 DEF SmallTalk, Recent, Count, ListCounted, NotEarly, Rewritten, ReadSig,
     LookUp, Embed, Supplement, search, request
<1>8. CASE UsageFrame \/ TokenFrame \/ StreamEnds \/ Settle \/ Leave \/ Change
  BY <1>1, <1>8 DEF UsageFrame, TokenFrame, StreamEnds, Settle, Leave, Change, search, request
<1>9. CASE UNCHANGED askVars
  BY <1>1, <1>9 DEF askVars
<1> QED BY <1>2, <1>3, <1>4, <1>5, <1>6, <1>7, <1>8, <1>9 DEF AskNext

\* The two rankings agree with the order of the hits.
LEMMA RankedPutsBothFirst == RankTypes => BothBeatOne
<1> SUFFICES ASSUME RankTypes, pc = "fit", NEW i \in DOMAIN hits, NEW j \in DOMAIN hits,
                    hits[i] \in ToSet(near) \cap ToSet(matching),
                    hits[j] \notin ToSet(near) \cap ToSet(matching)
             PROVE  i < j
  BY DEF BothBeatOne
<1>1. hits[j] \in (ToSet(near) \cup ToSet(matching)) \ (ToSet(near) \cap ToSet(matching))
  BY DEF RankTypes, RankInv, Ranked
<1>2. Below(Score(near, matching, hits[j]), Score(near, matching, hits[i]))
  BY <1>1, BothScoreAbove DEF RankTypes, RankInv
<1>3. ~(j < i) /\ i # j
  BY <1>1, <1>2 DEF RankTypes, RankInv, Ranked
<1>4. i \in Int /\ j \in Int
  BY DEF RankTypes, RankInv
<1> QED BY <1>3, <1>4

\* A chunk that both retrievers found comes before one that one of them found,
\* vouched for or not, whatever the rankings (store.go, fuse, hits). The bound
\* of the pool, 40, is the largest for which it holds.
THEOREM BothBeatOneCorrect == AskSpec => []BothBeatOne
BY RankInit, RankStep, RankedPutsBothFirst, PTL DEF AskSpec
-----------------------------------------------------------------------------
(* A thread stays out of the cache.                                        *)

ThreadInv ==
    /\ cacheable => ~ inThread
    /\ pc = "new" => ~ cacheable
    /\ pc \in {"sig", "lookup"} => ~ inThread

LEMMA SameThread == ask' = ask => turns' = turns
BY DEF turns

LEMMA ThreadStep == ThreadInv /\ [AskNext]_askVars => ThreadInv'
<1> SUFFICES ASSUME ThreadInv, [AskNext]_askVars PROVE ThreadInv'
  OBVIOUS
<1> USE SameThread DEF ThreadInv, inThread
<1>0. pc' = "new" => pc = "new" /\ ask' = ask
  BY NewOnce
<1>1. CASE Receive
  BY <1>1 DEF Receive, cache
<1>2. CASE SmallTalk \/ Recent \/ Count \/ ListCounted \/ NotEarly
  BY <1>0, <1>2 DEF SmallTalk, Recent, Count, ListCounted, NotEarly, Reply, GoOn, request, cache
<1>3. CASE Rewritten \/ ReadSig \/ LookUp \/ Embed
  <2>1. CASE Rewritten
    BY <1>0, <2>1 DEF Rewritten, request, cache
  <2>2. CASE ReadSig
    BY <1>0, <2>2 DEF ReadSig, request
  <2>3. CASE LookUp
    BY <1>0, <2>3 DEF LookUp, Reply, request, cache
  <2>4. CASE Embed
    BY <1>0, <2>4 DEF Embed, Fail, request, cache
  <2> QED BY <1>3, <2>1, <2>2, <2>3, <2>4
<1>4. CASE VectorCandidates \/ KeywordCandidates \/ Load \/ Fit \/ Supplement
  BY <1>0, <1>4 DEF VectorCandidates, KeywordCandidates, Load, Fit, Supplement, Reply, Fail,
     request, cache
<1>5. CASE UsageFrame \/ TokenFrame \/ StreamEnds \/ Settle
  <2>1. CASE UsageFrame
    BY <1>0, <2>1 DEF UsageFrame, request, cache
  <2>2. CASE TokenFrame
    BY <1>0, <2>2 DEF TokenFrame, request, cache
  <2>3. CASE StreamEnds
    BY <1>0, <2>3 DEF StreamEnds, Fail, request, cache
  <2>4. CASE Settle
    BY <1>0, <2>4 DEF Settle, Reply, request
  <2> QED BY <1>5, <2>1, <2>2, <2>3, <2>4
<1>6. CASE Leave \/ Change \/ UNCHANGED askVars
  <2>1. CASE Leave
    BY <1>0, <2>1 DEF Leave, request, cache
  <2>2. CASE Change
    BY <1>0, <2>2 DEF Change, request, cache
  <2>3. CASE UNCHANGED askVars
    BY <1>0, <2>3 DEF askVars
  <2> QED BY <1>6, <2>1, <2>2, <2>3
<1> QED BY <1>1, <1>2, <1>3, <1>4, <1>5, <1>6 DEF AskNext

\* Only Settle writes a row, and only for a question that may be cached.
LEMMA ThreadKeptOut ==
    ThreadInv /\ [AskNext]_askVars =>
        ((rows' # rows \/ (pc = "lookup" /\ pc' = "done")) => ~ inThread)
<1> SUFFICES ASSUME ThreadInv, AskNext, rows' # rows PROVE cacheable
  BY DEF ThreadInv, askVars
<1>1. CASE Settle
  BY <1>1 DEF Settle, Store
<1>2. CASE SmallTalk \/ Recent \/ Count \/ ListCounted \/ NotEarly \/ Receive \/ Rewritten
           \/ ReadSig \/ LookUp \/ Embed
  BY <1>2 DEF SmallTalk, Recent, Count, ListCounted, NotEarly, Receive, Rewritten, ReadSig,
     LookUp, Embed, cache
<1>3. CASE VectorCandidates \/ KeywordCandidates \/ Load \/ Fit \/ Supplement \/ UsageFrame
           \/ TokenFrame \/ StreamEnds \/ Leave \/ Change
  BY <1>3 DEF VectorCandidates, KeywordCandidates, Load, Fit, Supplement, UsageFrame,
     TokenFrame, StreamEnds, Leave, Change, cache
<1> QED BY <1>1, <1>2, <1>3 DEF AskNext

\* Whatever the thread, the window and the library, a question in a thread
\* neither reads the cache nor writes it (rag.go, Answer).
THEOREM ThreadStaysOutCorrect == AskSpec => ThreadStaysOut
<1>1. AskInit => ThreadInv
  BY DEF AskInit, ThreadInv
<1> QED BY <1>1, ThreadStep, ThreadKeptOut, PTL DEF AskSpec, ThreadStaysOut
-----------------------------------------------------------------------------
(* What was paid for is carried to the end.                                *)

\* A completion still being heard may owe what it cost.
Hearing == pc \in {"rewrite", "answer"} /\ heard.end = ""
Owed == IF Hearing THEN heard.usage ELSE 0

\* The stages before the first thing that is bought has come to its end.
Unpaid == {"new", "early", "list", "rewrite", "sig", "lookup"}

StreamEnd == {"", "DONE", "EOF"}
Heard == [text : Seq(Token), usage : Int, end : StreamEnd]

CostInv ==
    /\ heard \in Heard
    /\ usage \in Int /\ billed \in Int /\ billed = usage + Owed
    /\ pc \notin {"rewrite", "answer", "failed"} => heard = NothingHeard
    /\ pc = "rewrite" => heard.end = ""
    /\ pc \in Unpaid => usage = 0

LEMMA NothingIsHeard ==
    /\ NothingHeard \in Heard
    /\ NothingHeard.usage = 0 /\ NothingHeard.end = ""
<1>1. <<>> \in Seq(Token)
  OBVIOUS
<1>2. "" \in StreamEnd
  BY DEF StreamEnd
<1>3. NothingHeard.usage = 0 /\ NothingHeard.end = ""
  BY DEF NothingHeard
<1>4. 0 \in Int
  OBVIOUS
<1>5. NothingHeard \in Heard
  BY <1>1, <1>2, <1>4 DEF NothingHeard, Heard
<1> QED BY <1>3, <1>5

LEMMA HeardParts ==
    ASSUME NEW h \in Heard
    PROVE  /\ h.text \in Seq(Token) /\ h.usage \in Int /\ h.end \in StreamEnd
           /\ [h EXCEPT !.usage = 1] = [text |-> h.text, usage |-> 1, end |-> h.end]
           /\ \A e : [h EXCEPT !.end = e] = [text |-> h.text, usage |-> h.usage, end |-> e]
           /\ \A x : [h EXCEPT !.text = x] = [text |-> x, usage |-> h.usage, end |-> h.end]
<1>1. h.text \in Seq(Token) /\ h.usage \in Int /\ h.end \in StreamEnd
  BY DEF Heard
<1>2. [h EXCEPT !.usage = 1] = [text |-> h.text, usage |-> 1, end |-> h.end]
  BY DEF Heard
<1>3. ASSUME NEW e
      PROVE  [h EXCEPT !.end = e] = [text |-> h.text, usage |-> h.usage, end |-> e]
  BY DEF Heard
<1>4. ASSUME NEW x
      PROVE  [h EXCEPT !.text = x] = [text |-> x, usage |-> h.usage, end |-> h.end]
  BY DEF Heard
<1> QED BY <1>1, <1>2, <1>3, <1>4

LEMMA AppendIsHeard ==
    ASSUME NEW text \in Seq(Token), NEW t \in Token PROVE Append(text, t) \in Seq(Token)
OBVIOUS

LEMMA CostStep == CostInv /\ [AskNext]_askVars => CostInv'
<1> SUFFICES ASSUME CostInv, [AskNext]_askVars PROVE CostInv'
  OBVIOUS
<1> USE NothingIsHeard DEF CostInv, Owed, Hearing, Unpaid
\* A step that hears nothing and buys no completion.
<1>0. ASSUME UNCHANGED <<heard, usage, billed>>, heard = NothingHeard,
             pc' = "rewrite" => pc \in {"early", "list", "rewrite"},
             pc' \in Unpaid => pc \in Unpaid
      PROVE  CostInv'
  BY <1>0
<1>1. CASE Receive \/ SmallTalk \/ Recent \/ Count \/ ListCounted \/ NotEarly
  BY <1>0, <1>1 DEF Receive, SmallTalk, Recent, Count, ListCounted, NotEarly, Reply, GoOn, spent
<1>2. CASE ReadSig \/ LookUp \/ Embed
  BY <1>0, <1>2 DEF ReadSig, LookUp, Embed, Reply, Fail, spent
<1>3. CASE VectorCandidates \/ KeywordCandidates \/ Load \/ Fit \/ Supplement
  BY <1>0, <1>3 DEF VectorCandidates, KeywordCandidates, Load, Fit, Supplement, Reply, Fail, spent
<1>h. /\ heard \in Heard /\ heard.text \in Seq(Token) /\ heard.usage \in Int
      /\ heard.end \in StreamEnd /\ usage \in Int /\ billed \in Int
  BY ONLY CostInv, HeardParts DEF CostInv
<1>s. \A x, y \in Int : (x + y) + 1 - y = x + 1 /\ x + y \in Int /\ x + 0 = x /\ x + 1 \in Int
  BY ONLY TRUE
<1>4. CASE UsageFrame
  <2>1. /\ pc \in {"rewrite", "answer"} /\ heard.end = "" /\ pc' = pc
        /\ billed' = billed + 1 - heard.usage /\ usage' = usage
        /\ heard' = [heard EXCEPT !.usage = 1]
    BY ONLY <1>4 DEF UsageFrame
  <2>2. heard' = [text |-> heard.text, usage |-> 1, end |-> heard.end]
    BY ONLY <2>1, <1>h, HeardParts
  <2>3. heard' \in Heard
    <3>1. 1 \in Int
      BY ONLY TRUE
    <3> QED BY ONLY <2>2, <3>1, <1>h DEF Heard
  <2>4. billed = usage + heard.usage /\ Owed' = 1
    BY <2>1, <2>2
  <2>5. billed' = usage + 1 /\ billed' \in Int
    <3>1. billed' = (usage + heard.usage) + 1 - heard.usage /\ heard.usage \in Int
      BY ONLY <1>h, <2>1, <2>4
    <3> QED BY ONLY <1>h, <3>1
  <2>6. billed' = usage' + Owed'
    BY ONLY <2>1, <2>4, <2>5
  <2> QED BY <1>h, <2>1, <2>2, <2>3, <2>5, <2>6
<1>5. CASE Rewritten
  <2>1. /\ pc = "rewrite" /\ pc' = "embed" /\ heard' = NothingHeard /\ billed' = billed
        /\ usage' = usage + heard.usage
    BY <1>5 DEF Rewritten
  <2>2. billed = usage + heard.usage /\ Owed' = 0
    BY <2>1
  <2>3. billed' = usage' + Owed' /\ usage' \in Int
    BY ONLY <1>h, <1>s, <2>1, <2>2
  <2> QED BY <2>1, <2>3
<1>6. CASE TokenFrame
  <2>1. PICK t \in Token : heard' = [heard EXCEPT !.text = Append(@, t)]
    BY ONLY <1>6 DEF TokenFrame
  <2>2. heard' = [text |-> Append(heard.text, t), usage |-> heard.usage, end |-> heard.end]
    BY ONLY <2>1, <1>h, HeardParts
  <2>3. heard' \in Heard
    BY ONLY <2>2, <1>h, AppendIsHeard DEF Heard
  <2>4. pc = "answer" /\ pc' = pc /\ usage' = usage /\ billed' = billed
    BY ONLY <1>6 DEF TokenFrame, spent
  <2> QED BY <2>2, <2>3, <2>4
<1>7. CASE StreamEnds
  <2>1. pc = "answer" /\ heard.end = "" /\ usage' = usage + heard.usage /\ billed' = billed
    BY <1>7 DEF StreamEnds
  <2>2. billed' = usage' /\ usage' \in Int
    BY <1>h, <2>1
  <2>3. CASE \E end \in {"DONE", "EOF"} : heard' = [heard EXCEPT !.end = end] /\ pc' = pc
    <3>1. PICK end \in {"DONE", "EOF"} : heard' = [heard EXCEPT !.end = end]
      BY ONLY <2>3
    <3>2. heard' = [text |-> heard.text, usage |-> heard.usage, end |-> end]
      BY ONLY <3>1, <1>h, HeardParts
    <3>3. heard' \in Heard
      <4>1. end \in StreamEnd
        BY ONLY <3>1 DEF StreamEnd
      <4> QED BY ONLY <3>2, <4>1, <1>h DEF Heard
    <3>4. Owed' = 0 /\ pc' = "answer"
      BY <2>1, <2>3, <3>2
    <3>5. billed' = usage' + Owed'
      BY ONLY <2>2, <3>4, <1>s
    <3> QED BY <1>h, <2>1, <2>2, <3>3, <3>4, <3>5
  <2>4. CASE pc' = "failed" /\ heard' = heard
    <3>1. Owed' = 0
      BY <2>4
    <3>2. billed' = usage' + Owed'
      BY ONLY <2>2, <3>1, <1>s
    <3> QED BY <1>h, <2>1, <2>2, <2>4, <3>1, <3>2
  <2> QED BY <1>7, <2>3, <2>4 DEF StreamEnds, Fail
<1>8. CASE Settle
  BY <1>8 DEF Settle, Reply, spent
<1>9. CASE Leave \/ Change
  BY <1>9 DEF Leave, Change, spent
<1>10. CASE UNCHANGED askVars
  BY <1>10 DEF askVars
<1> QED BY <1>1, <1>2, <1>3, <1>4, <1>5, <1>6, <1>7, <1>8, <1>9, <1>10 DEF AskNext

\* A list of what it holds.
IsList(s) == s \in Seq(ToSet(s))

LEMMA ListsJoined ==
    ASSUME NEW s, NEW t, IsList(s), IsList(t)
    PROVE  IsList(s \o t) /\ ToSet(s \o t) \subseteq ToSet(s) \cup ToSet(t)
<1> DEFINE A == ToSet(s) \cup ToSet(t)
<1>1. s \in Seq(A) /\ t \in Seq(A)
  BY DEF IsList
<1> HIDE DEF A
<1>2. s \o t \in Seq(A)
  BY <1>1
<1> DEFINE u == s \o t
<1>3. u \in Seq(A)
  BY <1>2
<1> HIDE DEF u
<1>4. /\ DOMAIN u = 1..Len(u) /\ Len(u) \in Nat
      /\ \A i \in DOMAIN u : u[i] \in A
      /\ u = [i \in 1..Len(u) |-> u[i]]
  BY <1>3
<1>5. ToSet(u) \subseteq A
  BY <1>4 DEF ToSet
<1>6. \A i \in 1..Len(u) : u[i] \in ToSet(u)
  BY <1>4 DEF ToSet
<1>7. u \in Seq(ToSet(u))
  BY <1>4, <1>6
<1> QED BY <1>5, <1>7 DEF A, u, IsList

LEMMA SeqOfItsOwn == ASSUME NEW S, NEW s \in Seq(S) PROVE IsList(s)
<1>1. DOMAIN s = 1..Len(s) /\ Len(s) \in Nat /\ s = [i \in 1..Len(s) |-> s[i]]
  OBVIOUS
<1>2. \A i \in 1..Len(s) : s[i] \in ToSet(s)
  BY <1>1 DEF ToSet
<1>3. s \in [1..Len(s) -> ToSet(s)]
  BY <1>1, <1>2
<1> QED BY <1>1, <1>3 DEF IsList

LEMMA OneIsList == ASSUME NEW x PROVE IsList(<<x>>) /\ ToSet(<<x>>) = {x}
<1>1. ToSet(<<x>>) = {x}
  BY DEF ToSet
<1>2. <<x>> \in Seq({x})
  OBVIOUS
<1> QED BY <1>1, <1>2 DEF IsList

LEMMA TwoAreList == ASSUME NEW x, NEW y PROVE IsList(<<x, y>>) /\ ToSet(<<x, y>>) = {x, y}
<1>1. ToSet(<<x, y>>) = {x, y}
  BY DEF ToSet
<1>2. <<x, y>> \in Seq({x, y})
  OBVIOUS
<1> QED BY <1>1, <1>2 DEF IsList

LEMMA Sent ==
    ASSUME IsList(frames), NEW fs, IsList(fs), send(fs)
    PROVE  IsList(frames') /\ ToSet(frames') \subseteq ToSet(frames) \cup ToSet(fs)
BY ListsJoined DEF send

\* The words of a reply, and the frames after them.
Said(text) == [i \in DOMAIN text |-> Says(text[i])]
Closing(c, cached, tokens) == <<Cites(c), Done(cached, tokens)>>

LEMMA SaidIsList ==
    ASSUME NEW T, NEW text \in Seq(T)
    PROVE  /\ IsList(Said(text)) /\ Len(Said(text)) = Len(text)
           /\ \A f \in ToSet(Said(text)) : f.f = "token"
<1> DEFINE said == Said(text)
<1>1. DOMAIN text = 1..Len(text) /\ Len(text) \in Nat /\ DOMAIN said = 1..Len(text)
  BY DEF Said
<1>2. \A i \in DOMAIN text : said[i] \in ToSet(said) /\ said[i].f = "token"
  BY DEF ToSet, Says, Said
<1>3. \A f \in ToSet(said) : f.f = "token"
  BY <1>1, <1>2 DEF ToSet
<1>4. said \in [1..Len(text) -> ToSet(said)]
  BY <1>1, <1>2 DEF Said
<1> HIDE DEF said
<1>5. said \in Seq(ToSet(said)) /\ Len(said) = Len(text)
  BY <1>1, <1>4
<1> QED BY <1>3, <1>5 DEF IsList, said

LEMMA ClosingIsList ==
    ASSUME NEW c, NEW cached, NEW tokens
    PROVE  /\ IsList(Closing(c, cached, tokens))
           /\ ToSet(Closing(c, cached, tokens)) = {Cites(c), Done(cached, tokens)}
BY TwoAreList DEF Closing

\* What a reply sends: words, the sources, and last what it cost.
LEMMA ReplyIsList ==
    ASSUME NEW T, NEW text \in Seq(T), NEW c, NEW cached, NEW tokens,
           Reply(text, c, cached, tokens)
    PROVE  \E fs : /\ send(fs) /\ IsList(fs) /\ fs = Said(text) \o Closing(c, cached, tokens)
                   /\ \A f \in ToSet(fs) :
                          f.f = "token" \/ f = Cites(c) \/ f = Done(cached, tokens)
<1> DEFINE said == Said(text)
           last == Closing(c, cached, tokens)
           fs == said \o last
<1>1. send(fs)
  BY DEF Reply, Said, Closing
<1>2. IsList(said) /\ \A f \in ToSet(said) : f.f = "token"
  BY SaidIsList
<1>3. IsList(last) /\ ToSet(last) = {Cites(c), Done(cached, tokens)}
  BY ClosingIsList
<1> HIDE DEF said, last
<1>4. IsList(fs) /\ ToSet(fs) \subseteq ToSet(said) \cup ToSet(last)
  BY <1>2, <1>3, ListsJoined
<1> HIDE DEF fs
<1> QED BY <1>1, <1>2, <1>3, <1>4 DEF fs, said, last

\* The only frame of a reply that tells a cost is its last.
LEMMA Replied ==
    ASSUME IsList(frames), \A f \in ToSet(frames) : f.f # "done",
           NEW T, NEW text \in Seq(T), NEW c, NEW cached, NEW tokens,
           Reply(text, c, cached, tokens)
    PROVE  /\ IsList(frames')
           /\ \A f \in ToSet(frames') : f.f = "done" => f.tokens = tokens
<1>1. PICK fs : /\ send(fs) /\ IsList(fs)
                /\ \A f \in ToSet(fs) :
                       f.f = "token" \/ f = Cites(c) \/ f = Done(cached, tokens)
  BY ReplyIsList
<1>2. Cites(c).f = "citations" /\ Done(cached, tokens).tokens = tokens
  BY DEF Cites, Done
<1>3. IsList(frames') /\ ToSet(frames') \subseteq ToSet(frames) \cup ToSet(fs)
  BY <1>1, Sent
<1> QED BY <1>1, <1>2, <1>3

LEMMA ThreeAreList ==
    ASSUME NEW x, NEW y, NEW z
    PROVE  IsList(<<x, y, z>>) /\ ToSet(<<x, y, z>>) = {x, y, z}
<1>1. ToSet(<<x, y, z>>) = {x, y, z}
  BY DEF ToSet
<1>2. <<x, y, z>> \in Seq({x, y, z})
  OBVIOUS
<1> QED BY <1>1, <1>2 DEF IsList

\* A listing costs nothing and says so.
LEMMA Listed ==
    ASSUME IsList(frames), \A f \in ToSet(frames) : f.f # "done", NEW n, NEW docs,
           send(<<Lists(n, docs), Cites(<<>>), Done(FALSE, 0)>>)
    PROVE  /\ IsList(frames')
           /\ \A f \in ToSet(frames') : f.f = "done" => f.tokens = 0
<1> DEFINE fs == <<Lists(n, docs), Cites(<<>>), Done(FALSE, 0)>>
<1>1. /\ Lists(n, docs).f = "listing" /\ Cites(<<>>).f = "citations"
      /\ Done(FALSE, 0).tokens = 0
  BY DEF Lists, Cites, Done
<1>2. IsList(fs) /\ \A f \in ToSet(fs) : f.f = "done" => f.tokens = 0
  <2>1. IsList(fs) /\ ToSet(fs) = {Lists(n, docs), Cites(<<>>), Done(FALSE, 0)}
    BY ONLY ThreeAreList
  <2> QED BY ONLY <1>1, <2>1
<1>3. send(fs)
  OBVIOUS
<1> HIDE DEF fs
<1>4. IsList(frames') /\ ToSet(frames') \subseteq ToSet(frames) \cup ToSet(fs)
  BY <1>2, <1>3, Sent
<1> QED BY <1>2, <1>4

LEMMA OneSent ==
    ASSUME IsList(frames), \A f \in ToSet(frames) : f.f # "done", NEW x, x.f # "done",
           send(<<x>>)
    PROVE  IsList(frames') /\ \A f \in ToSet(frames') : f.f # "done"
BY Sent, OneIsList

FrameInv ==
    /\ IsList(frames)
    /\ \A f \in ToSet(frames) : f.f = "done" => pc = "done" /\ f.tokens = billed
    /\ \A r \in rows : r.text \in Seq(Token)

\* Where no completion is being heard, what was charged has been added up.
LEMMA PaidAtRest ==
    ASSUME CostInv
    PROVE  /\ pc \notin {"rewrite", "answer"} => billed = usage
           /\ pc = "answer" /\ heard.end # "" => billed = usage
           /\ pc \in {"early", "list", "lookup"} => billed = 0
<1>1. usage \in Int /\ billed = usage + Owed
  BY ONLY CostInv DEF CostInv
<1>2. \A x \in Int : x + 0 = x
  BY ONLY TRUE
<1>3. pc \notin {"rewrite", "answer"} \/ heard.end # "" => Owed = 0
  BY ONLY TRUE DEF Owed, Hearing
<1>4. pc \in {"early", "list", "lookup"} => usage = 0
  BY ONLY CostInv DEF CostInv, Unpaid
<1> QED BY ONLY <1>1, <1>2, <1>3, <1>4

LEMMA FrameStep == CostInv /\ FrameInv /\ [AskNext]_askVars => FrameInv'
<1> SUFFICES ASSUME CostInv, FrameInv, [AskNext]_askVars PROVE FrameInv'
  OBVIOUS
<1>1. CASE UNCHANGED askVars
  BY ONLY FrameInv, <1>1 DEF FrameInv, askVars
<1> SUFFICES ASSUME AskNext PROVE FrameInv'
  BY <1>1
<1>a. pc # "done"
  BY DEF AskNext, Receive, SmallTalk, Recent, Count, ListCounted, NotEarly, UsageFrame,
     Rewritten, ReadSig, LookUp, Embed, VectorCandidates, KeywordCandidates, Load, Fit,
     Supplement, TokenFrame, StreamEnds, Settle, Leave, Change, Ended
<1>b. IsList(frames) /\ \A f \in ToSet(frames) : f.f # "done"
  BY ONLY FrameInv, <1>a DEF FrameInv
<1>c. \A r \in rows : r.text \in Seq(Token)
  BY ONLY FrameInv DEF FrameInv
<1>d. /\ pc \in {"early", "list", "lookup"} => billed = 0
      /\ pc = "fit" => billed = usage
      /\ pc = "answer" /\ heard.end # "" => billed = usage
  BY ONLY CostInv, PaidAtRest
<1>e. heard.text \in Seq(Token)
  BY ONLY CostInv, HeardParts DEF CostInv
\* Three kinds of step: one that sends nothing, one that sends no cost, one that ends.
<1>q. ASSUME UNCHANGED <<frames, rows>> PROVE FrameInv'
  BY ONLY <1>b, <1>c, <1>q DEF FrameInv
<1>f. ASSUME Fail, UNCHANGED rows PROVE FrameInv'
  <2>1. Error.f # "done"
    BY DEF Error
  <2>2. IsList(frames') /\ \A f \in ToSet(frames') : f.f # "done"
    BY ONLY <1>b, <1>f, <2>1, OneSent DEF Fail
  <2> QED BY ONLY <1>c, <1>f, <2>2 DEF FrameInv
<1>r. ASSUME NEW T, NEW text \in Seq(T), NEW c, NEW cached, NEW tokens,
             Reply(text, c, cached, tokens), tokens = billed', UNCHANGED rows
      PROVE  FrameInv'
  <2>1. IsList(frames') /\ \A f \in ToSet(frames') : f.f = "done" => f.tokens = tokens
    BY ONLY <1>b, <1>r, Replied
  <2> QED BY ONLY <1>c, <1>r, <2>1 DEF FrameInv, Reply
<1>l. ASSUME NEW n, NEW docs, send(<<Lists(n, docs), Cites(<<>>), Done(FALSE, 0)>>),
             pc' = "done", billed' = 0, UNCHANGED rows
      PROVE  FrameInv'
  BY ONLY <1>b, <1>c, <1>l, Listed DEF FrameInv
<1>2. CASE Receive \/ Count \/ NotEarly \/ Leave \/ Change
  BY ONLY <1>q, <1>2 DEF Receive, Count, NotEarly, Leave, Change, cache
<1>3. CASE UsageFrame \/ Rewritten \/ ReadSig \/ KeywordCandidates \/ Supplement
  BY ONLY <1>q, <1>3 DEF UsageFrame, Rewritten, ReadSig, KeywordCandidates, Supplement, cache
<1>4. CASE SmallTalk
  <2>1. <<"reply">> \in Seq({"reply"})
    OBVIOUS
  <2>2. Reply(<<"reply">>, <<>>, FALSE, 0) /\ billed' = 0 /\ UNCHANGED rows
    BY ONLY <1>4, <1>d DEF SmallTalk, spent, cache
  <2> QED BY ONLY <1>r, <2>1, <2>2
<1>5. CASE Recent
  <2>1. UNCHANGED rows /\ billed' = 0
    BY ONLY <1>5, <1>d DEF Recent, spent, cache
  <2>2. CASE UNCHANGED frames
    BY ONLY <1>q, <2>1, <2>2
  <2>3. ASSUME frames' # frames
        PROVE  /\ \E n, docs : send(<<Lists(n, docs), Cites(<<>>), Done(FALSE, 0)>>)
               /\ pc' = "done"
    BY ONLY <1>5, <2>3 DEF Recent
  <2> QED BY ONLY <1>l, <2>1, <2>2, <2>3
<1>6. CASE ListCounted
  <2>1. UNCHANGED rows /\ billed' = 0
    BY ONLY <1>6, <1>d DEF ListCounted, spent, cache
  <2>2. CASE UNCHANGED frames
    BY ONLY <1>q, <2>1, <2>2
  <2>3. ASSUME frames' # frames
        PROVE  /\ \E n, docs : send(<<Lists(n, docs), Cites(<<>>), Done(FALSE, 0)>>)
               /\ pc' = "done"
    BY ONLY <1>6, <2>3 DEF ListCounted
  <2> QED BY ONLY <1>l, <2>1, <2>2, <2>3
<1>7. CASE LookUp
  <2>1. UNCHANGED rows /\ billed' = 0
    BY ONLY <1>7, <1>d DEF LookUp, spent, cache
  <2>2. CASE UNCHANGED frames
    BY ONLY <1>q, <2>1, <2>2
  <2>3. ASSUME frames' # frames
        PROVE  \E r \in rows : Reply(r.text, r.cites, TRUE, 0)
    BY ONLY <1>7, <2>3 DEF LookUp
  <2>4. ASSUME NEW r \in rows, Reply(r.text, r.cites, TRUE, 0) PROVE FrameInv'
    BY ONLY <1>c, <1>r, <2>1, <2>4
  <2> QED BY ONLY <2>2, <2>3, <2>4
<1>8. CASE Embed \/ VectorCandidates \/ Load
  BY ONLY <1>q, <1>f, <1>8 DEF Embed, VectorCandidates, Load, cache
<1>9. CASE Fit
  <2>1. UNCHANGED rows /\ billed' = usage
    BY ONLY <1>9, <1>d DEF Fit, spent, cache
  <2>2. UNCHANGED frames \/ Fail \/ Reply(<<"NoAnswer">>, <<>>, FALSE, usage)
    BY ONLY <1>9 DEF Fit
  <2>3. <<"NoAnswer">> \in Seq({"NoAnswer"})
    OBVIOUS
  <2> QED BY ONLY <1>q, <1>f, <1>r, <2>1, <2>2, <2>3
<1>10. CASE TokenFrame
  <2>1. PICK t \in Token : send(<<Says(t)>>)
    BY ONLY <1>10 DEF TokenFrame
  <2>2. Says(t).f # "done"
    BY DEF Says
  <2>3. IsList(frames') /\ \A f \in ToSet(frames') : f.f # "done"
    BY ONLY <1>b, <2>1, <2>2, OneSent
  <2>4. UNCHANGED rows
    BY ONLY <1>10 DEF TokenFrame, cache
  <2> QED BY ONLY <1>c, <2>3, <2>4 DEF FrameInv
<1>11. CASE StreamEnds
  BY ONLY <1>q, <1>f, <1>11 DEF StreamEnds, cache
<1>12. CASE Settle
  <2>1. \A r \in rows' : r.text \in Seq(Token)
    <3>1. UNCHANGED rows \/ rows' \subseteq rows
             \cup {[key |-> KeyOf(ask), sig |-> sig, text |-> heard.text, cites |-> Citations]}
      BY ONLY <1>12 DEF Settle, Store
    <3> QED BY ONLY <1>c, <1>e, <3>1
  <2>2. <<>> \in Seq({})
    OBVIOUS
  <2>3. \E c : Reply(<<>>, c, FALSE, usage)
    BY ONLY <1>12 DEF Settle
  <2>4. billed' = usage
    BY ONLY <1>12, <1>d DEF Settle, spent
  <2>5. IsList(frames') /\ \A f \in ToSet(frames') : f.f = "done" => f.tokens = usage
    BY ONLY <1>b, <2>2, <2>3, Replied
  <2> QED BY ONLY <2>1, <2>3, <2>4, <2>5 DEF FrameInv, Reply
<1> QED BY ONLY AskNext, <1>2, <1>3, <1>4, <1>5, <1>6, <1>7, <1>8, <1>9, <1>10, <1>11, <1>12
       DEF AskNext

LEMMA PaidInitially == AskInit => CostInv /\ FrameInv
<1>1. IsList(<<>>) /\ ToSet(<<>>) = {}
  BY DEF IsList, ToSet
<1>2. ASSUME AskInit PROVE CostInv
  <2>1. /\ pc = "new" /\ heard = NothingHeard /\ usage = 0 /\ billed = 0
    BY ONLY <1>2 DEF AskInit
  <2>2. Owed = 0
    BY ONLY <2>1 DEF Owed, Hearing
  <2>3. 0 \in Int /\ 0 + 0 = 0
    BY ONLY TRUE
  <2> QED BY ONLY <2>1, <2>2, <2>3, NothingIsHeard DEF CostInv
<1>3. AskInit => FrameInv
  BY <1>1, EarlierAssumption DEF AskInit, FrameInv
<1> QED BY <1>2, <1>3

\* Whatever way Answer returns, its cost is what the provider charged and the last
\* frame says so, for any requests, library and provider (rag.go, Answer).
THEOREM UsageIsCarriedCorrect == AskSpec => []UsageIsCarried
<1>1. AskInit => CostInv /\ FrameInv
  BY PaidInitially
<1>2. CostInv /\ FrameInv => UsageIsCarried
  <2>1. CostInv /\ pc \in Ended => usage = billed
    BY PaidAtRest DEF Ended
  <2>2. FrameInv => \A f \in FramesOf("done") : f.tokens = billed
    BY ONLY TRUE DEF FrameInv, FramesOf
  <2> QED BY ONLY <2>1, <2>2 DEF UsageIsCarried
<1> QED BY <1>1, <1>2, CostStep, FrameStep, PTL DEF AskSpec

-----------------------------------------------------------------------------
(* The thread is as much of its newest turns as the model can read.        *)

\* The request stays one a reader may send.
LEMMA ReadIsAsk == ASSUME NEW a \in Ask, readable(a) PROVE readQuestion(a) \in Ask
<1>1. pick(a.model) \in STRING \cup {""}
  <2>1. CASE Models = <<>> \/ a.model # ""
    <3>1. a.model \in STRING \cup {""}
      BY DEF Ask
    <3>2. CASE Models = <<>>
      <4>1. pick(a.model) = ""
        BY <3>2 DEF pick
      <4> QED BY <4>1
    <3>3. CASE Models # <<>> /\ a.model # ""
      <4> DEFINE name == a.model
      <4> HIDE DEF name
      <4>1. pick(name) = name
        BY ONLY <3>3 DEF pick, name
      <4> QED BY <3>1, <4>1 DEF name
    <3> QED BY <2>1, <3>2, <3>3
  <2>2. CASE Models # <<>> /\ a.model = ""
    <3>1. Models[1].name \in STRING
      <4> DEFINE R == [name: STRING \ {""}, window: Nat]
      <4>1. \A m \in R : m.name \in STRING
        OBVIOUS
      <4>2. Models \in Seq(R)
        BY ModelsAssumption
      <4> HIDE DEF R
      <4>3. Models[1] \in R
        <5>1. Len(Models) \in Nat /\ DOMAIN Models = 1..Len(Models)
          BY <4>2
        <5>2. Len(Models) # 0
          BY <2>2, <4>2, EmptySeq
        <5> QED BY <4>2, <5>1, <5>2
      <4> QED BY <4>1, <4>3
    <3> QED BY <2>2, <3>1 DEF pick
  <2> QED BY <2>1, <2>2
<1>2. (a.websearch /\ CanSearch) \in BOOLEAN
  OBVIOUS
<1> QED BY <1>1, <1>2 DEF readQuestion, Ask

AskInv == ask \in Ask

LEMMA AskStep == AskInv /\ [AskNext]_askVars => AskInv'
<1> SUFFICES ASSUME AskInv, [AskNext]_askVars PROVE AskInv'
  OBVIOUS
<1> USE DEF AskInv
<1>1. CASE Receive
  BY <1>1, ReadIsAsk DEF Receive, request
<1>2. CASE SmallTalk \/ Recent \/ Count \/ ListCounted \/ NotEarly
  BY <1>2 DEF SmallTalk, Recent, Count, ListCounted, NotEarly, request
<1>3. CASE Rewritten \/ ReadSig \/ LookUp \/ Embed
  BY <1>3 DEF Rewritten, ReadSig, LookUp, Embed, request
<1>4. CASE VectorCandidates \/ KeywordCandidates \/ Load \/ Fit \/ Supplement
  BY <1>4 DEF VectorCandidates, KeywordCandidates, Load, Fit, Supplement, request
<1>5. CASE UsageFrame \/ TokenFrame \/ StreamEnds \/ Settle
  BY <1>5 DEF UsageFrame, TokenFrame, StreamEnds, Settle, request
<1>6. CASE Leave \/ Change \/ UNCHANGED askVars
  BY <1>6 DEF Leave, Change, request, askVars
<1> QED BY <1>1, <1>2, <1>3, <1>4, <1>5, <1>6 DEF AskNext

LEMMA AskInitially == AskInit => AskInv
BY AsksAssumption DEF AskInit, AskInv

LEMMA WindowType == ASSUME NEW model PROVE window(model) \in Nat
<1> DEFINE s == {i \in DOMAIN Models : Models[i].name = model}
           L == Len(Models)
<1>1. CASE s = {}
  BY <1>1 DEF window
<1>2. CASE s # {}
  <2>1. L \in Nat /\ DOMAIN Models = 1..L /\ \A i \in 1..L : Models[i].window \in Nat
    <3> DEFINE R == [name: STRING \ {""}, window: Nat]
    <3>1. \A m \in R : m.window \in Nat
      OBVIOUS
    <3>2. Models \in Seq(R)
      BY ModelsAssumption
    <3> HIDE DEF R
    <3>3. \A i \in 1..L : Models[i] \in R
      BY <3>2
    <3> QED BY <3>1, <3>2, <3>3
  <2>2. s \in SUBSET (1..L)
    BY <2>1
  <2>3. Min(s) \in s /\ \A x \in s : Min(s) <= x
    <3> HIDE DEF s, L
    <3> QED BY <1>2, <2>1, <2>2, FirstPlace
  <2>4. \A j \in 1..Min(s) - 1 : j \in DOMAIN Models /\ j \notin s
    <3> DEFINE m == Min(s)
    <3> HIDE DEF s, m
    <3>1. m \in 1..L /\ \A x \in s : m <= x
      BY <2>2, <2>3 DEF m
    <3>2. \A j \in 1..m - 1 : j \in 1..L /\ j \notin s
      BY <2>1, <3>1
    <3> QED BY <2>1, <3>2 DEF m
  <2> DEFINE Wanted(i) == Models[i].name = model /\ \A j \in 1..i - 1 : Models[j].name # model
  <2>5. \E i \in DOMAIN Models : Wanted(i)
    BY <2>3, <2>4
  <2> DEFINE c == CHOOSE i \in DOMAIN Models : Wanted(i)
  <2>6. c \in DOMAIN Models
    <3> HIDE DEF Wanted
    <3> QED BY <2>5
  <2>7. window(model) = Models[c].window
    BY <2>5 DEF window
  <2> HIDE DEF c
  <2> QED BY <2>1, <2>6, <2>7
<1> QED BY <1>1, <1>2

LEMMA WholeType ==
    ASSUME NEW history \in Seq(Turn)
    PROVE  whole(history) \in Seq(Turn)
BY OnlyType DEF whole

LEMMA ThreadBudgetType ==
    ASSUME NEW history \in Seq(Turn), NEW w \in Nat
    PROVE  threadBudget(history, w) \in Nat
<1> DEFINE percent == IF threadShare = 0 THEN defaultThreadShare ELSE threadShare
           most == w * percent
<1>1. percent \in Nat
  BY LimitsAssumption DEF defaultThreadShare
<1> HIDE DEF percent
<1>2. most \in Nat
  BY <1>1
<1> HIDE DEF most
<1>3. (most \div 100) * perToken \in Nat
  BY <1>2 DEF perToken
<1>4. Len(whole(history)) * maxTurnChars \in Nat
  BY WholeType DEF maxTurnChars
<1> QED BY <1>3, <1>4 DEF threadBudget, percent, most

\* What a replay holds while it goes back through the turns.
Memory == [budget : Int, kept : Seq(Turn), full : BOOLEAN]
Empty(allowed) == [budget |-> allowed, kept |-> <<>>, full |-> FALSE]
Recalled(t, acc) ==
    IF acc.full \/ acc.budget - (t.q + t.a) < 0 THEN [acc EXCEPT !.full = TRUE]
    ELSE [acc EXCEPT !.budget = @ - (t.q + t.a), !.kept = <<t>> \o @]

Recalling(r, all, allowed) ==
    /\ r \in [0..Len(all) -> Memory] /\ r[0] = Empty(allowed)
    /\ \A n \in 1..Len(all) : r[n] = Recalled(all[Len(all) + 1 - n], r[n - 1])

LEMMA RecalledType ==
    ASSUME NEW t \in Turn, NEW acc \in Memory PROVE Recalled(t, acc) \in Memory
<1>1. <<t>> \o acc.kept \in Seq(Turn)
  BY DEF Memory
<1>2. acc.budget - (t.q + t.a) \in Int
  BY DEF Memory, Turn
<1> QED BY <1>1, <1>2 DEF Recalled, Memory

LEMMA ReplayUnfolds ==
    ASSUME NEW history \in Seq(Turn), NEW w \in Nat
    PROVE  \E r : /\ Recalling(r, whole(history), threadBudget(history, w))
                  /\ replay(history, w) = r[Len(whole(history))].kept
<1> DEFINE all == whole(history)
           L == Len(all)
           A == Memory
           base == Empty(threadBudget(history, w))
           F(it) == [s \in SUBSET (1..L) |->
                        IF s = {} THEN base ELSE Recalled(all[Min(s)], it[s \ {Min(s)}])]
           step == [i \in 1..L |-> [acc \in A |-> Recalled(all[i], acc)]]
<1>a. all \in Seq(Turn)
  BY WholeType
<1>1. DOMAIN all = 1..L /\ L \in Nat
  BY <1>a
<1>b. base \in A
  BY ThreadBudgetType DEF Empty, Memory
<1>c. \A i \in 1..L, acc \in A : Recalled(all[i], acc) \in A
  BY <1>a, RecalledType
<1>2. replay(history, w) = (CHOOSE it : it = F(it))[1..L].kept
  BY <1>1 DEF replay, FoldRight, MapThenFoldSet, Recalled, Empty
<1> HIDE DEF L, A, base, all
<1>3. step \in [1..L -> [A -> A]]
  BY <1>c
<1>4. PICK g \in [SUBSET (1..L) -> A] :
          IsFold(g, 1..L, base, [s \in SUBSET (1..L) |-> Min(s)], step)
  <2> HIDE DEF step
  <2> QED BY <1>1, <1>3, <1>b, RightFold
<1>5. g = F(g)
  <2>1. ASSUME NEW s \in SUBSET (1..L), s # {}
        PROVE  g[s] = Recalled(all[Min(s)], g[s \ {Min(s)}])
    <3>1. Min(s) \in 1..L /\ g[s \ {Min(s)}] \in A
      BY <1>1, <2>1, FirstPlace
    <3>2. g[s] = step[Min(s)][g[s \ {Min(s)}]]
      BY <1>4, <2>1 DEF IsFold
    <3> QED BY <3>1, <3>2
  <2>2. \A s \in SUBSET (1..L) :
            g[s] = IF s = {} THEN base ELSE Recalled(all[Min(s)], g[s \ {Min(s)}])
    BY <1>4, <2>1 DEF IsFold
  <2> QED BY <2>2
<1> DEFINE h == CHOOSE it : it = F(it)
<1>6. h = F(h)
  <2> HIDE DEF F
  <2> QED BY <1>5
<1>7. h[{}] = base
  BY <1>6
<1>8. ASSUME NEW s \in SUBSET (1..L), s # {}, h[s \ {Min(s)}] \in A
      PROVE  h[s] = step[Min(s)][h[s \ {Min(s)}]]
  <2>1. Min(s) \in 1..L
    BY <1>1, <1>8, FirstPlace
  <2>2. h[s] = Recalled(all[Min(s)], h[s \ {Min(s)}])
    BY <1>6, <1>8
  <2> QED BY <1>8, <2>1, <2>2
<1> DEFINE down == Downward(step, L)
<1>9. \A n \in 1..L, acc \in A : down[n][acc] = Recalled(all[L + 1 - n], acc)
  <2> TAKE n \in 1..L, acc \in A
  <2>1. L + 1 - n \in 1..L
    BY <1>1
  <2> QED BY <2>1 DEF Downward
<1> HIDE DEF h, step
<1>10. FoldsRight(h, L, A, base, step)
  BY <1>7, <1>8 DEF FoldsRight
<1>11. PICK r \in [0..L -> A] : r[L] = h[1..L] /\ IsWalk(r, L, base, down)
  BY <1>1, <1>3, <1>b, <1>10, RightWalk
<1>12. \A n \in 1..L : r[n - 1] \in A
  BY <1>1
<1> HIDE DEF down
<1>13. \A n \in 1..L : r[n] = Recalled(all[L + 1 - n], r[n - 1])
  BY <1>9, <1>11, <1>12 DEF IsWalk
<1>14. r[0] = base /\ r[L].kept = replay(history, w)
  BY <1>2, <1>11 DEF IsWalk, h
<1> QED BY <1>13, <1>14 DEF L, A, all, base, Recalling

Costs(all) == [i \in DOMAIN all |-> all[i].q + all[i].a]

LEMMA CostsType ==
    ASSUME NEW all \in Seq(Turn)
    PROVE  /\ Costs(all) \in Seq(Int) /\ Len(Costs(all)) = Len(all)
           /\ \A i \in 1..Len(all) : Costs(all)[i] = all[i].q + all[i].a /\ Costs(all)[i] \in Nat
<1> DEFINE L == Len(all)
<1>1. L \in Nat /\ DOMAIN all = 1..L /\ \A i \in 1..L : all[i] \in Turn
  OBVIOUS
<1>2. \A i \in 1..L : all[i].q + all[i].a \in Nat
  BY <1>1 DEF Turn
<1> HIDE DEF L
<1>3. Costs(all) = [i \in 1..L |-> all[i].q + all[i].a]
  BY <1>1 DEF Costs
<1> QED BY <1>1, <1>2, <1>3 DEF L

\* The cost of the turns from one on, as a difference of sums.
LEMMA CostOfPart ==
    ASSUME NEW all \in Seq(Turn), NEW p, Sums(p, Costs(all)), NEW i \in 0..Len(all)
    PROVE  CostOf(SubSeq(all, i + 1, Len(all))) = p[Len(all)] - p[i]
<1> DEFINE L == Len(all)
           part == SubSeq(all, i + 1, L)
           costs == Costs(all)
<1>1. L \in Nat /\ i \in Nat /\ i <= L /\ costs \in Seq(Int) /\ Len(costs) = L
  BY CostsType
<1>2. Total(SubSeq(costs, i + 1, L)) = p[L] - p[i]
  <2> HIDE DEF costs, L
  <2> QED BY <1>1, TotalOfPart DEF costs
<1>3. /\ part \in Seq(Turn) /\ DOMAIN part = 1..L - i
      /\ \A j \in 1..L - i : part[j] = all[i + j] /\ i + j \in 1..L
  BY <1>1
<1>4. SubSeq(costs, i + 1, L) = [j \in 1..L - i |-> costs[i + j]]
  <2> HIDE DEF costs
  <2>1. SubSeq(costs, i + 1, L) = [j \in 1..L - i |-> costs[(i + 1) + j - 1]]
    BY <1>1
  <2>2. \A j \in 1..L - i : (i + 1) + j - 1 = i + j
    BY <1>1
  <2> QED BY <2>1, <2>2
<1>5. \A j \in 1..L - i : costs[i + j] = part[j].q + part[j].a
  BY <1>3, CostsType
<1> HIDE DEF costs, part, L
<1>6. SubSeq(costs, i + 1, L) = [j \in DOMAIN part |-> part[j].q + part[j].a]
  BY <1>3, <1>4, <1>5
<1> QED BY <1>2, <1>6 DEF CostOf, part, L

\* Where a replay has come to: it has kept the turns after i, and if it has
\* stopped, the one at i did not fit.
Reached(m, all, allowed, p, n, i) ==
    LET L == Len(all)
    IN /\ m.kept = SubSeq(all, i + 1, L)
       /\ m.budget = allowed - (p[L] - p[i]) /\ m.budget >= 0
       /\ m.full => i > 0 /\ p[L] - p[i - 1] > allowed
       /\ ~ m.full => i = L - n

LEMMA ReachedNext ==
    ASSUME NEW all \in Seq(Turn), NEW p, Sums(p, Costs(all)), NEW allowed \in Nat,
           NEW n \in 1..Len(all), NEW m \in Memory, NEW i \in 0..Len(all),
           Reached(m, all, allowed, p, n - 1, i)
    PROVE  \E j \in 0..Len(all) :
               Reached(Recalled(all[Len(all) + 1 - n], m), all, allowed, p, n, j)
<1> DEFINE L == Len(all)
           t == all[L + 1 - n]
<1>1. L \in Nat /\ i \in Int /\ n \in Int
  OBVIOUS
<1>2. CASE m.full
  <2>1. Recalled(t, m).kept = m.kept /\ Recalled(t, m).budget = m.budget /\ Recalled(t, m).full
    BY <1>2 DEF Recalled, Memory
  <2> HIDE DEF t
  <2>2. Reached(Recalled(t, m), all, allowed, p, n, i)
    BY <1>2, <2>1 DEF Reached
  <2> QED BY <2>2 DEF t
<1>3. CASE ~ m.full
  <2>1. i = L + 1 - n /\ i \in 1..L /\ i - 1 \in 0..L /\ t = all[i] /\ i - 1 = L - n
    BY <1>1, <1>3 DEF Reached
  <2>2. /\ t.q + t.a = p[i] - p[i - 1] /\ t.q + t.a \in Nat
        /\ p[i] \in Int /\ p[i - 1] \in Int /\ p[L] \in Int
    <3>1. /\ Costs(all)[i] = t.q + t.a /\ Costs(all)[i] \in Nat
          /\ Len(Costs(all)) = L
      BY <2>1, CostsType
    <3>2. p \in [0..L -> Int] /\ p[i] = p[i - 1] + Costs(all)[i]
      BY <2>1, <3>1 DEF Sums
    <3>3. i \in 0..L /\ L \in 0..L
      BY <1>1, <2>1
    <3>4. p[i] \in Int /\ p[i - 1] \in Int /\ p[L] \in Int
      BY <2>1, <3>2, <3>3
    <3> QED BY <3>1, <3>2, <3>4
  <2>3. m.budget = allowed - (p[L] - p[i]) /\ m.kept = SubSeq(all, i + 1, L)
    BY DEF Reached
  <2> DEFINE cost == t.q + t.a
             next == Recalled(t, m)
  <2>4. CASE m.budget - cost < 0
    <3>1. next.kept = m.kept /\ next.budget = m.budget /\ next.full
      BY <2>4 DEF Recalled, Memory
    <3>2. p[L] - p[i - 1] > allowed
      <4> HIDE DEF t
      <4>1. cost \in Nat /\ cost = p[i] - p[i - 1]
        BY <2>2
      <4> HIDE DEF cost, L
      <4>2. p[L] - p[i - 1] = (p[L] - p[i]) + cost /\ p[L] - p[i] \in Int
        BY ONLY <2>2, <4>1
      <4>3. allowed - (p[L] - p[i]) - cost < 0
        BY ONLY <2>3, <2>4
      <4> QED BY ONLY <4>1, <4>2, <4>3, allowed \in Nat
    <3>a. m.budget >= 0
      BY DEF Reached
    <3> HIDE DEF next, cost, t
    <3>3. Reached(next, all, allowed, p, n, i)
      BY <2>1, <2>3, <3>a, <3>1, <3>2 DEF Reached
    <3> QED BY <3>3 DEF next, cost, t
  <2>5. CASE ~ (m.budget - cost < 0)
    <3>1. next.kept = <<t>> \o m.kept /\ next.budget = m.budget - cost /\ next.full = FALSE
      BY <1>3, <2>5 DEF Recalled, Memory
    <3>2. next.kept = SubSeq(all, i, L)
      BY <2>1, <2>3, <3>1, PartPrefixed
    <3>3. m.budget - cost = allowed - (p[L] - p[i - 1]) /\ m.budget - cost >= 0
      <4> HIDE DEF t
      <4>1. cost \in Nat /\ cost = p[i] - p[i - 1]
        BY <2>2
      <4> HIDE DEF cost, L
      <4>2. m.budget \in Int
        BY <2>2, <2>3
      <4>3. m.budget - cost >= 0
        BY <2>5, <4>1, <4>2
      <4>4. m.budget - cost = allowed - (p[L] - p[i - 1])
        <5>1. p[L] - p[i - 1] = (p[L] - p[i]) + cost /\ p[L] - p[i] \in Int
          BY ONLY <2>2, <4>1
        <5> QED BY ONLY <2>3, <4>1, <5>1, allowed \in Nat
      <4> QED BY <4>3, <4>4
    <3> HIDE DEF next
    <3> DEFINE j == i - 1
    <3>4. j \in 0..L /\ j + 1 = i /\ j = L - n
      BY <2>1
    <3>5. Reached(next, all, allowed, p, n, j)
      BY <2>1, <3>1, <3>2, <3>3, <3>4 DEF Reached
    <3> HIDE DEF j
    <3> QED BY <3>4, <3>5 DEF next
  <2> QED BY <2>4, <2>5
<1> QED BY <1>2, <1>3

\* What a replay keeps fits, and one turn more would not.
LEMMA ReplayFits ==
    ASSUME NEW history \in Seq(Turn), NEW w \in Nat
    PROVE  LET all == whole(history)
               kept == replay(history, w)
               allowed == threadBudget(history, w)
           IN  /\ IsSuffix(kept, all) /\ CostOf(kept) <= allowed
               /\ Len(kept) < Len(all) =>
                      CostOf(SubSeq(all, Len(all) - Len(kept), Len(all))) > allowed
<1> DEFINE all == whole(history)
           L == Len(all)
           allowed == threadBudget(history, w)
           kept == replay(history, w)
<1>1. all \in Seq(Turn) /\ allowed \in Nat
  BY WholeType, ThreadBudgetType
<1>2. PICK r : Recalling(r, all, allowed) /\ kept = r[L].kept
  BY ReplayUnfolds
<1> HIDE DEF all, allowed, kept
<1>3. L \in Nat /\ Costs(all) \in Seq(Int) /\ Len(Costs(all)) = L
  BY <1>1, CostsType
<1>4. PICK p : Sums(p, Costs(all))
  BY <1>3, TotalUnfolds
<1>5. r \in [0..L -> Memory] /\ r[0] = Empty(allowed)
  BY <1>2 DEF Recalling
<1>6. p \in [0..L -> Int]
  BY <1>3, <1>4 DEF Sums
<1> DEFINE T == {n \in Nat : n <= L => \E i \in 0..L : Reached(r[n], all, allowed, p, n, i)}
<1>7. 0 \in T
  <2>1. L \in 0..L /\ p[L] \in Int /\ p[L] - p[L] = 0
    BY <1>3, <1>6
  <2>2. SubSeq(all, L + 1, L) = <<>>
    BY <1>1
  <2>3. Reached(Empty(allowed), all, allowed, p, 0, L)
    BY <1>1, <1>3, <2>1, <2>2 DEF Reached, Empty
  <2> HIDE DEF L
  <2> QED BY <1>5, <2>1, <2>3
<1>8. ASSUME NEW n \in 1..L, n - 1 \in T PROVE n \in T
  <2>1. n \in Nat /\ n - 1 \in 0..L /\ r[n - 1] \in Memory
    <3>1. n \in Nat /\ n - 1 \in 0..L
      BY ONLY <1>3, n \in 1..L
    <3> QED BY ONLY <1>5, <3>1
  <2>2. PICK i \in 0..L : Reached(r[n - 1], all, allowed, p, n - 1, i)
    BY <1>3, <1>8, <2>1
  <2>3. r[n] = Recalled(all[L + 1 - n], r[n - 1])
    BY <1>2 DEF Recalling
  <2>4. \E j \in 0..L : Reached(r[n], all, allowed, p, n, j)
    BY <1>1, <1>4, <2>1, <2>2, <2>3, ReachedNext
  <2> QED BY <2>1, <2>4
<1> HIDE DEF T
<1>9. \A n \in 0..L : n \in T
  BY <1>3, <1>7, <1>8, SetInductionUpTo
<1>10. PICK i \in 0..L : Reached(r[L], all, allowed, p, L, i)
  <2>1. L \in 0..L /\ L <= L
    BY <1>3
  <2> HIDE DEF L
  <2> QED BY <1>9, <2>1 DEF T
<1>11. kept = SubSeq(all, i + 1, L) /\ CostOf(kept) = p[L] - p[i]
  BY <1>1, <1>2, <1>4, <1>10, CostOfPart DEF Reached
<1>12. p[L] \in Int /\ p[i] \in Int /\ i \in Int
  BY <1>3, <1>6
<1>13. CostOf(kept) <= allowed
  BY <1>1, <1>10, <1>11, <1>12 DEF Reached
<1>14. IsSuffix(kept, all) /\ Len(kept) = L - i
  BY <1>1, <1>11, PartIsSuffix
<1>15. ASSUME Len(kept) < L PROVE CostOf(SubSeq(all, L - Len(kept), L)) > allowed
  <2>1. i > 0 /\ L - Len(kept) = i
    BY <1>3, <1>12, <1>14, <1>15
  <2>2. r[L].full
    BY <1>3, <1>10, <2>1 DEF Reached
  <2>3. p[L] - p[i - 1] > allowed
    BY <1>10, <2>2 DEF Reached
  <2> DEFINE j == i - 1
  <2>4. j \in 0..L /\ j + 1 = i
    BY <1>12, <2>1
  <2> HIDE DEF j
  <2>5. CostOf(SubSeq(all, j + 1, L)) = p[L] - p[j]
    BY <1>1, <1>4, <2>4, CostOfPart
  <2> QED BY <2>1, <2>3, <2>4, <2>5 DEF j
<1> QED BY <1>13, <1>14, <1>15 DEF all, allowed, kept

\* Whatever thread a request carries and whatever window its model has, the
\* model reads the newest whole turns, in order, as many as fit (memory.go,
\* replay).
THEOREM ThreadFitsCorrect == AskSpec => []ThreadFits
<1>1. AskInv => ThreadFits
  <2> SUFFICES ASSUME AskInv PROVE ThreadFits
    OBVIOUS
  <2>1. ask.history \in Seq(Turn)
    BY DEF AskInv, Ask
  <2>2. window(ask.model) \in Nat
    BY WindowType
  <2> QED BY <2>1, <2>2, ReplayFits DEF ThreadFits, turns
<1> QED BY <1>1, AskInitially, AskStep, PTL DEF AskSpec

-----------------------------------------------------------------------------
(* The sections fit, and each is its chunk within its own document.        *)

\* Only a change from outside moves the library.
LEMMA OnlyOthersChange == [AskNext]_askVars => UNCHANGED library \/ Change
<1> SUFFICES ASSUME [AskNext]_askVars PROVE UNCHANGED library \/ Change
  OBVIOUS
<1>1. CASE Receive \/ SmallTalk \/ Recent \/ Count \/ ListCounted \/ NotEarly
  BY <1>1 DEF Receive, SmallTalk, Recent, Count, ListCounted, NotEarly
<1>2. CASE Rewritten \/ ReadSig \/ LookUp \/ Embed
  BY <1>2 DEF Rewritten, ReadSig, LookUp, Embed
<1>3. CASE VectorCandidates \/ KeywordCandidates \/ Load \/ Fit \/ Supplement
  BY <1>3 DEF VectorCandidates, KeywordCandidates, Load, Fit, Supplement
<1>4. CASE UsageFrame \/ TokenFrame \/ StreamEnds \/ Settle \/ Leave
  BY <1>4 DEF UsageFrame, TokenFrame, StreamEnds, Settle, Leave
<1>5. CASE UNCHANGED askVars
  BY <1>5 DEF askVars, library
<1> QED BY <1>1, <1>2, <1>3, <1>4, <1>5 DEF AskNext

LEMMA LibraryStep == live \in Seq(Document) /\ [AskNext]_askVars => live' \in Seq(Document)
<1> SUFFICES ASSUME live \in Seq(Document), [AskNext]_askVars PROVE live' \in Seq(Document)
  OBVIOUS
<1>1. ASSUME NEW d \in Document, live' = <<d>> \o live PROVE live' \in Seq(Document)
  BY <1>1
<1>2. ASSUME NEW some, live' = Only(live, some) PROVE live' \in Seq(Document)
  BY <1>2, OnlyType
<1>3. CASE Change
  BY <1>1, <1>2, <1>3 DEF Change
<1> QED BY <1>3, OnlyOthersChange DEF library

\* A chunk is its document and its place.
LEMMA ChunkIsPlace ==
    ASSUME NEW c \in Chunk
    PROVE  c = <<c[1], c[2]>> /\ c[1] \in Document /\ c[2] \in Int
BY DEF Chunk, ChunksOf

LEMMA ThereAreChunks == live \in Seq(Document) => ChunksOf(ToSet(live)) \subseteq Chunk
<1> SUFFICES ASSUME live \in Seq(Document) PROVE ChunksOf(ToSet(live)) \subseteq Chunk
  OBVIOUS
<1>1. ToSet(live) \subseteq Document
  BY DEF ToSet
<1> HIDE DEF Chunk
<1> QED BY <1>1 DEF ChunksOf, Chunk

SectionType == [of : Chunk, parts : Seq(Chunk)]

\* What a section prints: its chunk, and no other that won, in the order of the
\* document.
PrintsItsOwn(section, c, won) ==
    /\ section \in SectionType /\ section.of = c
    /\ ToSet(section.parts) \cap won = {c}
    /\ \A j \in 1..Len(section.parts) - 1 :
           section.parts[j + 1] = <<section.parts[j][1], section.parts[j][2] + 1>>

\* The neighbour at a place, if it is there and has not won.
Beside(c, o, free) == IF <<c[1], o>> \in free THEN <<<<c[1], o>>>> ELSE <<>>
Stitched(c, free) == [of |-> c, parts |-> Beside(c, c[2] - 1, free) \o <<c>> \o Beside(c, c[2] + 1, free)]

LEMMA OneAndOne == ASSUME NEW x, NEW y PROVE <<x>> \o <<y>> = <<x, y>>
<1> DEFINE u == <<x>> \o <<y>>
           S == {x, y}
<1>1. <<x>> \in Seq(S) /\ <<y>> \in Seq(S)
  OBVIOUS
<1>2. u \in Seq(S) /\ Len(u) = 2 /\ u[1] = x /\ u[2] = y
  BY <1>1
<1> HIDE DEF u
<1>3. u = <<x, y>>
  BY <1>2
<1> QED BY <1>3 DEF u

LEMMA TwoAndOne == ASSUME NEW x, NEW y, NEW z PROVE <<x, y>> \o <<z>> = <<x, y, z>>
<1> DEFINE u == <<x, y>> \o <<z>>
           S == {x, y, z}
<1>1. <<x, y>> \in Seq(S) /\ <<z>> \in Seq(S)
  OBVIOUS
<1>2. u \in Seq(S) /\ Len(u) = 3 /\ u[1] = x /\ u[2] = y /\ u[3] = z
  BY <1>1
<1> HIDE DEF u
<1>3. u = <<x, y, z>>
  BY <1>2
<1> QED BY <1>3 DEF u

LEMMA StitchedPrintsItsOwn ==
    ASSUME NEW won \in SUBSET Chunk, NEW c \in won, NEW free \in SUBSET Chunk, free \cap won = {}
    PROVE  PrintsItsOwn(Stitched(c, free), c, won)
<1> DEFINE a == <<c[1], c[2] - 1>>
           b == <<c[1], c[2] + 1>>
           s == Stitched(c, free)
<1>1. c = <<c[1], c[2]>> /\ c[2] \in Int
  BY ChunkIsPlace
<1>2. c = <<a[1], a[2] + 1>> /\ b = <<c[1], c[2] + 1>>
  BY <1>1
<1>3. s = [of |-> c, parts |-> (IF a \in free THEN <<a>> ELSE <<>>) \o <<c>>
                                   \o (IF b \in free THEN <<b>> ELSE <<>>)]
  BY DEF Stitched, Beside
<1> HIDE DEF a, b, s
<1>4. CASE a \notin free /\ b \notin free
  <2>1. s = [of |-> c, parts |-> <<c>>]
    BY <1>3, <1>4
  <2>2. s \in SectionType /\ s.of = c /\ Len(s.parts) = 1
    BY <2>1 DEF SectionType
  <2>3. ToSet(s.parts) = {c}
    BY <2>1 DEF ToSet
  <2> QED BY <2>2, <2>3 DEF PrintsItsOwn, s
<1>5. CASE a \in free /\ b \notin free
  <2>1. s = [of |-> c, parts |-> <<a, c>>]
    BY <1>3, <1>5
  <2>2. s \in SectionType /\ s.of = c /\ Len(s.parts) = 2 /\ s.parts[1] = a /\ s.parts[2] = c
    BY <1>5, <2>1 DEF SectionType
  <2>3. ToSet(s.parts) = {a, c}
    BY <2>1 DEF ToSet
  <2>4. ToSet(s.parts) \cap won = {c}
    BY <1>5, <2>3
  <2>5. \A j \in 1..1 : s.parts[j + 1] = <<s.parts[j][1], s.parts[j][2] + 1>>
    BY <1>2, <2>2
  <2> QED BY <2>2, <2>4, <2>5 DEF PrintsItsOwn, s
<1>6. CASE a \notin free /\ b \in free
  <2>1. s = [of |-> c, parts |-> <<c, b>>]
    BY <1>3, <1>6
  <2>2. s \in SectionType /\ s.of = c /\ Len(s.parts) = 2 /\ s.parts[1] = c /\ s.parts[2] = b
    BY <1>6, <2>1 DEF SectionType
  <2>3. ToSet(s.parts) = {c, b}
    BY <2>1 DEF ToSet
  <2>4. ToSet(s.parts) \cap won = {c}
    BY <1>6, <2>3
  <2>5. \A j \in 1..1 : s.parts[j + 1] = <<s.parts[j][1], s.parts[j][2] + 1>>
    BY <1>2, <2>2
  <2> QED BY <2>2, <2>4, <2>5 DEF PrintsItsOwn, s
<1>7. CASE a \in free /\ b \in free
  <2>a. <<a>> \o <<c>> = <<a, c>> /\ <<a, c>> \o <<b>> = <<a, c, b>>
    BY OneAndOne, TwoAndOne
  <2>1. s = [of |-> c, parts |-> <<a, c, b>>]
    BY <1>3, <1>7, <2>a
  <2>2. /\ s \in SectionType /\ s.of = c /\ Len(s.parts) = 3
        /\ s.parts[1] = a /\ s.parts[2] = c /\ s.parts[3] = b
    BY <1>7, <2>1 DEF SectionType
  <2>3. ToSet(s.parts) = {a, c, b}
    BY <2>1 DEF ToSet
  <2>4. ToSet(s.parts) \cap won = {c}
    BY <1>7, <2>3
  <2>5. \A j \in 1..2 : s.parts[j + 1] = <<s.parts[j][1], s.parts[j][2] + 1>>
    BY <1>2, <2>2
  <2> QED BY <2>2, <2>4, <2>5 DEF PrintsItsOwn, s
<1> QED BY <1>4, <1>5, <1>6, <1>7

LEMMA StitchedType ==
    ASSUME NEW won \in Seq(Chunk), NEW there \in SUBSET Chunk
    PROVE  /\ stitchNeighbours(won, there) \in Seq(SectionType)
           /\ Len(stitchNeighbours(won, there)) = Len(won)
           /\ \A i \in 1..Len(won) :
                  PrintsItsOwn(stitchNeighbours(won, there)[i], won[i], ToSet(won))
<1> DEFINE free == there \ ToSet(won)
           L == Len(won)
           all == stitchNeighbours(won, there)
<1>1. L \in Nat /\ DOMAIN won = 1..L /\ ToSet(won) \in SUBSET Chunk
      /\ \A i \in 1..L : won[i] \in ToSet(won)
  BY DEF ToSet
<1>2. all = [i \in 1..L |-> Stitched(won[i], free)]
  BY <1>1 DEF stitchNeighbours, Stitched, Beside
<1>3. \A i \in 1..L : PrintsItsOwn(Stitched(won[i], free), won[i], ToSet(won))
  BY <1>1, StitchedPrintsItsOwn
<1> HIDE DEF L, all
<1>4. \A i \in 1..L : PrintsItsOwn(all[i], won[i], ToSet(won))
  BY <1>2, <1>3
<1>5. \A i \in 1..L : all[i] \in SectionType
  BY <1>4 DEF PrintsItsOwn
<1>6. all \in Seq(SectionType) /\ Len(all) = L
  <2>1. all \in [1..L -> SectionType]
    BY <1>2, <1>5
  <2> QED BY <1>1, <2>1
<1> QED BY <1>4, <1>6 DEF L, all

LEMMA SectionSizeType == ASSUME NEW s \in SectionType PROVE SectionSize(s) \in Int
<1> DEFINE parts == s.parts
           sizes == [i \in DOMAIN parts |-> Size[parts[i]]]
           L == Len(parts)
<1>1. parts \in Seq(Chunk) /\ L \in Nat /\ DOMAIN parts = 1..L /\ \A i \in 1..L : parts[i] \in Chunk
  BY DEF SectionType
<1>2. \A c \in Chunk : Size[c] \in Int
  <2> TAKE c \in Chunk
  <2>1. PICK d \in Document : \E o \in 1..Pieces[d] : c = <<d, o>>
    BY DEF Chunk, ChunksOf
  <2> QED BY <2>1, ChunkAssumption
<1> HIDE DEF parts, L
<1>3. sizes \in [1..L -> Int]
  BY <1>1, <1>2
<1>4. sizes \in Seq(Int)
  <2> HIDE DEF sizes
  <2> QED BY <1>1, <1>3
<1>5. Total(sizes) \in Int
  <2> HIDE DEF sizes
  <2> QED BY <1>4, TotalType
<1>6. SectionSize(s) = Total(sizes) + Separator * (L - 1)
  BY DEF SectionSize, parts, L
<1> HIDE DEF sizes
<1> QED BY <1>1, <1>5, <1>6 DEF Separator

\* What a trim holds after each section.
Progress == [spent : Int, kept : Nat, full : BOOLEAN]
NothingRead == [spent |-> 0, kept |-> 0, full |-> FALSE]
ReadOn(acc, section, most) ==
    LET sum == acc.spent + SectionSize(section)
    IN IF acc.full \/ (acc.kept > 0 /\ sum > most)
       THEN [acc EXCEPT !.full = TRUE]
       ELSE [spent |-> sum, kept |-> acc.kept + 1, full |-> FALSE]

Trimming(r, all, most) ==
    /\ r \in [0..Len(all) -> Progress] /\ r[0] = NothingRead
    /\ \A n \in 1..Len(all) : r[n] = ReadOn(r[n - 1], all[n], most)

LEMMA ReadOnType ==
    ASSUME NEW acc \in Progress, NEW s \in SectionType, NEW most \in Int
    PROVE  ReadOn(acc, s, most) \in Progress
<1>1. acc.spent + SectionSize(s) \in Int /\ acc.kept + 1 \in Nat
  BY SectionSizeType DEF Progress
<1> QED BY <1>1 DEF ReadOn, Progress

LEMMA TrimUnfolds ==
    ASSUME NEW all \in Seq(SectionType), NEW most \in Int
    PROVE  \E r : Trimming(r, all, most) /\ trimToBudget(all, most) = SubSeq(all, 1, r[Len(all)].kept)
<1> DEFINE L == Len(all)
           A == Progress
           base == NothingRead
           F(it) == [s \in SUBSET (1..L) |->
                        IF s = {} THEN base ELSE ReadOn(it[s \ {Max(s)}], all[Max(s)], most)]
           step == [i \in 1..L |-> [acc \in A |-> ReadOn(acc, all[i], most)]]
<1>1. DOMAIN all = 1..L /\ L \in Nat
  OBVIOUS
<1>b. base \in A
  BY DEF NothingRead, Progress
<1>c. \A i \in 1..L, acc \in A : ReadOn(acc, all[i], most) \in A
  BY ReadOnType
<1>2. trimToBudget(all, most) = SubSeq(all, 1, (CHOOSE it : it = F(it))[1..L].kept)
  BY <1>1 DEF trimToBudget, FoldLeft, MapThenFoldSet, ReadOn, NothingRead
<1> HIDE DEF L, A, base
<1>3. step \in [1..L -> [A -> A]]
  BY <1>c
<1>4. PICK g \in [SUBSET (1..L) -> A] :
          IsFold(g, 1..L, base, [s \in SUBSET (1..L) |-> Max(s)], step)
  <2> HIDE DEF step
  <2> QED BY <1>1, <1>3, <1>b, LeftFold
<1>5. g = F(g)
  <2>1. ASSUME NEW s \in SUBSET (1..L), s # {}
        PROVE  g[s] = ReadOn(g[s \ {Max(s)}], all[Max(s)], most)
    <3>1. Max(s) \in 1..L /\ g[s \ {Max(s)}] \in A
      BY <1>1, <2>1, LastPlace
    <3>2. g[s] = step[Max(s)][g[s \ {Max(s)}]]
      BY <1>4, <2>1 DEF IsFold
    <3> QED BY <3>1, <3>2
  <2>2. \A s \in SUBSET (1..L) :
            g[s] = IF s = {} THEN base ELSE ReadOn(g[s \ {Max(s)}], all[Max(s)], most)
    BY <1>4, <2>1 DEF IsFold
  <2> QED BY <2>2
<1> DEFINE h == CHOOSE it : it = F(it)
<1>6. h = F(h)
  <2> HIDE DEF F
  <2> QED BY <1>5
<1>7. h[{}] = base
  BY <1>6
<1>8. ASSUME NEW s \in SUBSET (1..L), s # {}, h[s \ {Max(s)}] \in A
      PROVE  h[s] = step[Max(s)][h[s \ {Max(s)}]]
  <2>1. Max(s) \in 1..L
    BY <1>1, <1>8, LastPlace
  <2>2. h[s] = ReadOn(h[s \ {Max(s)}], all[Max(s)], most)
    BY <1>6, <1>8
  <2> QED BY <1>8, <2>1, <2>2
<1>9. \A n \in 1..L, acc \in A : step[n][acc] = ReadOn(acc, all[n], most)
  OBVIOUS
<1> HIDE DEF h, step
<1>10. FoldsLeft(h, L, A, base, step)
  BY <1>7, <1>8 DEF FoldsLeft
<1>11. PICK r \in [0..L -> A] : r[L] = h[1..L] /\ IsWalk(r, L, base, step)
  BY <1>1, <1>3, <1>b, <1>10, LeftWalk
<1>12. \A n \in 1..L : r[n - 1] \in A
  BY <1>1
<1>13. \A n \in 1..L : r[n] = ReadOn(r[n - 1], all[n], most)
  BY <1>9, <1>11, <1>12 DEF IsWalk
<1>14. r[0] = base /\ trimToBudget(all, most) = SubSeq(all, 1, r[L].kept)
  BY <1>2, <1>11 DEF IsWalk, h
<1> QED BY <1>13, <1>14 DEF L, A, base, Trimming

Sizes(all) == [i \in DOMAIN all |-> SectionSize(all[i])]

LEMMA SizesType ==
    ASSUME NEW all \in Seq(SectionType)
    PROVE  /\ Sizes(all) \in Seq(Int) /\ Len(Sizes(all)) = Len(all)
           /\ \A i \in 1..Len(all) :
                  Sizes(all)[i] = SectionSize(all[i]) /\ SectionSize(all[i]) \in Int
<1> DEFINE L == Len(all)
<1>1. L \in Nat /\ DOMAIN all = 1..L /\ \A i \in 1..L : all[i] \in SectionType
  OBVIOUS
<1>2. \A i \in 1..L : SectionSize(all[i]) \in Int
  BY <1>1, SectionSizeType
<1> HIDE DEF L
<1>3. Sizes(all) = [i \in 1..L |-> SectionSize(all[i])]
  BY <1>1 DEF Sizes
<1> QED BY <1>1, <1>2, <1>3 DEF L

\* The size of the first sections, as a sum.
LEMMA SizeOfPart ==
    ASSUME NEW all \in Seq(SectionType), NEW p, Sums(p, Sizes(all)), NEW m \in 0..Len(all)
    PROVE  SizeOf(SubSeq(all, 1, m)) = p[m] /\ p[m] \in Int
<1> DEFINE L == Len(all)
           part == SubSeq(all, 1, m)
           sizes == Sizes(all)
<1>1. L \in Nat /\ m \in Nat /\ m <= L /\ sizes \in Seq(Int) /\ Len(sizes) = L
  BY SizesType
<1>2. Total(SubSeq(sizes, 1, m)) = p[m] /\ p[m] \in Int
  <2>1. p \in [0..L -> Int] /\ p[0] = 0
    BY <1>1 DEF Sums
  <2> HIDE DEF sizes, L
  <2>2. Total(SubSeq(sizes, 0 + 1, m)) = p[m] - p[0]
    BY <1>1, TotalOfPart DEF sizes
  <2> QED BY <1>1, <2>1, <2>2
<1>3. part \in Seq(SectionType) /\ DOMAIN part = 1..m /\ \A j \in 1..m : part[j] = all[j] /\ j \in 1..L
  BY <1>1
<1>4. SubSeq(sizes, 1, m) = [j \in 1..m |-> sizes[j]]
  <2> HIDE DEF sizes
  <2> QED BY <1>1
<1>5. \A j \in 1..m : sizes[j] = SectionSize(part[j])
  BY <1>3, SizesType
<1> HIDE DEF sizes, part, L
<1>6. SubSeq(sizes, 1, m) = [j \in DOMAIN part |-> SectionSize(part[j])]
  BY <1>3, <1>4, <1>5
<1> QED BY <1>2, <1>6 DEF SizeOf, part, L

\* Where a trim has come to.
TrimmedTo(acc, p, L, most, n) ==
    /\ acc.kept \in 0..n /\ acc.spent = p[acc.kept]
    /\ acc.kept > 1 => p[acc.kept] <= most
    /\ acc.full => acc.kept \in 1..L - 1 /\ p[acc.kept + 1] > most
    /\ ~ acc.full => acc.kept = n

LEMMA TrimmedNext ==
    ASSUME NEW all \in Seq(SectionType), NEW p, Sums(p, Sizes(all)), NEW most \in Int,
           NEW n \in 1..Len(all), NEW acc \in Progress,
           TrimmedTo(acc, p, Len(all), most, n - 1)
    PROVE  TrimmedTo(ReadOn(acc, all[n], most), p, Len(all), most, n)
<1> DEFINE L == Len(all)
           next == ReadOn(acc, all[n], most)
           size == SectionSize(all[n])
<1>1. L \in Nat /\ n \in 1..L /\ n - 1 \in Nat
  OBVIOUS
<1>2. p[n] = p[n - 1] + size /\ p[n - 1] \in Int /\ size \in Int
  <2>1. /\ Sizes(all)[n] = size /\ size \in Int
        /\ Len(Sizes(all)) = L
    BY SizesType
  <2>2. p \in [0..L -> Int] /\ p[n] = p[n - 1] + Sizes(all)[n]
    BY <2>1 DEF Sums
  <2> QED BY <1>1, <2>1, <2>2
<1>3. CASE acc.full
  <2>1. next.kept = acc.kept /\ next.spent = acc.spent /\ next.full
    BY <1>3 DEF ReadOn, Progress
  <2> HIDE DEF next, L
  <2>2. TrimmedTo(next, p, L, most, n)
    BY <1>1, <1>3, <2>1 DEF TrimmedTo, L
  <2> QED BY <2>2 DEF next, L
<1>4. CASE ~ acc.full
  <2>1. acc.kept = n - 1 /\ acc.spent = p[n - 1]
    BY <1>4 DEF TrimmedTo
  <2>2. CASE acc.kept > 0 /\ acc.spent + size > most
    <3>1. next.kept = acc.kept /\ next.spent = acc.spent /\ next.full
      BY <2>2 DEF ReadOn, Progress
    <3>2. p[n] > most /\ (acc.kept > 1 => p[acc.kept] <= most)
      BY <1>2, <2>1, <2>2 DEF TrimmedTo
    <3> HIDE DEF next, L, size
    <3>3. TrimmedTo(next, p, L, most, n)
      BY <1>1, <2>1, <2>2, <3>1, <3>2 DEF TrimmedTo
    <3> QED BY <3>3 DEF next, L
  <2>3. CASE ~ (acc.kept > 0 /\ acc.spent + size > most)
    <3>1. next.kept = acc.kept + 1 /\ next.spent = acc.spent + size /\ next.full = FALSE
      BY <1>4, <2>3 DEF ReadOn, Progress
    <3> HIDE DEF next, L, size
    <3>2. next.kept = n /\ next.spent = p[n] /\ (n > 1 => p[n] <= most)
      BY <1>1, <1>2, <2>1, <2>3, <3>1
    <3>3. TrimmedTo(next, p, L, most, n)
      BY <1>1, <3>1, <3>2 DEF TrimmedTo
    <3> QED BY <3>3 DEF next, L
  <2> QED BY <2>2, <2>3
<1> QED BY <1>3, <1>4

\* What a trim keeps fits, or is one section, and one more would not fit.
LEMMA TrimFits ==
    ASSUME NEW all \in Seq(SectionType), NEW most \in Nat
    PROVE  LET kept == trimToBudget(all, most)
           IN  /\ IsPrefix(kept, all)
               /\ Len(kept) = 1 \/ SizeOf(kept) <= most
               /\ Len(kept) < Len(all) => SizeOf(SubSeq(all, 1, Len(kept) + 1)) > most
               /\ \E m \in 0..Len(all) : kept = SubSeq(all, 1, m)
<1> DEFINE L == Len(all)
           kept == trimToBudget(all, most)
<1>1. PICK r : Trimming(r, all, most) /\ kept = SubSeq(all, 1, r[L].kept)
  BY TrimUnfolds
<1> HIDE DEF kept
<1>2. L \in Nat /\ Sizes(all) \in Seq(Int) /\ Len(Sizes(all)) = L
  BY SizesType
<1>3. PICK p : Sums(p, Sizes(all))
  BY <1>2, TotalUnfolds
<1>4. p[0] = 0
  BY <1>3 DEF Sums
<1>5. r \in [0..L -> Progress] /\ r[0] = NothingRead
  BY <1>1 DEF Trimming
<1> DEFINE T == {n \in Nat : n <= L => TrimmedTo(r[n], p, L, most, n)}
<1>6. 0 \in T
  BY <1>4, <1>5 DEF TrimmedTo, NothingRead
<1>7. ASSUME NEW n \in 1..L, n - 1 \in T PROVE n \in T
  <2>1. n \in Nat /\ n - 1 \in 0..L /\ r[n - 1] \in Progress
    BY <1>2, <1>5
  <2>2. TrimmedTo(r[n - 1], p, L, most, n - 1)
    BY <1>2, <1>7, <2>1
  <2>3. r[n] = ReadOn(r[n - 1], all[n], most)
    BY <1>1 DEF Trimming
  <2>4. TrimmedTo(r[n], p, L, most, n)
    BY <1>3, <2>1, <2>2, <2>3, TrimmedNext
  <2> QED BY <2>1, <2>4
<1> HIDE DEF T
<1>8. \A n \in 0..L : n \in T
  BY <1>2, <1>6, <1>7, SetInductionUpTo
<1>9. TrimmedTo(r[L], p, L, most, L)
  <2>1. L \in 0..L /\ L <= L
    BY <1>2
  <2> HIDE DEF L
  <2> QED BY <1>8, <2>1 DEF T
<1> DEFINE m == r[L].kept
<1>10. /\ m \in 0..L /\ (m > 1 => p[m] <= most)
       /\ m < L => m + 1 \in 0..L /\ p[m + 1] > most
  BY <1>2, <1>9 DEF TrimmedTo
<1> HIDE DEF m
<1>11. kept = SubSeq(all, 1, m) /\ Len(kept) = m /\ SizeOf(kept) = p[m] /\ m \in Nat
  BY <1>1, <1>3, <1>10, SizeOfPart DEF m
<1>12. IsPrefix(kept, all)
  <2>1. SubSeq(kept, 1, m) = kept
    BY <1>2, <1>10, <1>11
  <2> QED BY <1>10, <1>11, <2>1 DEF IsPrefix
<1>13. m = 1 \/ p[m] <= most
  BY <1>4, <1>10
<1>14. ASSUME m < L PROVE SizeOf(SubSeq(all, 1, m + 1)) > most
  <2> DEFINE j == m + 1
  <2>1. j \in 0..L /\ p[j] > most
    BY <1>10, <1>14
  <2> HIDE DEF j
  <2>2. SizeOf(SubSeq(all, 1, j)) = p[j]
    BY <1>3, <2>1, SizeOfPart
  <2> QED BY <2>1, <2>2 DEF j
<1> QED BY <1>10, <1>11, <1>12, <1>13, <1>14 DEF kept

LEMMA BudgetType == budget \in Nat
<1> DEFINE percent == IF contextShare = 0 THEN defaultContextShare ELSE contextShare
           most == window(ask.model) * percent
<1>1. percent \in Nat
  BY ShareAssumption DEF defaultContextShare
<1> HIDE DEF percent
<1>2. most \in Nat
  BY <1>1, WindowType
<1> HIDE DEF most
<1>3. (most \div 100) * perToken \in Nat
  BY <1>2 DEF perToken
<1> QED BY <1>3 DEF budget, contextBudget, percent, most

\* What the sections are fitted from.
FitInv == AskInv /\ RankTypes /\ live \in Seq(Document)

LEMMA FitInitially == AskInit => FitInv
BY AskInitially, RankInit, LibraryAssumption DEF AskInit, FitInv

LEMMA FitStep == FitInv /\ [AskNext]_askVars => FitInv'
BY AskStep, RankStep, LibraryStep DEF FitInv

Stitching == stitchNeighbours(hits, ChunksOf(ToSet(live)))

LEMMA StitchingType ==
    ASSUME FitInv
    PROVE  /\ hits \in Seq(Chunk) /\ Stitching \in Seq(SectionType) /\ Len(Stitching) = Len(hits)
           /\ \A i \in 1..Len(hits) : PrintsItsOwn(Stitching[i], hits[i], ToSet(hits))
<1>1. hits \in Seq(Chunk) /\ ChunksOf(ToSet(live)) \in SUBSET Chunk
  BY ThereAreChunks DEF FitInv, RankTypes, RankInv
<1> QED BY <1>1, StitchedType DEF Stitching

\* Each section is that of the hit with its number.
LEMMA FittedIsHits ==
    ASSUME FitInv
    PROVE  /\ Fitted \in Seq(SectionType) /\ Len(Fitted) <= Len(hits)
           /\ \A i \in DOMAIN Fitted : PrintsItsOwn(Fitted[i], hits[i], ToSet(hits))
<1> DEFINE L == Len(hits)
<1>1. hits \in Seq(Chunk) /\ L \in Nat /\ DOMAIN hits = 1..L
  BY StitchingType
<1>2. CASE budget > 0
  <2>1. Fitted = trimToBudget(Stitching, budget)
    BY <1>2 DEF Fitted, Stitching
  <2>2. PICK m \in 0..L : Fitted = SubSeq(Stitching, 1, m)
    <3>1. \E m \in 0..Len(Stitching) : trimToBudget(Stitching, budget) = SubSeq(Stitching, 1, m)
      BY StitchingType, BudgetType, TrimFits
    <3> QED BY <2>1, <3>1, StitchingType
  <2>3. /\ Fitted \in Seq(SectionType) /\ Len(Fitted) = m /\ DOMAIN Fitted = 1..m
        /\ \A i \in 1..m : Fitted[i] = Stitching[i] /\ i \in 1..L
    BY <1>1, <2>2, StitchingType
  <2> QED BY <1>1, <2>3, StitchingType
<1>3. CASE ~ (budget > 0)
  <2>1. Fitted = [i \in 1..L |-> Section(hits[i])]
    BY <1>1, <1>3 DEF Fitted
  <2>2. ASSUME NEW c \in Chunk, NEW won, c \in won
        PROVE  Section(c) \in SectionType /\ PrintsItsOwn(Section(c), c, won)
    <3>1. Section(c).of = c /\ Section(c).parts = <<c>> /\ Section(c) \in SectionType
      BY DEF Section, SectionType
    <3>2. ToSet(<<c>>) = {c} /\ Len(<<c>>) = 1
      BY DEF ToSet
    <3> QED BY <2>2, <3>1, <3>2 DEF PrintsItsOwn
  <2>3. \A i \in 1..L : hits[i] \in Chunk /\ hits[i] \in ToSet(hits)
    BY <1>1 DEF ToSet
  <2>4. \A i \in 1..L : Fitted[i] \in SectionType /\ PrintsItsOwn(Fitted[i], hits[i], ToSet(hits))
    BY <2>1, <2>2, <2>3
  <2>5. Fitted \in [1..L -> SectionType]
    BY <2>1, <2>4
  <2> HIDE DEF L
  <2>6. Fitted \in Seq(SectionType) /\ Len(Fitted) = L /\ DOMAIN Fitted = 1..L
    BY <1>1, <2>5
  <2> QED BY <1>1, <2>4, <2>6 DEF L
<1> QED BY <1>2, <1>3

\* Only Fit makes sections.
LEMMA ContextIsFitted == [AskNext]_askVars /\ context' # context => context' = Fitted
<1> SUFFICES ASSUME [AskNext]_askVars, context' # context PROVE context' = Fitted
  OBVIOUS
<1>1. ~ (Receive \/ SmallTalk \/ Recent \/ Count \/ ListCounted \/ NotEarly)
  BY DEF Receive, SmallTalk, Recent, Count, ListCounted, NotEarly, search
<1>2. ~ (Rewritten \/ ReadSig \/ LookUp \/ Embed)
  BY DEF Rewritten, ReadSig, LookUp, Embed, search
<1>3. ~ (VectorCandidates \/ KeywordCandidates \/ Load \/ Supplement \/ Leave \/ Change)
  BY DEF VectorCandidates, KeywordCandidates, Load, Supplement, Leave, Change, search
<1>4. ~ (UsageFrame \/ TokenFrame \/ StreamEnds \/ Settle \/ UNCHANGED askVars)
  BY DEF UsageFrame, TokenFrame, StreamEnds, Settle, search, askVars
<1>5. Fit
  BY <1>1, <1>2, <1>3, <1>4 DEF AskNext
<1> QED BY <1>5 DEF Fit

\* Whatever was found and whatever stands beside it, the section with a number
\* is the hit with that number, printed within its own document, and prints no
\* other hit (store.go, stitchNeighbours).
THEOREM NumbersKeepTheirTextCorrect == AskSpec => NumbersKeepTheirText
<1>1. FitInv /\ [AskNext]_askVars /\ context' # context =>
          \A i \in DOMAIN context' : PrintsItsOwn(context'[i], hits[i], ToSet(hits))
  BY FittedIsHits, ContextIsFitted
<1>2. FitInv /\ [AskNext]_askVars =>
          [context' # context =>
              LET parts(i) == context'[i].parts
              IN \A i \in DOMAIN context' :
                     /\ context'[i].of = hits[i]
                     /\ ToSet(parts(i)) \cap ToSet(hits) = {hits[i]}
                     /\ \A j \in 1..Len(parts(i)) - 1 :
                            parts(i)[j + 1] = <<parts(i)[j][1], parts(i)[j][2] + 1>>]_askVars
  BY <1>1 DEF PrintsItsOwn
<1> QED BY <1>2, FitInitially, FitStep, PTL DEF AskSpec, NumbersKeepTheirText

\* Whatever the lengths, the window and its share, the sections are as many of
\* the best as fit, or the best alone (retrieve.go, trimToBudget).
THEOREM ContextFitsCorrect == AskSpec => ContextFits
<1>1. FitInv /\ [AskNext]_askVars =>
          [context' # context /\ budget > 0 =>
              LET all == stitchNeighbours(hits, ChunksOf(ToSet(live)))
              IN /\ IsPrefix(context', all)
                 /\ Len(context') = 1 \/ SizeOf(context') <= budget
                 /\ Len(context') < Len(all) =>
                        SizeOf(SubSeq(all, 1, Len(context') + 1)) > budget]_askVars
  <2> SUFFICES ASSUME FitInv, [AskNext]_askVars, context' # context, budget > 0
               PROVE  /\ IsPrefix(context', Stitching)
                      /\ Len(context') = 1 \/ SizeOf(context') <= budget
                      /\ Len(context') < Len(Stitching) =>
                             SizeOf(SubSeq(Stitching, 1, Len(context') + 1)) > budget
    BY DEF Stitching
  <2>1. context' = trimToBudget(Stitching, budget)
    BY ContextIsFitted DEF Fitted, Stitching
  <2> QED BY <2>1, StitchingType, BudgetType, TrimFits
<1> QED BY <1>1, FitInitially, FitStep, PTL DEF AskSpec, ContextFits

-----------------------------------------------------------------------------
(* A listing is the library's own.                                         *)

\* A question that has come to its end stays there.
LEMMA EndedStays == [AskNext]_askVars /\ pc \in Ended => UNCHANGED askVars
BY DEF AskNext, Receive, SmallTalk, Recent, Count, ListCounted, NotEarly, UsageFrame,
   Rewritten, ReadSig, LookUp, Embed, VectorCandidates, KeywordCandidates, Load, Fit,
   Supplement, TokenFrame, StreamEnds, Settle, Leave, Change, Ended

\* Before it ends, a step sends a word of the answer or nothing.
LEMMA SentOnTheWay ==
    [AskNext]_askVars /\ pc' \notin {"done", "failed"} => UNCHANGED frames \/ TokenFrame
<1> SUFFICES ASSUME [AskNext]_askVars, pc' \notin {"done", "failed"}
             PROVE  UNCHANGED frames \/ TokenFrame
  OBVIOUS
<1>1. CASE Receive \/ SmallTalk \/ Recent \/ Count \/ ListCounted \/ NotEarly
  BY <1>1 DEF Receive, SmallTalk, Recent, Count, ListCounted, NotEarly, Reply
<1>2. CASE Rewritten \/ ReadSig \/ LookUp \/ Embed
  BY <1>2 DEF Rewritten, ReadSig, LookUp, Embed, Reply, Fail
<1>3. CASE VectorCandidates \/ KeywordCandidates \/ Load \/ Fit \/ Supplement
  BY <1>3 DEF VectorCandidates, KeywordCandidates, Load, Fit, Supplement, Reply, Fail
<1>4. CASE UsageFrame \/ StreamEnds \/ Settle \/ Leave \/ Change
  BY <1>4 DEF UsageFrame, StreamEnds, Settle, Leave, Change, Reply, Fail
<1>5. CASE UNCHANGED askVars
  BY <1>5 DEF askVars
<1> QED BY <1>1, <1>2, <1>3, <1>4, <1>5 DEF AskNext

\* Until it ends, a question has sent words only.
WordsOnly == pc \notin {"done", "failed"} => \A f \in ToSet(frames) : f.f = "token"

LEMMA WordsOnlyStep == WordsOnly /\ FrameInv /\ [AskNext]_askVars => WordsOnly'
<1> SUFFICES ASSUME WordsOnly, FrameInv, [AskNext]_askVars, pc' \notin {"done", "failed"}
             PROVE  \A f \in ToSet(frames') : f.f = "token"
  BY DEF WordsOnly
<1>1. pc \notin {"done", "failed"}
  BY EndedStays DEF Ended, askVars
<1>2. IsList(frames) /\ \A f \in ToSet(frames) : f.f = "token"
  BY <1>1 DEF WordsOnly, FrameInv
<1>3. CASE UNCHANGED frames
  BY <1>2, <1>3
<1>4. CASE TokenFrame
  <2>1. PICK t \in Token : send(<<Says(t)>>)
    BY ONLY <1>4 DEF TokenFrame
  <2>2. Says(t).f = "token"
    BY DEF Says
  <2>3. IsList(<<Says(t)>>) /\ ToSet(<<Says(t)>>) = {Says(t)}
    BY OneIsList
  <2>4. ToSet(frames') \subseteq ToSet(frames) \cup {Says(t)}
    BY <1>2, <2>1, <2>3, Sent
  <2> QED BY <1>2, <2>2, <2>4
<1> QED BY <1>3, <1>4, SentOnTheWay

\* No list of documents is shown beside an answer or an error.
LEMMA NothingListed ==
    ASSUME WordsOnly, IsList(frames), pc \notin {"done", "failed"},
           \/ Fail
           \/ \E text, c, cached, tokens :
                  text \in Seq(ToSet(text)) /\ Reply(text, c, cached, tokens)
    PROVE  FramesOf("listing")' = {}
<1>1. \A f \in ToSet(frames) : f.f = "token"
  BY DEF WordsOnly
<1>2. ASSUME NEW fs, send(fs), IsList(fs), \A f \in ToSet(fs) : f.f # "listing"
      PROVE  FramesOf("listing")' = {}
  <2>1. ToSet(frames') \subseteq ToSet(frames) \cup ToSet(fs)
    BY ONLY <1>2, IsList(frames), Sent
  <2> QED BY ONLY <1>1, <1>2, <2>1 DEF FramesOf
<1>3. CASE Fail
  <2>1. IsList(<<Error>>) /\ ToSet(<<Error>>) = {Error} /\ Error.f = "error" /\ send(<<Error>>)
    BY <1>3, OneIsList DEF Error, Fail
  <2> QED BY <1>2, <2>1
<1>4. ASSUME NEW text, NEW c, NEW cached, NEW tokens,
             text \in Seq(ToSet(text)), Reply(text, c, cached, tokens)
      PROVE  FramesOf("listing")' = {}
  <2>1. Cites(c).f = "citations" /\ Done(cached, tokens).f = "done"
    BY DEF Cites, Done
  <2>2. PICK fs : /\ send(fs) /\ IsList(fs)
                  /\ \A f \in ToSet(fs) :
                         f.f = "token" \/ f = Cites(c) \/ f = Done(cached, tokens)
    BY <1>4, ReplyIsList
  <2>3. \A f \in ToSet(fs) : f.f # "listing"
    BY ONLY <2>1, <2>2
  <2> QED BY ONLY <1>2, <2>2, <2>3
<1> QED BY <1>3, <1>4

LEMMA ThatListed ==
    ASSUME WordsOnly, IsList(frames), pc \notin {"done", "failed"}, NEW n, NEW docs,
           send(<<Lists(n, docs), Cites(<<>>), Done(FALSE, 0)>>)
    PROVE  \A f \in FramesOf("listing")' : f.total = n /\ f.docs = docs
<1> DEFINE fs == <<Lists(n, docs), Cites(<<>>), Done(FALSE, 0)>>
<1>1. \A f \in ToSet(frames) : f.f = "token"
  BY DEF WordsOnly
<1>2. IsList(fs) /\ ToSet(fs) = {Lists(n, docs), Cites(<<>>), Done(FALSE, 0)}
  BY ONLY ThreeAreList
<1>3. /\ Lists(n, docs).total = n /\ Lists(n, docs).docs = docs
      /\ Cites(<<>>).f = "citations" /\ Done(FALSE, 0).f = "done"
  BY DEF Lists, Cites, Done
<1>4. send(fs)
  OBVIOUS
<1> HIDE DEF fs
<1>5. ToSet(frames') \subseteq ToSet(frames) \cup ToSet(fs)
  BY <1>2, <1>4, Sent
<1> QED BY ONLY <1>1, <1>2, <1>3, <1>5 DEF FramesOf

\* What ends a question: an error, a reply, or one of the two listings.
LEMMA HowItEnds ==
    FrameInv /\ [AskNext]_askVars /\ pc \notin Ended /\ pc' \in {"done", "failed"}
        => \/ Fail
           \/ \E text, c, cached, tokens :
                  text \in Seq(ToSet(text)) /\ Reply(text, c, cached, tokens)
           \/ Recent \/ ListCounted
<1> SUFFICES ASSUME FrameInv, [AskNext]_askVars, pc \notin Ended, pc' \in {"done", "failed"},
                    ~ (Recent \/ ListCounted)
             PROVE  \/ Fail
                    \/ \E text, c, cached, tokens :
                           text \in Seq(ToSet(text)) /\ Reply(text, c, cached, tokens)
  OBVIOUS
<1>o. \A x : <<x>> \in Seq(ToSet(<<x>>))
  BY OneIsList DEF IsList
<1>1. CASE SmallTalk
  BY <1>1, <1>o DEF SmallTalk
<1>2. CASE Settle
  <2>1. <<>> \in Seq(ToSet(<<>>))
    OBVIOUS
  <2> QED BY <1>2, <2>1 DEF Settle
<1>3. CASE Fit
  <2>1. Fail \/ Reply(<<"NoAnswer">>, <<>>, FALSE, usage)
    BY <1>3 DEF Fit
  <2> QED BY <2>1, <1>o
<1>4. CASE LookUp
  <2>1. PICK r \in rows : Reply(r.text, r.cites, TRUE, 0)
    BY <1>4 DEF LookUp
  <2>2. r.text \in Seq(Token)
    BY <2>1 DEF FrameInv
  <2>3. r.text \in Seq(ToSet(r.text))
    BY <2>2, SeqOfItsOwn DEF IsList
  <2> QED BY <2>1, <2>3
<1>5. CASE Embed \/ VectorCandidates \/ Load \/ StreamEnds
  BY <1>5 DEF Embed, VectorCandidates, Load, StreamEnds, Ended
<1>6. ~ (Receive \/ Count \/ NotEarly \/ UsageFrame \/ Rewritten \/ ReadSig \/ KeywordCandidates)
  BY DEF Receive, Count, NotEarly, GoOn, UsageFrame, Rewritten, ReadSig, KeywordCandidates, Ended
<1>7. ~ (Supplement \/ TokenFrame \/ Leave \/ Change \/ UNCHANGED askVars)
  BY DEF Supplement, TokenFrame, Leave, Change, askVars, Ended
<1> QED BY <1>1, <1>2, <1>3, <1>4, <1>5, <1>6, <1>7 DEF AskNext

Counting == corpusAskOf(ask.question) = "countDocs"
Counted(docs) == CountMatching(docs, Matching(ask.question))

\* What is counted was counted in a library there was, and in this one when
\* nothing changed.
CountInv ==
    /\ live \in Seq(Document) /\ live \in seen
    /\ pc = "list" =>
        /\ Counting
        /\ \E then \in seen : total = Counted(then)
        /\ ~ changed => total = Counted(live)

LEMMA CountInitially == AskInit => CountInv
BY LibraryAssumption DEF AskInit, CountInv

LEMMA CountedStep == CountInv /\ [AskNext]_askVars => CountInv'
<1> SUFFICES ASSUME CountInv, [AskNext]_askVars PROVE CountInv'
  OBVIOUS
<1>1. live' \in Seq(Document)
  BY LibraryStep DEF CountInv
<1>2. live' \in seen' /\ seen \subseteq seen'
  BY OnlyOthersChange DEF CountInv, library, Change
<1>3. ASSUME pc' = "list"
      PROVE  /\ Counting'
             /\ \E then \in seen' : total' = Counted(then)'
             /\ ~ changed' => total' = Counted(live)'
  <2>1. CASE Count
    <3>1. Counting /\ ask' = ask /\ live' = live /\ seen' = seen
      BY <2>1 DEF Count, Counting, request, library
    <3>2. total' = Counted(live)
      BY <1>3, <2>1 DEF Count, Counted, GoOn
    <3>3. live \in seen
      BY DEF CountInv
    <3> QED BY <3>1, <3>2, <3>3 DEF Counting, Counted
  <2>2. CASE pc = "list" /\ UNCHANGED <<ask, total>> /\ (UNCHANGED library \/ changed')
    <3>1. PICK then \in seen : total = Counted(then)
      BY <2>2 DEF CountInv
    <3>2. Counting /\ (~ changed => total = Counted(live))
      BY <2>2 DEF CountInv
    <3> QED BY <1>2, <2>2, <3>1, <3>2 DEF Counting, Counted, library
  <2>3. ~ (Receive \/ SmallTalk \/ Recent \/ ListCounted \/ NotEarly)
    BY <1>3 DEF Receive, SmallTalk, Recent, ListCounted, NotEarly, GoOn, Reply
  <2>4. ~ (UsageFrame \/ Rewritten \/ ReadSig \/ LookUp \/ Embed \/ TokenFrame \/ StreamEnds)
    BY <1>3 DEF UsageFrame, Rewritten, ReadSig, LookUp, Embed, Reply, Fail, TokenFrame, StreamEnds
  <2>5. ~ (VectorCandidates \/ KeywordCandidates \/ Load \/ Fit \/ Supplement \/ Settle)
    BY <1>3 DEF VectorCandidates, KeywordCandidates, Load, Fit, Supplement, Settle, Reply, Fail
  <2>6. CASE Leave \/ Change \/ UNCHANGED askVars
    <3>1. UNCHANGED <<ask, total, pc>> /\ (UNCHANGED library \/ changed')
      BY <2>6 DEF Leave, Change, askVars, request, library
    <3> QED BY <1>3, <2>2, <3>1
  <2> QED BY <2>1, <2>3, <2>4, <2>5, <2>6 DEF AskNext
<1> QED BY <1>1, <1>2, <1>3 DEF CountInv

\* A listing of what was counted, and one of the newest.
RealCount(n, docs) ==
    /\ \E then \in seen : n = Cardinality(ToSet(then) \cap Matching(ask.question))
    /\ \E then \in seen : ToSet(docs) \subseteq ToSet(then) \cap Matching(ask.question)
    /\ Len(docs) <= 2 * recentLimit
    /\ ~ changed => Len(docs) \in {n, 2 * recentLimit}
RealNewest(n, docs) ==
    \E then \in seen :
        /\ IsPrefix(docs, Only(then, prefix(corpusAskOf(ask.question))))
        /\ n = Len(docs)

LEMMA FirstOfIsPrefix ==
    ASSUME NEW S, NEW s \in Seq(S), NEW n \in Nat
    PROVE  /\ IsPrefix(FirstOf(s, n), s) /\ ToSet(FirstOf(s, n)) \subseteq ToSet(s)
           /\ Len(FirstOf(s, n)) = IF Len(s) < n THEN Len(s) ELSE n
<1> DEFINE m == IF Len(s) < n THEN Len(s) ELSE n
<1>1. m \in 0..Len(s)
  OBVIOUS
<1> HIDE DEF m
<1>2. FirstOf(s, n) = SubSeq(s, 1, m)
  BY DEF FirstOf, m
<1>3. /\ IsPrefix(FirstOf(s, n), s) /\ ToSet(FirstOf(s, n)) \subseteq ToSet(s)
      /\ Len(FirstOf(s, n)) = m
  BY <1>1, <1>2, PartIsPrefix
<1> QED BY <1>3 DEF m

LEMMA MatchingListed ==
    ASSUME CountInv, pc = "list"
    PROVE  RealCount(total, ListMatching(Matching(ask.question), 2 * recentLimit))
<1> DEFINE named == Matching(ask.question)
           some == ToSet(live) \cap named
           list == Only(ByPath, some)
           most == 2 * recentLimit
           docs == FirstOf(list, most)
<1>1. most \in Nat
  BY LimitsAssumption
<1>2. ToSet(live) \subseteq Document
  BY DEF CountInv, ToSet
<1>3. ByPath \in Seq(Document) /\ IsInjective(ByPath) /\ ToSet(ByPath) \cap some = some
  BY <1>2, LibraryAssumption
<1> HIDE DEF some, most
<1>4. list \in Seq(Document) /\ ToSet(list) = some /\ Len(list) = Cardinality(some)
  BY <1>3, OnlyType, OnlyLength
<1> HIDE DEF list
<1>5. /\ ToSet(docs) \subseteq some
      /\ Len(docs) = IF Len(list) < most THEN Len(list) ELSE most
  BY <1>1, <1>4, FirstOfIsPrefix
<1>6. Len(docs) <= most /\ Len(docs) \in {Cardinality(some), most}
  <2>1. Len(list) \in Nat
    BY <1>4
  <2> QED BY <1>1, <1>4, <1>5, <2>1
<1> HIDE DEF docs
<1>7. /\ \E then \in seen : total = Cardinality(ToSet(then) \cap named)
      /\ ~ changed => total = Cardinality(some)
      /\ live \in seen
  BY DEF CountInv, Counted, CountMatching, some
<1>8. RealCount(total, docs)
  BY <1>5, <1>6, <1>7 DEF RealCount, some, most
<1> QED BY <1>8 DEF docs, list, most, some, ListMatching

LEMMA NewestListed ==
    ASSUME CountInv, NEW docs, docs = RecentDocuments(prefix(corpusAskOf(ask.question)), recentLimit)
    PROVE  RealNewest(Len(docs), docs)
<1> DEFINE list == Only(live, prefix(corpusAskOf(ask.question)))
<1>1. list \in Seq(Document) /\ live \in seen
  BY OnlyType DEF CountInv
<1>2. docs = FirstOf(list, recentLimit) /\ recentLimit \in Nat
  BY LimitsAssumption DEF RecentDocuments
<1> HIDE DEF list
<1>3. IsPrefix(docs, list)
  BY <1>1, <1>2, FirstOfIsPrefix
<1> QED BY <1>1, <1>3 DEF RealNewest, list

Listing == CostInv /\ FrameInv /\ WordsOnly /\ CountInv /\ CountIsReal

LEMMA ListingStep == Listing /\ [AskNext]_askVars => Listing'
<1> SUFFICES ASSUME Listing, [AskNext]_askVars PROVE CountIsReal'
  BY CostStep, FrameStep, WordsOnlyStep, CountedStep DEF Listing
<1>1. CASE pc \in Ended
  <2>1. UNCHANGED <<ask, seen, changed, frames>>
    BY <1>1, EndedStays DEF askVars
  <2>2. CountIsReal
    BY DEF Listing
  <2> QED BY <2>1, <2>2 DEF CountIsReal, FramesOf
<1>2. ASSUME FramesOf("listing")' = {} PROVE CountIsReal'
  BY <1>2 DEF CountIsReal
<1>3. CASE pc' \notin {"done", "failed"}
  <2>1. WordsOnly'
    BY WordsOnlyStep DEF Listing
  <2> QED BY <1>2, <1>3, <2>1 DEF WordsOnly, FramesOf
<1>4. CASE pc \notin Ended /\ pc' \in {"done", "failed"}
  <2>1. IsList(frames) /\ WordsOnly /\ pc \notin {"done", "failed"} /\ CountInv
    BY <1>4 DEF Listing, FrameInv, Ended
  <2>2. CASE Recent
    <3> DEFINE docs == RecentDocuments(prefix(corpusAskOf(ask.question)), recentLimit)
    <3>1. send(<<Lists(Len(docs), docs), Cites(<<>>), Done(FALSE, 0)>>)
      BY <1>4, <2>2 DEF Recent, GoOn
    <3>2. ~ Counting /\ UNCHANGED <<ask, seen, changed>>
      BY <2>2 DEF Recent, Counting, request, library
    <3>3. RealNewest(Len(docs), docs)
      BY <2>1, NewestListed
    <3> HIDE DEF docs
    <3>4. \A f \in FramesOf("listing")' : f.total = Len(docs) /\ f.docs = docs
      BY <2>1, <3>1, ThatListed
    <3> QED BY <3>2, <3>3, <3>4 DEF CountIsReal, Counting, RealNewest
  <2>3. CASE ListCounted
    <3> DEFINE docs == ListMatching(Matching(ask.question), 2 * recentLimit)
    <3>1. send(<<Lists(total, docs), Cites(<<>>), Done(FALSE, 0)>>)
      BY <1>4, <2>3 DEF ListCounted, GoOn
    <3>2. Counting /\ UNCHANGED <<ask, seen, changed>>
      BY <2>1, <2>3 DEF ListCounted, CountInv, request, library
    <3>3. RealCount(total, docs)
      BY <2>1, <2>3, MatchingListed DEF ListCounted
    <3> HIDE DEF docs
    <3>4. \A f \in FramesOf("listing")' : f.total = total /\ f.docs = docs
      BY <2>1, <3>1, ThatListed
    <3> QED BY <3>2, <3>3, <3>4 DEF CountIsReal, Counting, RealCount
  <2> QED BY <1>2, <1>4, <2>1, <2>2, <2>3, HowItEnds, NothingListed DEF Listing
<1> QED BY <1>1, <1>3, <1>4

\* Whatever the libraries, their documents and how many a listing shows, a total
\* is one the library had since it was asked for, and the list holds as many of
\* them as it may show (smalltalk.go, renderCount, renderRecent).
THEOREM CountIsRealCorrect == AskSpec => []CountIsReal
<1>1. AskInit => WordsOnly /\ CountIsReal
  <2>1. ToSet(<<>>) = {}
    BY DEF ToSet
  <2> QED BY <2>1 DEF AskInit, WordsOnly, CountIsReal, FramesOf
<1>2. AskInit => Listing
  BY <1>1, CountInitially, PaidInitially DEF Listing
<1> QED BY <1>2, ListingStep, PTL DEF AskSpec, Listing

-----------------------------------------------------------------------------
(* What a row keeps and what the reader sees are the same answer.          *)

\* While an answer comes, the reader who is still there has seen what was heard.
ToldInv ==
    /\ pc \notin {"answer", "failed"} => heard.text = <<>>
    /\ here /\ pc \notin {"done", "failed"} => frames = Said(heard.text)
    /\ \A r \in rows : r.text # <<>> /\ ~ isMiss(r.text)

Telling == CostInv /\ FrameInv /\ WordsOnly /\ ToldInv

LEMMA SaidOfNothing == Said(<<>>) = <<>>
BY DEF Said

LEMMA SaidOfAppend ==
    ASSUME NEW T, NEW text \in Seq(T), NEW t \in T
    PROVE  Said(Append(text, t)) = Said(text) \o <<Says(t)>>
<1> DEFINE more == Append(text, t)
           n == Len(text)
           said == Said(text)
           S == ToSet(said) \cup {Says(t)}
<1>1. /\ n \in Nat /\ DOMAIN text = 1..n /\ DOMAIN more = 1..n + 1 /\ more[n + 1] = t
      /\ \A i \in 1..n : more[i] = text[i]
  OBVIOUS
<1>2. said \in Seq(S) /\ Len(said) = n
  BY SaidIsList DEF IsList
<1>3. \A i \in 1..n : said[i] = Says(text[i])
  BY <1>1 DEF Said
<1>4. Says(t) \in S
  OBVIOUS
<1>5. Said(more) = [i \in 1..n + 1 |-> Says(more[i])]
  BY <1>1 DEF Said
<1> HIDE DEF more, said, S, n
<1>6. /\ DOMAIN (said \o <<Says(t)>>) = 1..n + 1
      /\ \A i \in 1..n : (said \o <<Says(t)>>)[i] = said[i]
      /\ (said \o <<Says(t)>>)[n + 1] = Says(t)
      /\ said \o <<Says(t)>> = [i \in 1..n + 1 |-> (said \o <<Says(t)>>)[i]]
  BY <1>1, <1>2, <1>4
<1>7. \A i \in 1..n + 1 : Says(more[i]) = (said \o <<Says(t)>>)[i]
  BY <1>1, <1>3, <1>6
<1> QED BY <1>5, <1>6, <1>7 DEF more, said

\* Where an answer and its sources were sent, the reader has just these.
LEMMA ShownOfReply ==
    ASSUME NEW T, NEW text \in Seq(T), NEW c, NEW cached, NEW tokens,
           frames' = Said(text) \o Closing(c, cached, tokens)
    PROVE  Shown' = text /\ FramesOf("citations")' = {Cites(c)}
<1> DEFINE said == Said(text)
           last == Closing(c, cached, tokens)
           S == ToSet(said) \cup ToSet(last)
           words == FramesOf("token")'
<1>1. said \in Seq(S) /\ \A f \in ToSet(said) : f.f = "token"
  BY SaidIsList DEF IsList
<1>2. last \in Seq(S) /\ ToSet(last) = {Cites(c), Done(cached, tokens)}
  BY ClosingIsList DEF IsList
<1>3. Cites(c).f = "citations" /\ Done(cached, tokens).f = "done"
  BY DEF Cites, Done
<1>s. \A i \in DOMAIN text : said[i].t = text[i]
  BY DEF Said, Says
<1>t. DOMAIN said = DOMAIN text /\ text = [i \in DOMAIN text |-> text[i]]
  BY DEF Said
<1>f. frames' = said \o last
  OBVIOUS
<1> HIDE DEF said, last, S
<1>4. ToSet(frames') = ToSet(said) \cup ToSet(last)
  BY <1>1, <1>2, <1>f, ToSetJoined
<1>5. ToSet(said) \subseteq words /\ ToSet(last) \cap words = {}
  BY <1>1, <1>2, <1>3, <1>4 DEF FramesOf
<1>6. FramesOf("citations")' = {Cites(c)}
  BY <1>1, <1>2, <1>3, <1>4 DEF FramesOf
<1> HIDE DEF words
<1>7. Only(said, words) = said /\ Only(last, words) = <<>>
  BY <1>1, <1>2, <1>5, OnlyAll, OnlyNone
<1>8. Only(frames', words) = said
  <2>1. Only(frames', words) = Only(said, words) \o Only(last, words)
    BY <1>1, <1>2, <1>f, OnlyJoined
  <2> QED BY <1>1, <1>7, <2>1
<1>9. Shown' = [i \in DOMAIN said |-> said[i].t]
  BY <1>8 DEF Shown, words
<1> QED BY <1>6, <1>9, <1>s, <1>t

\* Only the end of an answer moves the rows.
LEMMA OnlyAnswersAreKept == [AskNext]_askVars => UNCHANGED rows \/ Settle
<1> SUFFICES ASSUME [AskNext]_askVars PROVE UNCHANGED rows \/ Settle
  OBVIOUS
<1>1. CASE Receive \/ SmallTalk \/ Recent \/ Count \/ ListCounted \/ NotEarly
  BY <1>1 DEF Receive, SmallTalk, Recent, Count, ListCounted, NotEarly, cache
<1>2. CASE Rewritten \/ ReadSig \/ LookUp \/ Embed
  BY <1>2 DEF Rewritten, ReadSig, LookUp, Embed, cache
<1>3. CASE VectorCandidates \/ KeywordCandidates \/ Load \/ Fit \/ Supplement
  BY <1>3 DEF VectorCandidates, KeywordCandidates, Load, Fit, Supplement, cache
<1>4. CASE UsageFrame \/ TokenFrame \/ StreamEnds \/ Leave \/ Change
  BY <1>4 DEF UsageFrame, TokenFrame, StreamEnds, Leave, Change, cache
<1>5. CASE UNCHANGED askVars
  BY <1>5 DEF askVars
<1> QED BY <1>1, <1>2, <1>3, <1>4, <1>5 DEF AskNext

\* Nobody who left comes back.
LEMMA HereStep == [AskNext]_askVars /\ here' => here
<1> SUFFICES ASSUME [AskNext]_askVars PROVE UNCHANGED here \/ ~ here'
  OBVIOUS
<1>1. CASE Receive \/ SmallTalk \/ Recent \/ Count \/ ListCounted \/ NotEarly
  BY <1>1 DEF Receive, SmallTalk, Recent, Count, ListCounted, NotEarly, request
<1>2. CASE Rewritten \/ ReadSig \/ LookUp \/ Embed
  BY <1>2 DEF Rewritten, ReadSig, LookUp, Embed, request
<1>3. CASE VectorCandidates \/ KeywordCandidates \/ Load \/ Fit \/ Supplement
  BY <1>3 DEF VectorCandidates, KeywordCandidates, Load, Fit, Supplement, request
<1>4. CASE UsageFrame \/ TokenFrame \/ StreamEnds \/ Settle \/ Leave \/ Change
  BY <1>4 DEF UsageFrame, TokenFrame, StreamEnds, Settle, Leave, Change, request
<1>5. CASE UNCHANGED askVars
  BY <1>5 DEF askVars
<1> QED BY <1>1, <1>2, <1>3, <1>4, <1>5 DEF AskNext

\* What was heard grows by a word, or stays what it is until the question ends.
LEMMA HeardOnTheWay ==
    Telling /\ [AskNext]_askVars /\ pc' \notin {"done", "failed"}
        => heard.text' = heard.text \/ TokenFrame
<1> SUFFICES ASSUME Telling, [AskNext]_askVars, pc' \notin {"done", "failed"}
             PROVE  heard.text' = heard.text \/ TokenFrame
  OBVIOUS
<1>h. heard \in Heard
  BY DEF Telling, CostInv
<1>1. CASE Receive \/ SmallTalk \/ Recent \/ Count \/ ListCounted \/ NotEarly
  BY <1>1 DEF Receive, SmallTalk, Recent, Count, ListCounted, NotEarly
<1>2. CASE ReadSig \/ LookUp \/ Embed
  BY <1>2 DEF ReadSig, LookUp, Embed
<1>3. CASE VectorCandidates \/ KeywordCandidates \/ Load \/ Fit \/ Supplement
  BY <1>3 DEF VectorCandidates, KeywordCandidates, Load, Fit, Supplement
<1>4. CASE Leave \/ Change
  BY <1>4 DEF Leave, Change
<1>5. CASE Rewritten
  <2>1. heard.text = <<>>
    BY <1>5 DEF Rewritten, Telling, ToldInv
  <2> QED BY <1>5, <2>1 DEF Rewritten, NothingHeard
<1>6. CASE UsageFrame
  <2>1. heard' = [heard EXCEPT !.usage = 1]
    BY ONLY <1>6 DEF UsageFrame
  <2>2. heard' = [text |-> heard.text, usage |-> 1, end |-> heard.end]
    BY ONLY <2>1, <1>h, HeardParts
  <2> QED BY ONLY <2>2
<1>7. CASE StreamEnds
  <2>1. PICK end : heard' = [heard EXCEPT !.end = end]
    BY <1>7 DEF StreamEnds, Fail
  <2>2. heard' = [text |-> heard.text, usage |-> heard.usage, end |-> end]
    BY ONLY <2>1, <1>h, HeardParts
  <2> QED BY ONLY <2>2
<1>8. ~ Settle
  BY DEF Settle, Reply
<1>9. CASE UNCHANGED askVars
  BY <1>9 DEF askVars
<1> QED BY <1>1, <1>2, <1>3, <1>4, <1>5, <1>6, <1>7, <1>8, <1>9 DEF AskNext

\* The row an answer is kept in.
Row == [key |-> KeyOf(ask), sig |-> sig, text |-> heard.text, cites |-> Citations]

LEMMA WhatIsKept ==
    ASSUME Settle
    PROVE  \/ UNCHANGED rows
           \/ /\ heard.text # <<>> /\ ~ isMiss(heard.text)
              /\ Row \in rows' /\ rows' \subseteq rows \cup {Row}
BY DEF Settle, Store, Row

LEMMA RowParts ==
    /\ Row.key = KeyOf(ask) /\ Row.sig = sig /\ Row.text = heard.text /\ Row.cites = Citations
BY DEF Row

LEMMA ToldStep == Telling /\ [AskNext]_askVars => ToldInv'
<1> SUFFICES ASSUME Telling, [AskNext]_askVars PROVE ToldInv'
  OBVIOUS
<1>h. heard \in Heard /\ heard.text \in Seq(Token)
  BY HeardParts DEF Telling, CostInv
<1>c. CostInv'
  BY CostStep DEF Telling
<1>t. ASSUME TokenFrame
      PROVE  \E t \in Token : /\ send(<<Says(t)>>) /\ heard.text' = Append(heard.text, t)
                              /\ pc = "answer" /\ pc' = "answer" /\ here' = here
  <2>1. PICK t \in Token : send(<<Says(t)>>) /\ heard' = [heard EXCEPT !.text = Append(@, t)]
    BY ONLY <1>t DEF TokenFrame
  <2>2. heard' = [text |-> Append(heard.text, t), usage |-> heard.usage, end |-> heard.end]
    BY ONLY <2>1, <1>h, HeardParts
  <2>3. heard.text' = Append(heard.text, t)
    BY ONLY <2>2
  <2> QED BY <1>t, <2>1, <2>3 DEF TokenFrame, request
<1>1. ASSUME pc' \notin {"answer", "failed"} PROVE heard.text' = <<>>
  <2>1. CASE pc' # "rewrite"
    <3>1. NothingHeard.text = <<>>
      BY DEF NothingHeard
    <3>2. heard' = NothingHeard
      BY ONLY <1>1, <1>c, <2>1 DEF CostInv
    <3> QED BY ONLY <3>1, <3>2
  <2>2. CASE pc' = "rewrite"
    <3>1. heard.text' = heard.text
      BY <1>t, <2>2, HeardOnTheWay
    <3>2. pc \notin {"answer", "failed"}
      <4>1. pc # "failed"
        BY <2>2, EndedStays DEF Ended, askVars
      <4>2. ASSUME pc = "answer" PROVE FALSE
        <5>1. ~ (Receive \/ SmallTalk \/ Recent \/ Count \/ ListCounted \/ NotEarly)
          BY <4>2 DEF Receive, SmallTalk, Recent, Count, ListCounted, NotEarly
        <5>2. ~ (Rewritten \/ ReadSig \/ LookUp \/ Embed \/ Change)
          BY <4>2 DEF Rewritten, ReadSig, LookUp, Embed, Change
        <5>3. ~ (VectorCandidates \/ KeywordCandidates \/ Load \/ Fit \/ Supplement)
          BY <4>2 DEF VectorCandidates, KeywordCandidates, Load, Fit, Supplement
        <5>4. ~ (UsageFrame \/ TokenFrame \/ StreamEnds \/ Settle \/ Leave \/ UNCHANGED askVars)
          BY <2>2, <4>2 DEF UsageFrame, TokenFrame, StreamEnds, Settle, Leave, Reply, Fail, askVars
        <5> QED BY <5>1, <5>2, <5>3, <5>4 DEF AskNext
      <4> QED BY <4>1, <4>2
    <3> QED BY <3>1, <3>2 DEF Telling, ToldInv
  <2> QED BY <2>1, <2>2
<1>2. ASSUME here', pc' \notin {"done", "failed"} PROVE frames' = Said(heard.text')
  <2>1. pc \notin {"done", "failed"}
    BY <1>2, EndedStays DEF Ended, askVars
  <2>2. here
    BY <1>2, HereStep
  <2>3. frames = Said(heard.text)
    BY <2>1, <2>2 DEF Telling, ToldInv
  <2>4. CASE TokenFrame
    <3>1. PICK t \in Token : send(<<Says(t)>>) /\ heard.text' = Append(heard.text, t)
      BY <1>t, <2>4
    <3>2. frames' = Said(heard.text) \o <<Says(t)>>
      BY <2>2, <2>3, <3>1 DEF send
    <3> QED BY <1>h, <3>1, <3>2, SaidOfAppend
  <2>5. CASE ~ TokenFrame
    <3>1. frames' = frames /\ heard.text' = heard.text
      BY <1>2, <2>5, SentOnTheWay, HeardOnTheWay
    <3> QED BY <2>3, <3>1
  <2> QED BY <2>4, <2>5
<1>3. \A r \in rows' : r.text # <<>> /\ ~ isMiss(r.text)
  <2>1. \A r \in rows : r.text # <<>> /\ ~ isMiss(r.text)
    BY DEF Telling, ToldInv
  <2> QED BY <2>1, OnlyAnswersAreKept, WhatIsKept, RowParts
<1> QED BY <1>1, <1>2, <1>3 DEF ToldInv

LEMMA TellingStep == Telling /\ [AskNext]_askVars => Telling'
BY CostStep, FrameStep, WordsOnlyStep, ToldStep DEF Telling

LEMMA TellingInitially == AskInit => Telling
<1> SUFFICES ASSUME AskInit PROVE WordsOnly /\ ToldInv
  BY PaidInitially DEF Telling
<1>1. ToSet(<<>>) = {}
  BY DEF ToSet
<1>2. heard.text = <<>> /\ frames = <<>> /\ rows \in Earlier
  BY DEF AskInit, NothingHeard
<1> QED BY <1>1, <1>2, SaidOfNothing, EarlierAssumption DEF WordsOnly, ToldInv

\* What the reader who stayed has when the answer has ended.
SettledOn == IF isMiss(heard.text) THEN <<>> ELSE Citations

LEMMA SettledIsShown ==
    ASSUME Telling, Settle, here
    PROVE  Shown' = heard.text /\ FramesOf("citations")' = {Cites(SettledOn)}
<1>1. pc = "answer" /\ Reply(<<>>, SettledOn, FALSE, usage)
  BY DEF Settle, SettledOn
<1>2. heard.text \in Seq(Token) /\ frames = Said(heard.text)
  BY <1>1, HeardParts DEF Telling, CostInv, ToldInv
<1> DEFINE last == Closing(SettledOn, FALSE, usage)
<1>3. frames' = Said(heard.text) \o (Said(<<>>) \o last)
  BY <1>1, <1>2 DEF Reply, send, Said, Closing
<1>4. last \in Seq(ToSet(last))
  BY ClosingIsList DEF IsList
<1> HIDE DEF last
<1>5. <<>> \o last = last
  BY <1>4
<1>6. frames' = Said(heard.text) \o last
  BY <1>3, <1>5, SaidOfNothing
<1> QED BY <1>2, <1>6, ShownOfReply DEF last

LEMMA ServedIsShown ==
    ASSUME Telling, LookUp, pc' = "done", here
    PROVE  \E r \in rows : /\ r.key = KeyOf(ask) /\ r.sig = sig
                           /\ Shown' = r.text /\ FramesOf("citations")' = {Cites(r.cites)}
<1>1. PICK r \in rows : r.key = KeyOf(ask) /\ r.sig = sig /\ Reply(r.text, r.cites, TRUE, 0)
  BY DEF LookUp
<1>2. r.text \in Seq(Token) /\ frames = <<>>
  BY SaidOfNothing DEF LookUp, Telling, FrameInv, ToldInv
<1> DEFINE all == Said(r.text) \o Closing(r.cites, TRUE, 0)
<1>3. frames' = frames \o all
  BY <1>1 DEF Reply, send, Said, Closing
<1>4. IsList(all)
  BY <1>2, SaidIsList, ClosingIsList, ListsJoined
<1>5. frames' = all
  <2> HIDE DEF all
  <2>1. all \in Seq(ToSet(all))
    BY <1>4 DEF IsList
  <2> QED BY <1>2, <1>3, <2>1
<1>6. Shown' = r.text /\ FramesOf("citations")' = {Cites(r.cites)}
  BY ONLY <1>2, <1>5, ShownOfReply
<1> QED BY ONLY <1>1, <1>6

\* For any earlier rows, streams and readers, the answer a row is kept with or
\* served from is the one shown, with the same sources, and is neither empty
\* nor a miss (rag.go, Answer).
THEOREM ReplayIsTheSameCorrect == AskSpec => ReplayIsTheSame
<1>1. ASSUME Telling, [AskNext]_askVars, here, rows' # rows
      PROVE  /\ Row \in rows' /\ Row.key = KeyOf(ask) /\ Row.sig = sig
             /\ Shown' = Row.text /\ Row.text # <<>> /\ ~ isMiss(Row.text)
             /\ FramesOf("citations")' = {Cites(Row.cites)}
  <2>1. Settle /\ heard.text # <<>> /\ ~ isMiss(heard.text) /\ Row \in rows'
    BY <1>1, OnlyAnswersAreKept, WhatIsKept
  <2>2. Shown' = heard.text /\ FramesOf("citations")' = {Cites(Citations)}
    BY <1>1, <2>1, SettledIsShown DEF SettledOn
  <2> QED BY <2>1, <2>2, RowParts
<1>2. ASSUME Telling, [AskNext]_askVars, here, pc = "lookup", pc' = "done", rows' = rows
      PROVE  \E r \in rows' :
                 /\ r.key = KeyOf(ask) /\ r.sig = sig
                 /\ Shown' = r.text /\ r.text # <<>> /\ ~ isMiss(r.text)
                 /\ FramesOf("citations")' = {Cites(r.cites)}
  <2>1. LookUp
    <3>1. ~ (Receive \/ SmallTalk \/ Recent \/ Count \/ ListCounted \/ NotEarly \/ UsageFrame)
      BY <1>2 DEF Receive, SmallTalk, Recent, Count, ListCounted, NotEarly, UsageFrame
    <3>2. ~ (Rewritten \/ ReadSig \/ Embed \/ VectorCandidates \/ KeywordCandidates \/ Load)
      BY <1>2 DEF Rewritten, ReadSig, Embed, VectorCandidates, KeywordCandidates, Load
    <3>3. ~ (Fit \/ Supplement \/ TokenFrame \/ StreamEnds \/ Settle)
      BY <1>2 DEF Fit, Supplement, TokenFrame, StreamEnds, Settle
    <3>4. ~ (Leave \/ Change \/ UNCHANGED askVars)
      BY <1>2 DEF Leave, Change, askVars
    <3> QED BY <1>2, <3>1, <3>2, <3>3, <3>4 DEF AskNext
  <2>2. PICK r \in rows : /\ r.key = KeyOf(ask) /\ r.sig = sig
                          /\ Shown' = r.text /\ FramesOf("citations")' = {Cites(r.cites)}
    BY <1>2, <2>1, ServedIsShown
  <2>3. r.text # <<>> /\ ~ isMiss(r.text)
    BY <1>2 DEF Telling, ToldInv
  <2> QED BY <1>2, <2>2, <2>3
<1>3. Telling /\ [AskNext]_askVars =>
          [(rows' # rows \/ (pc = "lookup" /\ pc' = "done")) /\ here =>
              \E r \in rows' :
                  /\ r.key = KeyOf(ask) /\ r.sig = sig
                  /\ Shown' = r.text /\ r.text # <<>> /\ ~ isMiss(r.text)
                  /\ FramesOf("citations")' = {Cites(r.cites)}]_askVars
  BY <1>1, <1>2
<1> QED BY <1>3, TellingInitially, TellingStep, PTL DEF AskSpec, ReplayIsTheSame

-----------------------------------------------------------------------------
(* The sources of an answer are those it used.                             *)

\* These are the sources this text may be shown with.
SourcesOf(text) == referenced(DocCites, text) \o referencedWeb(WebCites, text)
Sourced(text, of) ==
    LET docs == {c \in ToSet(of) : "of" \in DOMAIN c}
    IN IF isMiss(text) THEN of = <<>>
       ELSE /\ docs # {} /\ docs \subseteq ToSet(DocCites)
            /\ \A n \in Markers(citeMarker, text) \cap DOMAIN context : DocCites[n] \in docs
            /\ {c.n : c \in ToSet(of) \ docs} \subseteq Markers(webCiteMarker, text)

LEMMA DocSources ==
    ASSUME NEW T, context \in Seq(T), context # <<>>, NEW text
    PROVE  LET docs == referenced(DocCites, text)
           IN /\ docs \in Seq(ToSet(DocCites)) /\ ToSet(docs) # {}
              /\ \A c \in ToSet(docs) : "of" \in DOMAIN c
              /\ \A n \in Markers(citeMarker, text) \cap DOMAIN context : DocCites[n] \in ToSet(docs)
<1> DEFINE used == Markers(citeMarker, text)
           all == DocCites
           A == ToSet(all)
           kept == Only(all, {c \in A : c.n \in used})
           n == Len(context)
<1>1. n \in Nat \ {0} /\ DOMAIN context = 1..n /\ DOMAIN all = 1..n
  BY DEF DocCites
<1>2. \A i \in 1..n : all[i].n = i /\ "of" \in DOMAIN all[i] /\ all[i] \in A
  BY <1>1 DEF DocCites, ToSet
<1>3. \A c \in A : "of" \in DOMAIN c
  BY <1>1, <1>2 DEF ToSet
<1>4. all \in Seq(A) /\ A # {}
  <2>1. all \in [1..n -> A]
    BY <1>1, <1>2 DEF DocCites
  <2> QED BY <1>1, <1>2, <2>1
<1>r. referenced(DocCites, text) = IF kept = <<>> THEN all ELSE kept
  BY DEF referenced
<1> HIDE DEF used, all, A
<1>5. kept \in Seq(A) /\ ToSet(kept) = {c \in A : c.n \in used}
  <2>1. kept \in Seq(A) /\ ToSet(kept) = ToSet(all) \cap {c \in A : c.n \in used}
    BY <1>4, OnlyType
  <2> QED BY <2>1 DEF A
<1> HIDE DEF kept
<1>6. CASE kept = <<>>
  <2>1. A = ToSet(all)
    BY DEF A
  <2> QED BY <1>1, <1>2, <1>3, <1>4, <1>r, <1>6, <2>1 DEF all, used, A
<1>7. CASE kept # <<>>
  <2>1. ToSet(kept) # {}
    <3>1. Len(kept) \in Nat \ {0} /\ DOMAIN kept = 1..Len(kept)
      BY <1>5, <1>7
    <3>2. 1 \in DOMAIN kept
      BY <3>1
    <3> QED BY <3>2 DEF ToSet
  <2>2. \A m \in used \cap (1..n) : all[m] \in ToSet(kept)
    BY <1>2, <1>5
  <2>3. \A c \in ToSet(kept) : "of" \in DOMAIN c
    BY <1>3, <1>5
  <2> QED BY <1>1, <1>5, <1>7, <1>r, <2>1, <2>2, <2>3 DEF all, used, A
<1> QED BY <1>6, <1>7

LEMMA WebSources ==
    ASSUME web \in Nat, NEW text
    PROVE  LET some == referencedWeb(WebCites, text)
           IN /\ some \in Seq(ToSet(WebCites))
              /\ \A c \in ToSet(some) :
                     "of" \notin DOMAIN c /\ c.n \in Markers(webCiteMarker, text)
<1> DEFINE used == Markers(webCiteMarker, text)
           all == WebCites
           A == ToSet(all)
           some == Only(all, {c \in A : c.n \in used})
<1>1. DOMAIN all = 1..web /\ \A i \in 1..web : "of" \notin DOMAIN all[i] /\ all[i] \in A
  BY DEF WebCites, ToSet
<1>2. \A c \in A : "of" \notin DOMAIN c
  BY <1>1 DEF ToSet
<1>3. all \in Seq(A)
  <2>1. all \in [1..web -> A]
    BY <1>1 DEF WebCites
  <2> QED BY <2>1
<1>4. referencedWeb(WebCites, text) = some
  BY DEF referencedWeb
<1> HIDE DEF used, all, A
<1>5. some \in Seq(A) /\ ToSet(some) = ToSet(all) \cap {c \in A : c.n \in used}
  BY <1>3, OnlyType
<1> HIDE DEF some
<1> QED BY <1>2, <1>4, <1>5 DEF used, A, all

LEMMA SourcesAreSourced ==
    ASSUME NEW T, context \in Seq(T), context # <<>>, web \in Nat, NEW text
    PROVE  Sourced(text, IF isMiss(text) THEN <<>> ELSE SourcesOf(text))
<1>1. CASE isMiss(text)
  BY <1>1 DEF Sourced
<1>2. CASE ~ isMiss(text)
  <2> DEFINE a == referenced(DocCites, text)
             b == referencedWeb(WebCites, text)
             D == ToSet(DocCites)
             W == ToSet(WebCites)
  <2>1. /\ a \in Seq(D) /\ ToSet(a) # {} /\ \A c \in ToSet(a) : "of" \in DOMAIN c
        /\ \A n \in Markers(citeMarker, text) \cap DOMAIN context : DocCites[n] \in ToSet(a)
    BY DocSources
  <2>2. /\ b \in Seq(W)
        /\ \A c \in ToSet(b) : "of" \notin DOMAIN c /\ c.n \in Markers(webCiteMarker, text)
    BY WebSources
  <2>3. SourcesOf(text) = a \o b
    BY DEF SourcesOf
  <2>d. D = ToSet(DocCites)
    OBVIOUS
  <2> HIDE DEF a, b, D, W
  <2>4. a \in Seq(D \cup W) /\ b \in Seq(D \cup W)
    BY <2>1, <2>2
  <2>5. ToSet(SourcesOf(text)) = ToSet(a) \cup ToSet(b)
    BY <2>3, <2>4, ToSetJoined
  <2>6. {c \in ToSet(SourcesOf(text)) : "of" \in DOMAIN c} = ToSet(a)
    BY <2>1, <2>2, <2>5
  <2>7. ToSet(a) \subseteq ToSet(DocCites)
    BY <2>1, <2>d DEF ToSet
  <2>8. {c.n : c \in ToSet(SourcesOf(text)) \ ToSet(a)} \subseteq Markers(webCiteMarker, text)
    BY <2>2, <2>5
  <2> QED BY ONLY <1>2, <2>1, <2>6, <2>7, <2>8 DEF Sourced
<1> QED BY <1>1, <1>2

SourceInv ==
    /\ context \in Seq(SectionType) /\ web \in Nat
    /\ context # <<>> => pc \in {"web", "answer", "done", "failed"}
    /\ SourcesAreTheUsed

Sourcing == Telling /\ FitInv /\ SourceInv

\* An answer that has sections ends when its stream is settled.
LEMMA SettledAtLast ==
    SourceInv /\ [AskNext]_askVars /\ pc \notin Ended /\ pc' = "done" /\ context' # <<>> => Settle
<1> SUFFICES ASSUME SourceInv, [AskNext]_askVars, pc \notin Ended, pc' = "done", context' # <<>>
             PROVE  Settle
  OBVIOUS
<1>1. ~ (Receive \/ SmallTalk \/ Recent \/ Count \/ ListCounted \/ NotEarly \/ UsageFrame)
  BY DEF Receive, SmallTalk, Recent, Count, ListCounted, NotEarly, GoOn, UsageFrame, SourceInv,
     search, Ended
<1>2. ~ (Rewritten \/ ReadSig \/ LookUp \/ Embed)
  BY DEF Rewritten, ReadSig, LookUp, Embed, Fail, SourceInv, search
<1>3. ~ (VectorCandidates \/ KeywordCandidates \/ Load \/ Fit \/ Supplement)
  BY DEF VectorCandidates, KeywordCandidates, Load, Fit, Fail, Supplement
<1>4. ~ (TokenFrame \/ StreamEnds \/ Leave \/ Change \/ UNCHANGED askVars)
  BY DEF TokenFrame, StreamEnds, Fail, Leave, Change, askVars, Ended
<1> QED BY <1>1, <1>2, <1>3, <1>4 DEF AskNext

LEMMA SourceStep == Sourcing /\ [AskNext]_askVars => SourceInv'
<1> SUFFICES ASSUME Sourcing, [AskNext]_askVars PROVE SourceInv'
  OBVIOUS
<1>i. SourceInv /\ FitInv /\ Telling
  BY DEF Sourcing
<1>1. context' \in Seq(SectionType)
  BY <1>i, ContextIsFitted, FittedIsHits DEF SourceInv
<1>2. web' \in Nat
  <2>1. CASE Receive \/ SmallTalk \/ Recent \/ Count \/ ListCounted \/ NotEarly
    BY <1>i, <2>1 DEF SourceInv, Receive, SmallTalk, Recent, Count, ListCounted, NotEarly
  <2>2. CASE Rewritten \/ ReadSig \/ LookUp \/ Embed
    BY <1>i, <2>2 DEF SourceInv, Rewritten, ReadSig, LookUp, Embed
  <2>3. CASE VectorCandidates \/ KeywordCandidates \/ Load \/ Fit \/ Supplement
    <3>1. \A w \in 0..1 : w \in Nat
      OBVIOUS
    <3>2. web' = web \/ web' \in 0..1
      BY ONLY <2>3 DEF VectorCandidates, KeywordCandidates, Load, Fit, Supplement
    <3> QED BY ONLY <1>i, <3>1, <3>2 DEF SourceInv
  <2>4. CASE UsageFrame \/ TokenFrame \/ StreamEnds \/ Settle \/ Leave \/ Change
    BY <1>i, <2>4 DEF SourceInv, UsageFrame, TokenFrame, StreamEnds, Settle, Leave, Change
  <2>5. CASE UNCHANGED askVars
    BY <1>i, <2>5 DEF SourceInv, askVars
  <2> QED BY <2>1, <2>2, <2>3, <2>4, <2>5 DEF AskNext
<1>3. ASSUME context' # <<>> PROVE pc' \in {"web", "answer", "done", "failed"}
  <2>1. ~ (Receive \/ SmallTalk \/ Recent \/ Count \/ ListCounted \/ NotEarly)
    BY <1>i, <1>3 DEF SourceInv, Receive, SmallTalk, Recent, Count, ListCounted, NotEarly, search
  <2>2. ~ (Rewritten \/ ReadSig \/ LookUp \/ Embed)
    BY <1>i, <1>3 DEF SourceInv, Rewritten, ReadSig, LookUp, Embed, search
  <2>3. CASE VectorCandidates \/ KeywordCandidates \/ Load \/ Fit \/ Supplement
    BY <1>i, <1>3, <2>3
       DEF SourceInv, VectorCandidates, KeywordCandidates, Load, Fit, Fail, Supplement
  <2>4. CASE UsageFrame \/ TokenFrame \/ StreamEnds \/ Settle \/ Leave \/ Change
    BY <1>i, <1>3, <2>4
       DEF SourceInv, UsageFrame, TokenFrame, StreamEnds, Fail, Settle, Reply, Leave, Change, search
  <2>5. CASE UNCHANGED askVars
    BY <1>i, <1>3, <2>5 DEF SourceInv, askVars
  <2> QED BY <2>1, <2>2, <2>3, <2>4, <2>5 DEF AskNext
<1>4. SourcesAreTheUsed'
  <2>1. CASE pc \in Ended
    <3>1. UNCHANGED <<pc, context, web, frames>> /\ SourcesAreTheUsed
      BY <1>i, <2>1, EndedStays DEF askVars, SourceInv
    <3> QED BY <3>1 DEF SourcesAreTheUsed, FramesOf, Shown, DocCites
  <2>2. CASE pc \notin Ended /\ pc' = "done" /\ context' # <<>>
    <3>1. Settle
      BY <1>i, <2>2, SettledAtLast
    <3>2. pc = "answer" /\ UNCHANGED <<context, web>> /\ context # <<>>
      BY <2>2, <3>1 DEF Settle, search
    <3>3. CASE here
      <4> DEFINE text == heard.text
                 of == IF isMiss(text) THEN <<>> ELSE SourcesOf(text)
      <4>1. Shown' = text /\ FramesOf("citations")' = {Cites(of)}
        BY <1>i, <3>1, <3>3, SettledIsShown DEF SettledOn, Citations, SourcesOf
      <4>2. Sourced(text, of)
        BY <1>i, <3>2, SourcesAreSourced DEF SourceInv
      <4>3. Cites(of).of = of
        BY DEF Cites
      <4>4. DocCites' = DocCites
        BY <3>2 DEF DocCites
      <4> HIDE DEF text, of
      <4> QED BY ONLY <3>2, <4>1, <4>2, <4>3, <4>4 DEF SourcesAreTheUsed, Sourced
    <3>4. CASE ~ here
      <4>1. frames' = frames
        BY <3>1, <3>4 DEF Settle, Reply, send
      <4>2. FramesOf("citations")' = {}
        BY <1>i, <3>2, <4>1 DEF Telling, WordsOnly, FramesOf
      <4> QED BY <4>2 DEF SourcesAreTheUsed
    <3> QED BY <3>3, <3>4
  <2>3. CASE ~ (pc' = "done" /\ context' # <<>>)
    BY <2>3 DEF SourcesAreTheUsed
  <2> QED BY <2>1, <2>2, <2>3
<1> QED BY <1>1, <1>2, <1>3, <1>4 DEF SourceInv

\* Whatever the sections, the public results and the words of the answer, what
\* it is shown with is what it used (rag.go, referenced, referencedWeb, isMiss).
THEOREM SourcesAreTheUsedCorrect == AskSpec => []SourcesAreTheUsed
<1>1. AskInit => SourceInv
  BY DEF AskInit, SourceInv, SourcesAreTheUsed
<1>2. AskInit => Sourcing
  BY <1>1, TellingInitially, FitInitially DEF Sourcing
<1>3. Sourcing /\ [AskNext]_askVars => Sourcing'
  BY TellingStep, FitStep, SourceStep DEF Sourcing
<1> QED BY <1>2, <1>3, PTL DEF AskSpec, Sourcing, SourceInv

-----------------------------------------------------------------------------
(* Only the worse are dropped.                                             *)

\* Of places in their order, those with fewer than m before them are the first m.
LEMMA CountedOff ==
    ASSUME NEW L \in Nat, NEW P \in SUBSET (1..L), NEW m \in Nat \ {0}, NEW i \in P,
           ~ (Cardinality(P \cap (1..i - 1)) < m)
    PROVE  LET V == {j \in P : Cardinality(P \cap (1..j - 1)) < m}
           IN Cardinality(V) = m /\ \A j \in V : j < i
<1> DEFINE c(n) == Cardinality(P \cap (1..n))
           V == {j \in P : c(j - 1) < m}
           T == {n \in Nat : c(n) < m \/ \E e \in 1..n : c(e) = m /\ c(e - 1) < m}
<1>1. \A n \in Int : IsFiniteSet(P \cap (1..n)) /\ c(n) \in Nat
  <2> TAKE n \in Int
  <2>1. IsFiniteSet(1..L) /\ P \cap (1..n) \in SUBSET (1..L)
    BY FS_Interval
  <2>2. IsFiniteSet(P \cap (1..n))
    BY ONLY <2>1, FS_Subset
  <2> QED BY ONLY <2>2, FS_CardinalityType
<1>2. \A a, b \in Int : a <= b => c(a) <= c(b)
  <2> TAKE a, b \in Int
  <2> HAVE a <= b
  <2>1. P \cap (1..a) \in SUBSET (P \cap (1..b))
    OBVIOUS
  <2> QED BY ONLY <1>1, <2>1, FS_Subset
<1>3. \A n \in Nat : c(n + 1) <= c(n) + 1
  <2> TAKE n \in Nat
  <2> DEFINE Q == P \cap (1..n)
             x == n + 1
  <2>1. IsFiniteSet(Q) /\ Cardinality(Q) \in Nat
    BY <1>1
  <2>2. P \cap (1..x) = Q \cup {x} \/ P \cap (1..x) = Q
    OBVIOUS
  <2> HIDE DEF Q, x
  <2>3. Cardinality(Q \cup {x}) <= Cardinality(Q) + 1
    <3>1. Cardinality(Q \cup {x}) = Cardinality(Q) \/ Cardinality(Q \cup {x}) = Cardinality(Q) + 1
      BY ONLY <2>1, FS_AddElement
    <3> QED BY ONLY <2>1, <3>1
  <2>4. Cardinality(P \cap (1..x)) <= Cardinality(Q) + 1
    <3>1. Cardinality(Q) <= Cardinality(Q) + 1
      BY ONLY <2>1
    <3>2. CASE P \cap (1..x) = Q \cup {x}
      BY ONLY <2>3, <3>2
    <3>3. CASE P \cap (1..x) = Q
      BY ONLY <3>1, <3>3
    <3> QED BY ONLY <2>2, <3>2, <3>3
  <2> QED BY ONLY <2>4 DEF Q, x
<1>4. 0 \in T
  <2>1. P \cap (1..0) = {}
    OBVIOUS
  <2>2. c(0) = 0
    BY <2>1, FS_EmptySet
  <2> QED BY <2>2
<1>i. i \in 1..L
  OBVIOUS
<1>c. ~ (c(i - 1) < m)
  OBVIOUS
<1> HIDE DEF c
<1>5. ASSUME NEW n \in Nat, n \in T PROVE n + 1 \in T
  <2>1. CASE c(n) < m
    <3>n. n \in Int /\ n + 1 \in Int
      OBVIOUS
    <3>1. c(n) \in Nat /\ c(n + 1) \in Nat /\ c(n + 1) <= c(n) + 1
      BY ONLY <1>1, <1>3, <3>n, n \in Nat
    <3>2. c(n + 1) < m \/ c(n + 1) = m
      BY ONLY <2>1, <3>1, m \in Nat \ {0}
    <3>3. n + 1 \in 1..n + 1 /\ (n + 1) - 1 = n
      OBVIOUS
    <3> QED BY ONLY <2>1, <3>2, <3>3, n \in Nat DEF T
  <2>2. CASE \E e \in 1..n : c(e) = m /\ c(e - 1) < m
    <3>1. \A e \in 1..n : e \in 1..n + 1
      OBVIOUS
    <3> QED BY ONLY <2>2, <3>1, n \in Nat DEF T
  <2> QED BY ONLY <1>5, <2>1, <2>2 DEF T
<1> HIDE DEF T
<1>6. \A n \in Nat : n \in T
  BY <1>4, <1>5, SetInduction
<1>7. PICK e \in 1..i - 1 : c(e) = m /\ c(e - 1) < m
  <2>1. i - 1 \in Nat
    BY <1>i
  <2>2. i - 1 \in T
    BY <1>6, <2>1
  <2> QED BY <1>c, <2>2 DEF T
<1>8. V = P \cap (1..e)
  <2>1. ASSUME NEW j \in P, j <= e PROVE c(j - 1) < m
    <3>1. j - 1 \in Int /\ e - 1 \in Int /\ j - 1 <= e - 1
      BY <1>7, <2>1
    <3>2. c(j - 1) <= c(e - 1) /\ c(j - 1) \in Nat /\ c(e - 1) \in Nat
      BY <1>1, <1>2, <3>1
    <3> QED BY <1>7, <3>2
  <2>2. ASSUME NEW j \in P, j > e PROVE ~ (c(j - 1) < m)
    <3>1. j - 1 \in Int /\ e \in Int /\ e <= j - 1
      BY <1>7, <2>2
    <3>2. c(e) <= c(j - 1) /\ c(j - 1) \in Nat
      BY <1>1, <1>2, <3>1
    <3> QED BY <1>7, <3>2
  <2>3. \A j \in P : j \in 1..e <=> j <= e
    OBVIOUS
  <2>4. \A j \in P : j <= e \/ j > e
    BY <1>7
  <2> QED BY <2>1, <2>2, <2>3, <2>4
<1>9. Cardinality(V) = m
  BY <1>7, <1>8 DEF c
<1>10. \A j \in V : j < i
  BY <1>7, <1>8, <1>i
<1> QED BY <1>9, <1>10 DEF c

\* An order of chunks has each of them once.
LEMMA OrderHasAll ==
    ASSUME NEW S, IsFiniteSet(S), NEW t \in SetToSeqs(S)
    PROVE  /\ Cardinality(S) \in Nat /\ t \in [1..Cardinality(S) -> S]
           /\ IsInjective(t) /\ \A x \in S : \E i \in 1..Cardinality(S) : t[i] = x
<1> DEFINE n == Cardinality(S)
<1>1. n \in Nat /\ t \in [1..n -> S] /\ \A i, j \in 1..n : i # j => t[i] # t[j]
  BY FS_CardinalityType DEF SetToSeqs
<1> HIDE DEF n
<1>2. IsInjective(t) /\ t \in Injection(1..n, S)
  BY <1>1 DEF IsInjective, Injection
<1>3. IsFiniteSet(1..n) /\ Cardinality(1..n) = n
  BY <1>1, FS_Interval
<1>4. t \in Surjection(1..n, S)
  BY <1>2, <1>3, FS_Injection DEF n
<1> QED BY <1>1, <1>2, <1>4 DEF Surjection, n

PassesEach(walk, n, U) ==
    /\ n \in Nat /\ walk \in [1..n -> U]
    /\ \A i, j \in 1..n : i < j => walk[i] < walk[j]
    /\ \A x \in U : \E i \in 1..n : walk[i] = x

\* A walk through places in their order passes each of them.
LEMMA WalkHasAll ==
    ASSUME NEW L \in Nat, NEW U \in SUBSET (1..L), NEW walk \in InOrder(U)
    PROVE  PassesEach(walk, Cardinality(U), U)
<1> DEFINE n == Cardinality(U)
<1>1. IsFiniteSet(U) /\ n \in Nat
  <2>1. IsFiniteSet(1..L)
    BY FS_Interval
  <2> QED BY ONLY <2>1, U \in SUBSET (1..L), FS_Subset, FS_CardinalityType
<1>2. walk \in [1..n -> U] /\ \A i, j \in 1..n : i < j => walk[i] < walk[j]
  BY DEF InOrder
<1> HIDE DEF n
<1>3. \A i, j \in 1..n : i # j => walk[i] # walk[j]
  <2> TAKE i, j \in 1..n
  <2>0. \A x \in U : x \in Int
    OBVIOUS
  <2>1. walk[i] \in Int /\ walk[j] \in Int
    BY ONLY <1>2, <2>0, i \in 1..n, j \in 1..n
  <2> QED BY <1>2, <2>1
<1>4. walk \in SetToSeqs(U)
  BY <1>2, <1>3 DEF SetToSeqs, n
<1>5. \A x \in U : \E i \in 1..n : walk[i] = x
  BY <1>1, <1>4, OrderHasAll DEF n
<1>6. PassesEach(walk, n, U)
  BY ONLY <1>1, <1>2, <1>5 DEF PassesEach
<1> QED BY <1>6 DEF n

\* As many are taken from an injective list as there are places.
LEMMA TakenAre ==
    ASSUME NEW L \in Nat, NEW t, DOMAIN t = 1..L, IsInjective(t), NEW V \in SUBSET (1..L)
    PROVE  Cardinality({t[j] : j \in V}) = Cardinality(V)
<1> DEFINE W == {t[j] : j \in V}
           f == [j \in V |-> t[j]]
<1>1. IsFiniteSet(V)
  <2>1. IsFiniteSet(1..L)
    BY FS_Interval
  <2> QED BY ONLY <2>1, V \in SUBSET (1..L), FS_Subset
<1>2. f \in Surjection(V, W) /\ f \in Injection(V, W)
  BY DEF Surjection, Injection, IsInjective
<1> HIDE DEF f, W
<1>3. ExistsBijection(V, W)
  BY <1>2 DEF ExistsBijection, Bijection
<1> QED BY <1>1, <1>3, FS_Bijection DEF W

\* What a load leaves out, it leaves out for better ones.
Better(near1, matching1, h, c) ==
    {x \in ToSet(h) : ~ Below(Score(near1, matching1, x), Score(near1, matching1, c))}

LEMMA DroppedForBetter ==
    ASSUME NEW near1, NEW matching1, NEW there, NEW n \in Nat, NEW found \in SUBSET Chunk,
           found = (ToSet(near1) \cup ToSet(matching1)) \cap there,
           NEW h \in loadHits(near1, matching1, there, n), NEW c \in found \ ToSet(h)
    PROVE  \/ Len(h) = n /\ Better(near1, matching1, h, c) = ToSet(h)
           \/ /\ Cardinality(DocsOf(found)) > 1
              /\ Cardinality({x \in Better(near1, matching1, h, c) : x[1] = c[1]}) = maxPerDoc
<1> DEFINE Worse(x) == Below(Score(near1, matching1, x), Score(near1, matching1, c))
           N == Cardinality(found)
           U(t) == Uncrowded(t)
<1>1. PICK t \in Sorted(found, near1, matching1) : \E s \in capPerDoc(t) : h = FirstOf(s, n)
  BY DEF loadHits
<1>2. PICK s \in capPerDoc(t) : h = FirstOf(s, n)
  BY <1>1
<1>3. IsFiniteSet(found)
  BY FiniteAssumption, FS_Subset
<1>4. /\ N \in Nat /\ t \in [1..N -> found] /\ IsInjective(t)
      /\ \A x \in found : \E i \in 1..N : t[i] = x
  <2>1. t \in SetToSeqs(found)
    BY <1>1 DEF Sorted
  <2> QED BY ONLY <1>3, <2>1, OrderHasAll
<1>5. ToSet(t) = found
  <2> HIDE DEF N
  <2>1. DOMAIN t = 1..N /\ \A q \in 1..N : t[q] \in found
    BY ONLY <1>4
  <2>2. \A x \in found : \E q \in 1..N : t[q] = x
    BY ONLY <1>4
  <2> QED BY ONLY <2>1, <2>2 DEF ToSet
<1>6. PICK i \in 1..N : t[i] = c
  BY <1>4
<1>7. \A j \in 1..N : j < i => ~ Worse(t[j])
  BY <1>1, <1>4, <1>6 DEF Sorted
<1> DEFINE m == IF Len(s) < n THEN Len(s) ELSE n
\* Where the list was cut, all it holds came before what was cut off.
<1>8. ASSUME Len(s) \in Nat, DOMAIN s = 1..Len(s),
             NEW p \in 1..Len(s), p > m, \A q \in 1..Len(s) : q < p => ~ Worse(s[q]),
             s \in Seq(found)
      PROVE  Len(h) = n /\ Better(near1, matching1, h, c) = ToSet(h)
  <2>0. Len(s) \in Nat /\ p \in 1..Len(s) /\ p > m /\ s \in Seq(found) /\ n \in Nat
    BY ONLY <1>8, n \in Nat
  <2>1. m = n /\ n <= Len(s) /\ \A q \in 1..n : q \in 1..Len(s) /\ q < p
    BY ONLY <2>0
  <2>2. h = SubSeq(s, 1, n)
    BY <1>2, <2>1 DEF FirstOf
  <2>3. Len(h) = n /\ DOMAIN h = 1..n /\ \A q \in 1..n : h[q] = s[q]
    BY ONLY <2>0, <2>1, <2>2
  <2>4. \A q \in 1..n : ~ Worse(h[q])
    BY <1>8, <2>1, <2>3
  <2>5. \A x \in ToSet(h) : ~ Worse(x)
    BY <2>3, <2>4 DEF ToSet
  <2> QED BY <2>3, <2>5 DEF Better
\* What is within the cut was kept.
<1>9. ASSUME s \in Seq(found), NEW p \in 1..m PROVE s[p] \in ToSet(h)
  <2>1. Len(s) \in Nat /\ m \in Nat /\ m <= Len(s)
    BY <1>9
  <2> HIDE DEF m
  <2>2. h = SubSeq(s, 1, m)
    BY <1>2 DEF FirstOf, m
  <2>3. DOMAIN h = 1..m /\ h[p] = s[p]
    BY <1>9, <2>1, <2>2
  <2> QED BY <1>9, <2>3 DEF ToSet
<1>10. CASE Cardinality(DocsOf(found)) < 2
  <2>1. s = t
    BY <1>2, <1>5, <1>10 DEF capPerDoc
  <2>2. s \in Seq(found) /\ Len(s) = N /\ DOMAIN s = 1..N
    <3> HIDE DEF N
    <3> QED BY ONLY <1>4, <2>1
  <2>3. i > m
    <3>1. i \notin 1..m
      BY <1>6, <1>9, <2>1, <2>2
    <3>2. i \in Int /\ i >= 1 /\ m \in Int
      <4> HIDE DEF N
      <4> QED BY ONLY <1>4, <1>6, <2>2, n \in Nat
    <3> HIDE DEF m
    <3> QED BY ONLY <3>1, <3>2
  <2> HIDE DEF m, N, Worse
  <2> QED BY <1>4, <1>6, <1>7, <1>8, <2>1, <2>2, <2>3
<1>11. CASE ~ (Cardinality(DocsOf(found)) < 2)
  <2>1. Cardinality(DocsOf(found)) > 1
    <3> DEFINE f == [x \in found |-> x[1]]
    <3>1. f \in Surjection(found, DocsOf(found))
      BY DEF Surjection, DocsOf
    <3> HIDE DEF f
    <3>2. IsFiniteSet(DocsOf(found))
      BY <1>3, <3>1, FS_Surjection
    <3>3. Cardinality(DocsOf(found)) \in Nat
      BY <3>2, FS_CardinalityType
    <3> QED BY <1>11, <3>3
  <2>2. PICK walk \in InOrder(Uncrowded(t)) : s = [q \in DOMAIN walk |-> t[walk[q]]]
    BY <1>2, <1>5, <1>11 DEF capPerDoc
  <2> DEFINE W == Uncrowded(t)
             M == Cardinality(W)
  <2>3. W \in SUBSET (1..N) /\ DOMAIN t = 1..N
    BY <1>4 DEF Uncrowded
  <2>4. /\ M \in Nat /\ walk \in [1..M -> W]
        /\ \A p, q \in 1..M : p < q => walk[p] < walk[q]
        /\ \A x \in W : \E p \in 1..M : walk[p] = x
    <3> HIDE DEF N, W, M
    <3>1. N \in Nat /\ W \in SUBSET (1..N) /\ walk \in InOrder(W)
      BY <1>4, <2>2, <2>3 DEF W
    <3>2. M = Cardinality(W)
      BY DEF M
    <3>3. PassesEach(walk, Cardinality(W), W)
      BY ONLY <3>1, WalkHasAll
    <3> QED BY ONLY <3>2, <3>3 DEF PassesEach
  <2>w. \A p \in 1..M : walk[p] \in W /\ walk[p] \in 1..N
    <3> HIDE DEF M, N, W
    <3> QED BY <2>3, <2>4
  <2>5. DOMAIN s = 1..M /\ \A p \in 1..M : s[p] = t[walk[p]]
    BY <2>2, <2>4
  <2>6. s \in Seq(found) /\ Len(s) = M
    <3> HIDE DEF M, N, W, m
    <3>1. \A p \in 1..M : s[p] \in found
      BY <1>4, <2>w, <2>5
    <3>2. s \in [1..M -> found]
      BY <2>2, <2>4, <2>5, <3>1
    <3> QED BY <2>4, <3>2
  \* A place that was cut off, not after that of c.
  <2>7. ASSUME NEW p \in 1..M, p > m, walk[p] <= i
        PROVE  Len(h) = n /\ Better(near1, matching1, h, c) = ToSet(h)
    <3> HIDE DEF W, M, N, m, Worse
    <3>1. \A q \in 1..M : q < p => ~ Worse(s[q])
      <4> TAKE q \in 1..M
      <4> HAVE q < p
      <4>1. walk[q] < walk[p] /\ walk[q] \in 1..N /\ walk[p] \in 1..N
        BY <2>4, <2>w, <2>7
      <4>2. walk[q] < i
        BY <1>4, <2>7, <4>1
      <4> QED BY <1>7, <2>5, <4>1, <4>2
    <3> QED BY <1>8, <2>4, <2>5, <2>6, <2>7, <3>1
  <2>8. CASE i \in W
    <3>1. PICK p \in 1..M : walk[p] = i
      BY <2>4, <2>8
    <3>2. s[p] = c
      BY <1>6, <2>5, <3>1
    <3>3. p > m
      <4>1. p \in Int /\ m \in Nat
        BY <2>4, <2>6
      <4> HIDE DEF m
      <4>2. p \notin 1..m
        BY <1>9, <2>6, <3>2
      <4>3. p >= 1
        OBVIOUS
      <4> QED BY <4>1, <4>2, <4>3
    <3>4. walk[p] <= i
      BY <3>1, <1>4
    <3> HIDE DEF M, m, N, W
    <3> QED BY <2>7, <3>3, <3>4
  <2>9. CASE i \notin W
    <3> DEFINE P == {j \in 1..N : t[j][1] = c[1]}
               V == {j \in P : Cardinality(P \cap (1..j - 1)) < maxPerDoc}
    <3>1. P \in SUBSET (1..N) /\ i \in P
      BY <1>6
    <3>2. \A j \in P : {x \in 1..j - 1 : t[x][1] = t[j][1]} = P \cap (1..j - 1)
      BY <1>4
    <3>3. V = {j \in W : t[j][1] = c[1]}
      BY <2>3, <3>2 DEF Uncrowded
    <3>4. ~ (Cardinality(P \cap (1..i - 1)) < maxPerDoc)
      BY <2>3, <2>9, <3>1, <3>2 DEF Uncrowded
    <3>5. maxPerDoc \in Nat \ {0}
      BY WidthAssumption
    <3>v. V \in SUBSET (1..N)
      OBVIOUS
    <3>6. Cardinality(V) = maxPerDoc /\ \A j \in V : j < i
      <4> HIDE DEF P, N
      <4> QED BY <1>4, <3>1, <3>4, <3>5, CountedOff
    <3> HIDE DEF V, P, M, N, W, m, Worse
    <3>7. CASE \A j \in V : t[j] \in ToSet(h)
      <4>1. ASSUME NEW x \in ToSet(h), x[1] = c[1] PROVE \E j \in V : x = t[j]
        <5>1. \E p \in 1..M : x = s[p]
          <6>1. h = SubSeq(s, 1, m) /\ m \in Nat /\ m <= M
            BY <1>2, <2>4, <2>6 DEF FirstOf, m
          <6>2. DOMAIN h = 1..m /\ \A p \in 1..m : h[p] = s[p] /\ p \in 1..M
            BY <2>4, <2>6, <6>1
          <6> QED BY <4>1, <6>2 DEF ToSet
        <5>2. PICK p \in 1..M : x = s[p]
          BY <5>1
        <5>3. x = t[walk[p]] /\ walk[p] \in W
          BY <2>5, <2>w, <5>2
        <5> QED BY <3>3, <4>1, <5>3
      <4>2. \A j \in V : t[j][1] = c[1] /\ ~ Worse(t[j])
        <5> TAKE j \in V
        <5>1. t[j][1] = c[1]
          BY <3>3
        <5>2. j \in 1..N /\ j < i
          BY <3>v, <3>6
        <5> QED BY <1>7, <5>1, <5>2
      <4>3. {x \in Better(near1, matching1, h, c) : x[1] = c[1]} = {t[j] : j \in V}
        BY <3>7, <4>1, <4>2 DEF Better, Worse
      <4>4. Cardinality({t[j] : j \in V}) = maxPerDoc
        BY <1>4, <2>3, <3>v, <3>6, TakenAre
      <4> QED BY <2>1, <4>3, <4>4
    <3>8. CASE \E j \in V : t[j] \notin ToSet(h)
      <4>1. PICK j \in V : t[j] \notin ToSet(h)
        BY <3>8
      <4>2. PICK p \in 1..M : walk[p] = j
        BY <2>4, <3>3, <4>1
      <4>3. s[p] \notin ToSet(h)
        BY <2>5, <4>1, <4>2
      <4>4. p \notin 1..m /\ p \in Int /\ p >= 1 /\ m \in Nat
        BY <1>9, <2>4, <2>6, <4>3 DEF m
      <4>5. p > m
        BY <4>4
      <4>6. walk[p] <= i
        <5>1. j < i /\ j \in 1..N /\ i \in 1..N
          BY <3>v, <3>6
        <5> QED BY <1>4, <4>2, <5>1
      <4> QED BY <2>7, <4>5, <4>6
    <3> QED BY <3>7, <3>8
  <2> QED BY <2>8, <2>9
<1> QED BY <1>10, <1>11

\* Whatever the rankings, the scores and the limits, a chunk that was found is
\* left out only for better ones (store.go, hits, capPerDoc).
THEOREM OnlyTheWorseAreDroppedCorrect == AskSpec => OnlyTheWorseAreDropped
<1> DEFINE found == (ToSet(near) \cup ToSet(matching)) \cap ChunksOf(ToSet(live))
           notBelow(c) == {h \in ToSet(hits') :
                               ~ Below(Score(near, matching, h), Score(near, matching, c))}
<1>1. FitInv /\ [AskNext]_askVars =>
          [pc = "load" /\ pc' = "fit" =>
              \A c \in found \ ToSet(hits') :
                  \/ Len(hits') = k /\ notBelow(c) = ToSet(hits')
                  \/ /\ Cardinality(DocsOf(found)) > 1
                     /\ Cardinality({h \in notBelow(c) : h[1] = c[1]}) = maxPerDoc]_askVars
  <2> SUFFICES ASSUME FitInv, [AskNext]_askVars, pc = "load", pc' = "fit",
                      NEW c \in found \ ToSet(hits')
               PROVE  \/ Len(hits') = k /\ notBelow(c) = ToSet(hits')
                      \/ /\ Cardinality(DocsOf(found)) > 1
                         /\ Cardinality({h \in notBelow(c) : h[1] = c[1]}) = maxPerDoc
    OBVIOUS
  <2>1. Load
    <3>1. ~ (Receive \/ SmallTalk \/ Recent \/ Count \/ ListCounted \/ NotEarly \/ UsageFrame)
      BY DEF Receive, SmallTalk, Recent, Count, ListCounted, NotEarly, UsageFrame
    <3>2. ~ (Rewritten \/ ReadSig \/ LookUp \/ Embed \/ VectorCandidates \/ KeywordCandidates)
      BY DEF Rewritten, ReadSig, LookUp, Embed, VectorCandidates, KeywordCandidates
    <3>3. ~ (Fit \/ Supplement \/ TokenFrame \/ StreamEnds \/ Settle)
      BY DEF Fit, Supplement, TokenFrame, StreamEnds, Settle
    <3>4. ~ (Leave \/ Change \/ UNCHANGED askVars)
      BY DEF Leave, Change, askVars
    <3> QED BY <3>1, <3>2, <3>3, <3>4 DEF AskNext
  <2>2. hits' \in loadHits(near, matching, ChunksOf(ToSet(live)), k)
    BY <2>1 DEF Load, Fail
  <2>3. k \in Nat
    <3>1. CandidatePool \in Nat /\ topK \in Nat
      BY PoolAssumption, WidthAssumption
    <3> QED BY <3>1 DEF k
  <2>4. found \in SUBSET Chunk
    BY ThereAreChunks DEF FitInv
  <2>5. notBelow(c) = Better(near, matching, hits', c)
    BY DEF Better
  <2>6. PICK h : h = hits'
    OBVIOUS
  <2> HIDE DEF notBelow
  <2>7. \/ Len(h) = k /\ Better(near, matching, h, c) = ToSet(h)
        \/ /\ Cardinality(DocsOf(found)) > 1
           /\ Cardinality({x \in Better(near, matching, h, c) : x[1] = c[1]}) = maxPerDoc
    BY <2>2, <2>3, <2>4, <2>6, DroppedForBetter
  <2> QED BY <2>5, <2>6, <2>7
<1> QED BY <1>1, FitInitially, FitStep, PTL DEF AskSpec, OnlyTheWorseAreDropped

-----------------------------------------------------------------------------
(* The types of the request, the library, the search and the stream.       *)

LEMMA FirstOfKeepsApart ==
    ASSUME NEW S, NEW s \in Seq(S), IsInjective(s), NEW n \in Nat
    PROVE  IsInjective(FirstOf(s, n)) /\ Len(FirstOf(s, n)) <= n
<1> DEFINE m == IF Len(s) < n THEN Len(s) ELSE n
<1>1. m \in Nat /\ m <= Len(s) /\ m <= n /\ DOMAIN s = 1..Len(s) /\ Len(s) \in Nat
  OBVIOUS
<1> HIDE DEF m
<1> DEFINE a == SubSeq(s, 1, m)
<1>2. DOMAIN a = 1..m /\ Len(a) = m /\ \A i \in 1..m : a[i] = s[i] /\ i \in DOMAIN s
  BY <1>1
<1>3. FirstOf(s, n) = a
  BY DEF FirstOf, m
<1> HIDE DEF a
<1>4. IsInjective(a)
  BY <1>2 DEF IsInjective
<1> QED BY <1>1, <1>2, <1>3, <1>4

\* A ranking has no chunk twice, and neither have the hits.
LEMMA CandidatesApart ==
    ASSUME NEW found \in SUBSET Chunk, NEW order \in SetToSeqs(found)
    PROVE  IsInjective(FirstOf(order, CandidatePool))
<1>1. IsFiniteSet(found)
  BY FiniteAssumption, FS_Subset
<1>2. /\ Cardinality(found) \in Nat /\ order \in [1..Cardinality(found) -> found]
      /\ IsInjective(order)
  BY <1>1, OrderHasAll
<1>3. order \in Seq(found) /\ CandidatePool \in Nat
  BY <1>2, PoolAssumption
<1> QED BY <1>2, <1>3, FirstOfKeepsApart

LEMMA CapKeepsApart ==
    ASSUME NEW t \in Seq(Chunk), IsInjective(t), NEW s \in capPerDoc(t)
    PROVE  s \in Seq(Chunk) /\ IsInjective(s)
<1>1. CASE s = t
  BY <1>1
<1>2. CASE s # t
  <2>1. PICK walk \in InOrder(Uncrowded(t)) : s = [i \in DOMAIN walk |-> t[walk[i]]]
    BY <1>2 DEF capPerDoc
  <2>2. Uncrowded(t) \in SUBSET (1..Len(t)) /\ Len(t) \in Nat /\ DOMAIN t = 1..Len(t)
    BY DEF Uncrowded
  <2> DEFINE n == Cardinality(Uncrowded(t))
  <2>3. PassesEach(walk, n, Uncrowded(t))
    BY <2>1, <2>2, WalkHasAll
  <2> HIDE DEF n
  <2>4. /\ n \in Nat /\ walk \in [1..n -> Uncrowded(t)]
        /\ \A i, j \in 1..n : i < j => walk[i] < walk[j]
    BY <2>3 DEF PassesEach
  <2>5. DOMAIN s = 1..n /\ \A i \in 1..n : walk[i] \in DOMAIN t /\ s[i] = t[walk[i]]
    BY <2>1, <2>2, <2>4
  <2>6. \A i, j \in 1..n : walk[i] = walk[j] => i = j
    <3> TAKE i, j \in 1..n
    <3>1. walk[i] \in Int /\ walk[j] \in Int
      BY <2>2, <2>5
    <3>2. (i < j => walk[i] < walk[j]) /\ (j < i => walk[j] < walk[i])
      BY <2>4
    <3>3. i \in Int /\ j \in Int
      OBVIOUS
    <3> QED BY ONLY <3>1, <3>2, <3>3
  <2>7. IsInjective(s)
    BY <2>5, <2>6 DEF IsInjective
  <2>8. s \in Seq(Chunk)
    <3>1. \A i \in 1..n : s[i] \in Chunk
      BY <2>5
    <3>2. s = [i \in 1..n |-> s[i]]
      BY <2>1, <2>5
    <3>3. n \in Nat /\ DOMAIN s = 1..n
      BY <2>4, <2>5
    <3> QED BY ONLY <3>1, <3>2, <3>3, ListOf
  <2> QED BY <2>7, <2>8
<1> QED BY <1>1, <1>2

LEMMA HitsApart ==
    ASSUME NEW near1, NEW matching1, NEW there, NEW n \in Nat,
           (ToSet(near1) \cup ToSet(matching1)) \cap there \subseteq Chunk,
           NEW h \in loadHits(near1, matching1, there, n)
    PROVE  IsInjective(h) /\ Len(h) <= n
<1> DEFINE chunks == (ToSet(near1) \cup ToSet(matching1)) \cap there
<1>1. PICK t \in Sorted(chunks, near1, matching1) : \E s \in capPerDoc(t) : h = FirstOf(s, n)
  BY DEF loadHits
<1>2. PICK s \in capPerDoc(t) : h = FirstOf(s, n)
  BY <1>1
<1>3. t \in SetToSeqs(chunks) /\ chunks \in SUBSET Chunk
  BY <1>1 DEF Sorted
<1> HIDE DEF chunks
<1>4. IsFiniteSet(chunks)
  BY <1>3, FiniteAssumption, FS_Subset
<1>5. Cardinality(chunks) \in Nat /\ t \in [1..Cardinality(chunks) -> chunks] /\ IsInjective(t)
  BY <1>3, <1>4, OrderHasAll
<1>6. t \in Seq(Chunk)
  <2>1. t \in [1..Cardinality(chunks) -> Chunk]
    BY <1>3, <1>5
  <2> QED BY <1>5, <2>1
<1>7. s \in Seq(Chunk) /\ IsInjective(s)
  BY <1>2, <1>5, <1>6, CapKeepsApart
<1> QED BY <1>2, <1>7, FirstOfKeepsApart

\* The library has no document twice.
LibraryTyped ==
    /\ live \in Seq(Document) /\ IsInjective(live) /\ seen \subseteq Seq(Document)

LEMMA LibraryTypedStep == LibraryTyped /\ [AskNext]_askVars => LibraryTyped'
<1> SUFFICES ASSUME LibraryTyped, [AskNext]_askVars PROVE LibraryTyped'
  OBVIOUS
<1>1. live \in Seq(Document) /\ IsInjective(live) /\ seen \subseteq Seq(Document)
  BY DEF LibraryTyped
<1>2. live' \in Seq(Document)
  BY <1>1, LibraryStep
<1>3. ASSUME NEW d \in Document \ ToSet(live), live' = <<d>> \o live PROVE IsInjective(live')
  <2> DEFINE n == Len(live)
  <2>1. n \in Nat /\ DOMAIN live = 1..n /\ \A i \in 1..n : live[i] # d
    BY <1>1, <1>3 DEF ToSet
  <2>2. /\ DOMAIN live' = 1..n + 1 /\ live'[1] = d
        /\ \A i \in 2..n + 1 : live'[i] = live[i - 1] /\ i - 1 \in 1..n
    BY <1>1, <1>3
  <2> HIDE DEF n
  <2>3. \A i, j \in 2..n + 1 : live'[i] = live'[j] => i = j
    <3> TAKE i, j \in 2..n + 1
    <3>1. live[i - 1] = live[j - 1] => i - 1 = j - 1
      BY <1>1, <2>1, <2>2 DEF IsInjective
    <3>2. i - 1 = j - 1 => i = j
      BY ONLY <2>1, i \in 2..n + 1, j \in 2..n + 1
    <3> QED BY <2>2, <3>1, <3>2
  <2>4. \A i \in 2..n + 1 : live'[i] # d
    BY <2>1, <2>2
  <2>5. \A i \in 1..n + 1 : i = 1 \/ i \in 2..n + 1
    BY ONLY <2>1
  <2> QED BY ONLY <2>2, <2>3, <2>4, <2>5 DEF IsInjective
<1>4. ASSUME NEW some, live' = Only(live, some) PROVE IsInjective(live')
  BY <1>1, <1>4, OnlyKeepsApart
<1>5. CASE UNCHANGED library
  BY <1>1, <1>5 DEF library, LibraryTyped
<1>6. CASE Change
  <2>1. IsInjective(live') /\ seen' = seen \cup {live'}
    BY <1>3, <1>4, <1>6 DEF Change
  <2> QED BY <1>1, <1>2, <2>1 DEF LibraryTyped
<1> QED BY <1>5, <1>6, OnlyOthersChange

\* There are as many documents as ByPath has, and no count passes that.
LEMMA NoMoreThanThereAre ==
    ASSUME NEW some \in SUBSET Document
    PROVE  Cardinality(some) \in 0..Cardinality(Document)
<1>1. IsFiniteSet(Document)
  <2>1. IsFiniteSet(ToSet(ByPath) \cap Document)
    BY LibraryAssumption, OnlyLength
  <2> QED BY <2>1, LibraryAssumption
<1>2. IsFiniteSet(some) /\ Cardinality(some) <= Cardinality(Document)
  BY <1>1, FS_Subset
<1>3. Cardinality(some) \in Nat /\ Cardinality(Document) \in Nat
  BY <1>1, <1>2, FS_CardinalityType
<1> QED BY ONLY <1>2, <1>3

TotalTyped == total \in 0..Cardinality(Document)

LEMMA TotalTypedStep ==
    TotalTyped /\ live \in Seq(Document) /\ [AskNext]_askVars => TotalTyped'
<1> SUFFICES ASSUME TotalTyped, live \in Seq(Document), [AskNext]_askVars PROVE TotalTyped'
  OBVIOUS
<1>1. CASE UNCHANGED total
  BY <1>1 DEF TotalTyped
<1>2. CASE Receive \/ SmallTalk \/ Recent \/ ListCounted \/ NotEarly
  BY <1>1, <1>2 DEF Receive, SmallTalk, Recent, ListCounted, NotEarly
<1>3. CASE Count
  <2>1. CASE total' = CountMatching(live, Matching(ask.question))
    <3> DEFINE some == ToSet(live) \cap Matching(ask.question)
    <3>1. some \in SUBSET Document
      BY DEF ToSet
    <3> HIDE DEF some
    <3>2. Cardinality(some) \in 0..Cardinality(Document)
      BY <3>1, NoMoreThanThereAre
    <3> QED BY <2>1, <3>2 DEF some, CountMatching, TotalTyped
  <2> QED BY <1>1, <1>3, <2>1 DEF Count
<1>4. CASE Rewritten \/ ReadSig \/ LookUp \/ Embed
  BY <1>1, <1>4 DEF Rewritten, ReadSig, LookUp, Embed
<1>5. CASE VectorCandidates \/ KeywordCandidates \/ Load \/ Fit \/ Supplement
  BY <1>1, <1>5 DEF VectorCandidates, KeywordCandidates, Load, Fit, Supplement
<1>6. CASE UsageFrame \/ TokenFrame \/ StreamEnds \/ Settle \/ Leave \/ Change
  BY <1>1, <1>6 DEF UsageFrame, TokenFrame, StreamEnds, Settle, Leave, Change
<1>7. CASE UNCHANGED askVars
  BY <1>1, <1>7 DEF askVars
<1> QED BY <1>2, <1>3, <1>4, <1>5, <1>6, <1>7 DEF AskNext

\* What the sources of an answer are made of.
LEMMA CitesType ==
    ASSUME context \in Seq(SectionType), web \in 0..1
    PROVE  Citations \in Seq(Citation)
<1> DEFINE docs == DocCites
           webs == WebCites
           n == Len(context)
<1>1. n \in Nat /\ DOMAIN context = 1..n /\ \A i \in 1..n : context[i].of \in Chunk
  <2>1. n \in Nat /\ DOMAIN context = 1..n /\ \A i \in 1..n : context[i] \in SectionType
    OBVIOUS
  <2>2. \A section \in SectionType : section.of \in Chunk
    BY ONLY TRUE DEF SectionType
  <2> QED BY ONLY <2>1, <2>2
<1>2. docs \in Seq(Citation)
  <2>1. docs = [i \in 1..n |-> [n |-> i, of |-> context[i].of]]
    BY <1>1 DEF DocCites
  <2>2. \A i \in 1..n : [n |-> i, of |-> context[i].of] \in Citation
    BY <1>1 DEF Citation
  <2> HIDE DEF docs, n
  <2>3. DOMAIN docs = 1..n /\ \A i \in 1..n : docs[i] \in Citation
    BY <2>1, <2>2
  <2>4. docs = [i \in 1..n |-> docs[i]]
    BY <2>1
  <2>5. n \in Nat
    BY <1>1
  <2> QED BY ONLY <2>3, <2>4, <2>5, ListOf
<1>3. webs \in Seq(Citation)
  <2>1. webs = [i \in 1..web |-> [n |-> i, kind |-> "web"]]
    BY DEF WebCites
  <2>2. \A i \in 1..web : i = 1
    OBVIOUS
  <2>3. [n |-> 1, kind |-> "web"] \in Citation
    BY DEF Citation
  <2>4. \A i \in 1..web : [n |-> i, kind |-> "web"] \in Citation
    BY ONLY <2>2, <2>3
  <2> HIDE DEF webs
  <2>5. web \in Nat /\ DOMAIN webs = 1..web /\ \A i \in 1..web : webs[i] \in Citation
    BY <2>1, <2>4
  <2>6. webs = [i \in 1..web |-> webs[i]]
    BY <2>1
  <2> QED BY ONLY <2>5, <2>6, ListOf
<1> HIDE DEF docs, webs
<1>4. ASSUME NEW some PROVE Only(docs, some) \in Seq(Citation) /\ Only(webs, some) \in Seq(Citation)
  BY <1>2, <1>3, OnlyType
<1>5. referenced(docs, heard.text) \in Seq(Citation)
  BY <1>2, <1>4 DEF referenced
<1>6. referencedWeb(webs, heard.text) \in Seq(Citation)
  BY <1>4 DEF referencedWeb
<1> QED BY <1>5, <1>6 DEF Citations, docs, webs

RowsTyped == \A r \in rows : r.text \in Seq(Token) /\ r.cites \in Seq(Citation)

LEMMA RowsTypedStep ==
    RowsTyped /\ heard \in Heard /\ context \in Seq(SectionType) /\ web \in 0..1
        /\ [AskNext]_askVars => RowsTyped'
<1> SUFFICES ASSUME RowsTyped, heard \in Heard, context \in Seq(SectionType), web \in 0..1,
                    [AskNext]_askVars
             PROVE  RowsTyped'
  OBVIOUS
<1>1. Row.text \in Seq(Token) /\ Row.cites \in Seq(Citation)
  BY HeardParts, RowParts, CitesType
<1>2. rows' \subseteq rows \cup {Row}
  <2>1. CASE Settle
    <3>1. UNCHANGED rows \/ rows' \subseteq rows \cup {Row}
      BY ONLY <2>1, WhatIsKept
    <3> QED BY ONLY <3>1
  <2>2. CASE UNCHANGED rows
    BY <2>2
  <2> QED BY <2>1, <2>2, OnlyAnswersAreKept
<1> QED BY <1>1, <1>2 DEF RowsTyped

WebTyped == web \in 0..1

LEMMA WebTypedStep == WebTyped /\ [AskNext]_askVars => WebTyped'
<1> SUFFICES ASSUME WebTyped, [AskNext]_askVars PROVE WebTyped'
  OBVIOUS
<1> USE DEF WebTyped
<1>1. CASE Receive \/ SmallTalk \/ Recent \/ Count \/ ListCounted \/ NotEarly
  BY <1>1 DEF Receive, SmallTalk, Recent, Count, ListCounted, NotEarly
<1>2. CASE Rewritten \/ ReadSig \/ LookUp \/ Embed
  BY <1>2 DEF Rewritten, ReadSig, LookUp, Embed
<1>3. CASE VectorCandidates \/ KeywordCandidates \/ Load \/ Fit \/ Supplement
  BY <1>3 DEF VectorCandidates, KeywordCandidates, Load, Fit, Supplement
<1>4. CASE UsageFrame \/ TokenFrame \/ StreamEnds \/ Settle \/ Leave \/ Change
  BY <1>4 DEF UsageFrame, TokenFrame, StreamEnds, Settle, Leave, Change
<1>5. CASE UNCHANGED askVars
  BY <1>5 DEF askVars
<1> QED BY <1>1, <1>2, <1>3, <1>4, <1>5 DEF AskNext

\* Two completions at most are paid for, the second when its stream has ended.
BothHeard == pc \in Ended \/ (pc = "answer" /\ heard.end # "")
SpentTyped ==
    /\ heard.usage \in 0..1 /\ usage \in 0..2
    /\ ~ BothHeard => usage \in 0..1

LEMMA SpentTypedStep == CostInv /\ SpentTyped /\ [AskNext]_askVars => SpentTyped'
<1> SUFFICES ASSUME CostInv, SpentTyped, [AskNext]_askVars PROVE SpentTyped'
  OBVIOUS
<1>h. /\ heard \in Heard /\ NothingHeard.usage = 0 /\ NothingHeard.end = ""
      /\ heard.usage \in 0..1 /\ usage \in 0..2
      /\ ~ BothHeard => usage \in 0..1
  BY ONLY CostInv, SpentTyped, NothingIsHeard DEF CostInv, SpentTyped
<1>c. /\ pc \notin {"rewrite", "answer", "failed"} => heard = NothingHeard
      /\ pc = "rewrite" => heard.end = "" /\ usage = 0
  BY ONLY CostInv DEF CostInv, Unpaid
<1>s. /\ \A x, y \in 0..1 : x + y \in 0..2 /\ 0 + y = y
      /\ 0 \in 0..1 /\ 1 \in 0..1 /\ \A x \in 0..1 : x \in 0..2
  BY ONLY TRUE
\* A step that hears nothing and buys no completion.
<1>0. ASSUME UNCHANGED <<heard, usage>>, BothHeard => BothHeard' PROVE SpentTyped'
  BY ONLY <1>0, <1>h DEF SpentTyped
<1>e. CASE pc \in Ended
  <2>1. UNCHANGED askVars
    BY <1>e, EndedStays
  <2>2. UNCHANGED <<heard, usage, pc>>
    BY ONLY <2>1 DEF askVars
  <2> QED BY ONLY <2>2, <1>0 DEF BothHeard
<1>n. pc \notin Ended \cup {"answer"} => ~ BothHeard
  BY DEF BothHeard
<1>1. CASE Receive \/ SmallTalk \/ Recent \/ Count \/ ListCounted \/ NotEarly
  <2>1. UNCHANGED <<heard, usage>> /\ pc \in {"new", "early", "list"}
    BY <1>1 DEF Receive, SmallTalk, Recent, Count, ListCounted, NotEarly, spent
  <2>2. ~ BothHeard
    BY <2>1 DEF BothHeard, Ended
  <2> QED BY <1>0, <2>1, <2>2
<1>2. CASE ReadSig \/ LookUp \/ Embed
  <2>1. UNCHANGED <<heard, usage>> /\ pc \in {"sig", "lookup", "embed"}
    BY <1>2 DEF ReadSig, LookUp, Embed, spent
  <2>2. ~ BothHeard
    BY <2>1 DEF BothHeard, Ended
  <2> QED BY <1>0, <2>1, <2>2
<1>3. CASE VectorCandidates \/ KeywordCandidates \/ Load \/ Fit \/ Supplement
  <2>1. UNCHANGED <<heard, usage>> /\ pc \in {"near", "matching", "load", "fit", "web"}
    BY <1>3 DEF VectorCandidates, KeywordCandidates, Load, Fit, Supplement, spent
  <2>2. ~ BothHeard
    BY <2>1 DEF BothHeard, Ended
  <2> QED BY <1>0, <2>1, <2>2
<1>4. CASE UsageFrame
  <2>1. heard' = [heard EXCEPT !.usage = 1] /\ UNCHANGED <<pc, usage>> /\ heard.end = ""
    BY ONLY <1>4 DEF UsageFrame
  <2>2. heard' = [text |-> heard.text, usage |-> 1, end |-> heard.end]
    BY ONLY <2>1, <1>h, HeardParts
  <2>3. heard'.usage = 1 /\ heard'.end = heard.end
    BY ONLY <2>2
  <2> QED BY ONLY <2>1, <2>3, <1>h, <1>s DEF SpentTyped, BothHeard
<1>5. CASE Rewritten
  <2>1. pc = "rewrite" /\ heard' = NothingHeard /\ usage' = usage + heard.usage
    BY ONLY <1>5 DEF Rewritten
  <2>2. usage = 0
    BY ONLY <2>1, <1>c
  <2>3. usage' \in 0..1 /\ heard'.usage = 0
    BY ONLY <2>1, <2>2, <1>h, <1>s
  <2> QED BY ONLY <2>3, <1>s DEF SpentTyped
<1>6. CASE TokenFrame
  <2>1. PICK t \in Token : heard' = [heard EXCEPT !.text = Append(@, t)]
    BY ONLY <1>6 DEF TokenFrame
  <2>2. heard' = [text |-> Append(heard.text, t), usage |-> heard.usage, end |-> heard.end]
    BY ONLY <2>1, <1>h, HeardParts
  <2>3. UNCHANGED <<pc, usage>>
    BY ONLY <1>6 DEF TokenFrame, spent
  <2>4. heard'.usage = heard.usage /\ heard'.end = heard.end
    BY ONLY <2>2
  <2> QED BY ONLY <2>3, <2>4, <1>h DEF SpentTyped, BothHeard
<1>7. CASE StreamEnds
  <2>1. pc = "answer" /\ heard.end = "" /\ usage' = usage + heard.usage
    BY <1>7 DEF StreamEnds
  <2>2. usage \in 0..1
    BY ONLY <2>1, <1>h DEF BothHeard, Ended
  <2>3. usage' \in 0..2
    BY ONLY <2>1, <2>2, <1>h, <1>s
  <2>4. CASE \E end \in {"DONE", "EOF"} : heard' = [heard EXCEPT !.end = end] /\ pc' = pc
    <3>1. PICK end \in {"DONE", "EOF"} : heard' = [heard EXCEPT !.end = end] /\ pc' = pc
      BY ONLY <2>4
    <3>2. heard' = [text |-> heard.text, usage |-> heard.usage, end |-> end]
      BY ONLY <3>1, <1>h, HeardParts
    <3>3. heard'.usage = heard.usage /\ heard'.end # ""
      BY ONLY <3>1, <3>2
    <3>4. BothHeard'
      BY ONLY <2>1, <3>1, <3>3 DEF BothHeard
    <3> QED BY ONLY <2>3, <3>3, <3>4, <1>h DEF SpentTyped
  <2>5. CASE pc' = "failed" /\ heard' = heard
    <3>1. BothHeard'
      BY ONLY <2>5 DEF BothHeard, Ended
    <3> QED BY ONLY <2>3, <2>5, <3>1, <1>h DEF SpentTyped
  <2> QED BY <1>7, <2>4, <2>5 DEF StreamEnds, Fail
<1>8. CASE Settle
  <2>1. heard' = NothingHeard /\ usage' = usage /\ pc' = "done"
    BY <1>8 DEF Settle, Reply, spent
  <2>2. BothHeard'
    BY ONLY <2>1 DEF BothHeard, Ended
  <2> QED BY ONLY <2>1, <2>2, <1>h, <1>s DEF SpentTyped
<1>9. CASE Leave \/ Change \/ UNCHANGED askVars
  <2>1. UNCHANGED <<heard, usage, pc>>
    BY <1>9 DEF Leave, Change, askVars, spent
  <2> QED BY ONLY <2>1, <1>0 DEF BothHeard
<1> QED BY <1>1, <1>2, <1>3, <1>4, <1>5, <1>6, <1>7, <1>8, <1>9 DEF AskNext

LEMMA BilledType ==
    ASSUME CostInv, SpentTyped
    PROVE  billed \in 0..2
<1>1. usage \in Int /\ billed = usage + Owed /\ heard.usage \in 0..1 /\ usage \in 0..2
  BY ONLY CostInv, SpentTyped DEF CostInv, SpentTyped
<1>2. CASE Hearing
  <2>1. ~ BothHeard
    BY <1>2 DEF Hearing, BothHeard, Ended
  <2>2. usage \in 0..1 /\ Owed = heard.usage
    BY ONLY <1>2, <2>1, SpentTyped DEF SpentTyped, Owed
  <2> QED BY ONLY <1>1, <2>2
<1>3. CASE ~ Hearing
  <2>1. Owed = 0
    BY ONLY <1>3 DEF Owed
  <2> QED BY ONLY <1>1, <2>1
<1> QED BY <1>2, <1>3

\* What is bought or sent out.
Bought == {"rewrite", "embed", "search", "chat"}
StageTyped ==
    /\ pc \in Stages /\ changed \in BOOLEAN /\ cacheable \in BOOLEAN /\ here \in BOOLEAN
    /\ calls \subseteq Bought

LEMMA StageTypedStep == StageTyped /\ [AskNext]_askVars => StageTyped'
<1> SUFFICES ASSUME StageTyped, [AskNext]_askVars PROVE StageTyped'
  OBVIOUS
<1>1. pc' \in Stages
  <2> USE DEF Stages, Ended, StageTyped
  <2>1. CASE Receive \/ SmallTalk \/ Recent \/ Count \/ ListCounted \/ NotEarly
    BY <2>1 DEF Receive, SmallTalk, Recent, Count, ListCounted, NotEarly, Reply, GoOn
  <2>2. CASE Rewritten \/ ReadSig \/ LookUp \/ Embed
    BY <2>2 DEF Rewritten, ReadSig, LookUp, Embed, Reply, Fail
  <2>3. CASE VectorCandidates \/ KeywordCandidates \/ Load \/ Fit \/ Supplement
    BY <2>3 DEF VectorCandidates, KeywordCandidates, Load, Fit, Supplement, Reply, Fail
  <2>4. CASE UsageFrame \/ TokenFrame \/ StreamEnds \/ Settle
    BY <2>4 DEF UsageFrame, TokenFrame, StreamEnds, Settle, Reply, Fail
  <2>5. CASE Leave \/ Change \/ UNCHANGED askVars
    BY <2>5 DEF Leave, Change, askVars
  <2> QED BY <2>1, <2>2, <2>3, <2>4, <2>5 DEF AskNext
<1>2. changed' \in BOOLEAN
  BY OnlyOthersChange DEF StageTyped, library, Change
<1>3. cacheable' \in BOOLEAN
  <2>1. CASE ReadSig
    BY <2>1 DEF ReadSig, StageTyped
  <2>2. CASE UNCHANGED cacheable
    BY <2>2 DEF StageTyped
  <2>3. CASE Receive \/ SmallTalk \/ Recent \/ Count \/ ListCounted \/ NotEarly
    BY <2>2, <2>3 DEF Receive, SmallTalk, Recent, Count, ListCounted, NotEarly, cache
  <2>4. CASE Rewritten \/ LookUp \/ Embed
    BY <2>2, <2>4 DEF Rewritten, LookUp, Embed, cache
  <2>5. CASE VectorCandidates \/ KeywordCandidates \/ Load \/ Fit \/ Supplement
    BY <2>2, <2>5 DEF VectorCandidates, KeywordCandidates, Load, Fit, Supplement, cache
  <2>6. CASE UsageFrame \/ TokenFrame \/ StreamEnds \/ Settle \/ Leave \/ Change
    BY <2>2, <2>6 DEF UsageFrame, TokenFrame, StreamEnds, Settle, Leave, Change, cache
  <2>7. CASE UNCHANGED askVars
    BY <2>2, <2>7 DEF askVars
  <2> QED BY <2>1, <2>3, <2>4, <2>5, <2>6, <2>7 DEF AskNext
<1>4. here' \in BOOLEAN
  <2>1. CASE Leave
    BY <2>1 DEF Leave
  <2>2. CASE UNCHANGED here
    BY <2>2 DEF StageTyped
  <2>3. CASE Receive \/ SmallTalk \/ Recent \/ Count \/ ListCounted \/ NotEarly
    BY <2>2, <2>3 DEF Receive, SmallTalk, Recent, Count, ListCounted, NotEarly, request
  <2>4. CASE Rewritten \/ ReadSig \/ LookUp \/ Embed
    BY <2>2, <2>4 DEF Rewritten, ReadSig, LookUp, Embed, request
  <2>5. CASE VectorCandidates \/ KeywordCandidates \/ Load \/ Fit \/ Supplement
    BY <2>2, <2>5 DEF VectorCandidates, KeywordCandidates, Load, Fit, Supplement, request
  <2>6. CASE UsageFrame \/ TokenFrame \/ StreamEnds \/ Settle \/ Change
    BY <2>2, <2>6 DEF UsageFrame, TokenFrame, StreamEnds, Settle, Change, request
  <2>7. CASE UNCHANGED askVars
    BY <2>2, <2>7 DEF askVars
  <2> QED BY <2>1, <2>3, <2>4, <2>5, <2>6, <2>7 DEF AskNext
<1>5. calls' \subseteq Bought
  <2>1. ASSUME NEW c \in Bought, calls' = calls \cup {c} PROVE calls' \subseteq Bought
    BY <2>1 DEF StageTyped
  <2>2. CASE UNCHANGED calls
    BY <2>2 DEF StageTyped
  <2>3. CASE Receive \/ SmallTalk \/ Recent \/ Count \/ ListCounted \/ NotEarly
    BY <2>2, <2>3 DEF Receive, SmallTalk, Recent, Count, ListCounted, NotEarly, spent
  <2>4. CASE ReadSig \/ LookUp
    BY <2>2, <2>4 DEF ReadSig, LookUp, spent
  <2>5. CASE Rewritten \/ Embed \/ Supplement \/ StreamEnds
    <3>1. "rewrite" \in Bought /\ "embed" \in Bought /\ "search" \in Bought /\ "chat" \in Bought
      BY DEF Bought
    <3> QED BY <2>1, <2>5, <3>1 DEF Rewritten, Embed, Supplement, StreamEnds
  <2>6. CASE VectorCandidates \/ KeywordCandidates \/ Load \/ Fit
    BY <2>2, <2>6 DEF VectorCandidates, KeywordCandidates, Load, Fit, spent
  <2>7. CASE UsageFrame \/ TokenFrame \/ Settle \/ Leave \/ Change
    BY <2>2, <2>7 DEF UsageFrame, TokenFrame, Settle, Leave, Change, spent
  <2>8. CASE UNCHANGED askVars
    BY <2>2, <2>8 DEF askVars
  <2> QED BY <2>3, <2>4, <2>5, <2>6, <2>7, <2>8 DEF AskNext
<1> QED BY <1>1, <1>2, <1>3, <1>4, <1>5 DEF StageTyped

\* No ranking has a chunk twice, and what is shown of them is no more than was
\* asked for.
SearchTyped ==
    /\ IsInjective(near) /\ IsInjective(matching) /\ IsInjective(hits)
    /\ Len(hits) <= k /\ Len(context) <= k

LEMMA WidthType == k \in Nat
<1>1. CandidatePool \in Nat /\ topK \in Nat
  BY PoolAssumption, WidthAssumption
<1> QED BY <1>1 DEF k

LEMMA SameWidth == ask' = ask => k' = k
BY DEF k, budget

LEMMA NoneIsApart == IsInjective(<<>>) /\ Len(<<>>) = 0
BY DEF IsInjective

LEMMA SearchTypedStep ==
    FitInv /\ SourceInv /\ SearchTyped /\ [AskNext]_askVars => SearchTyped'
<1> SUFFICES ASSUME FitInv, SourceInv, SearchTyped, [AskNext]_askVars PROVE SearchTyped'
  OBVIOUS
<1>i. /\ IsInjective(near) /\ IsInjective(matching) /\ IsInjective(hits)
      /\ Len(hits) <= k /\ Len(context) <= k /\ Len(hits) \in Nat
      /\ pc # "fit" => hits = <<>>
      /\ ask.scope \subseteq Document /\ near \in Seq(Chunk) /\ matching \in Seq(Chunk)
  BY DEF FitInv, RankTypes, RankInv, SearchTyped
\* A step that leaves the search alone.
<1>0. ASSUME UNCHANGED <<near, matching, hits, context, ask>> PROVE SearchTyped'
  BY <1>0, <1>i, SameWidth DEF SearchTyped
<1>1. CASE Receive
  <2>1. hits = <<>> /\ context = <<>>
    BY <1>1, <1>i DEF Receive, SourceInv
  <2>2. UNCHANGED <<near, matching, hits, context>>
    BY <1>1 DEF Receive, search
  <2>3. k' \in Nat
    <3>1. CandidatePool \in Nat /\ topK \in Nat
      BY PoolAssumption, WidthAssumption
    <3> QED BY <3>1 DEF k
  <2> QED BY ONLY <1>i, <2>1, <2>2, <2>3, NoneIsApart DEF SearchTyped
<1>2. CASE SmallTalk \/ Recent \/ Count \/ ListCounted \/ NotEarly
  BY <1>0, <1>2 DEF SmallTalk, Recent, Count, ListCounted, NotEarly, search, request
<1>3. CASE Rewritten \/ ReadSig \/ LookUp \/ Embed \/ Supplement
  BY <1>0, <1>3 DEF Rewritten, ReadSig, LookUp, Embed, Supplement, search, request
<1>4. CASE UsageFrame \/ TokenFrame \/ StreamEnds \/ Settle
  BY <1>0, <1>4 DEF UsageFrame, TokenFrame, StreamEnds, Settle, search, request
<1>5. CASE Leave \/ Change \/ UNCHANGED askVars
  BY <1>0, <1>5 DEF Leave, Change, askVars, search, request
<1>6. CASE VectorCandidates
  <2>1. UNCHANGED <<matching, hits, context, ask>>
    BY <1>6 DEF VectorCandidates, request
  <2>2. CASE UNCHANGED near
    BY <1>0, <2>1, <2>2
  <2>3. CASE \E order \in SetToSeqs(InScope) : near' = FirstOf(order, CandidatePool)
    <3>1. IsInjective(near')
      BY <1>i, <2>3, InScopeIsChunk, CandidatesApart
    <3> QED BY ONLY <1>i, <2>1, <3>1, SameWidth DEF SearchTyped
  <2> QED BY <1>6, <2>2, <2>3 DEF VectorCandidates
<1>7. CASE KeywordCandidates
  <2>1. UNCHANGED <<near, hits, context, ask>>
    BY <1>7 DEF KeywordCandidates, request
  <2>2. PICK found \in SUBSET InScope : \E order \in SetToSeqs(found) :
            matching' = FirstOf(order, CandidatePool)
    BY <1>7 DEF KeywordCandidates
  <2>3. IsInjective(matching')
    BY <1>i, <2>2, InScopeIsChunk, CandidatesApart
  <2> QED BY ONLY <1>i, <2>1, <2>3, SameWidth DEF SearchTyped
<1>8. CASE Load
  <2>1. UNCHANGED <<near, matching, context, ask>>
    BY <1>8 DEF Load, request
  <2>2. CASE UNCHANGED hits
    BY <1>0, <2>1, <2>2
  <2>3. CASE hits' \in loadHits(near, matching, ChunksOf(ToSet(live)), k)
    <3>1. ToSet(near) \cup ToSet(matching) \subseteq Chunk
      BY <1>i DEF ToSet
    <3>2. IsInjective(hits') /\ Len(hits') <= k
      BY <2>3, <3>1, WidthType, HitsApart
    <3> QED BY ONLY <1>i, <2>1, <3>2, SameWidth DEF SearchTyped
  <2> QED BY <1>8, <2>2, <2>3 DEF Load
<1>9. CASE Fit
  <2>1. near' = <<>> /\ matching' = <<>> /\ hits' = <<>> /\ ask' = ask
    BY <1>9 DEF Fit, request
  <2>2. Len(Fitted) \in Nat /\ Len(Fitted) <= Len(hits)
    BY FittedIsHits
  <2>3. context' = Fitted \/ context' = context
    BY ContextIsFitted
  <2>4. Len(context') <= k
    BY ONLY <1>i, <2>2, <2>3, WidthType
  <2> QED BY ONLY <2>1, <2>4, NoneIsApart, SameWidth, WidthType DEF SearchTyped
<1> QED BY <1>1, <1>2, <1>3, <1>4, <1>5, <1>6, <1>7, <1>8, <1>9 DEF AskNext

\* All of it, with what follows the sections and the cost.
AskTypes ==
    /\ Sourcing
    /\ StageTyped /\ LibraryTyped /\ TotalTyped /\ RowsTyped /\ WebTyped
    /\ SpentTyped /\ SearchTyped

LEMMA AskTypesInitially == AskInit => AskTypes
<1> SUFFICES ASSUME AskInit PROVE AskTypes
  OBVIOUS
<1> USE DEF AskInit
<1>1. Sourcing
  <2>1. SourceInv
    BY DEF SourceInv, SourcesAreTheUsed
  <2> QED BY <2>1, TellingInitially, FitInitially DEF Sourcing
<1>2. StageTyped
  BY DEF StageTyped, Stages
<1>3. LibraryTyped
  BY LibraryAssumption DEF LibraryTyped
<1>4. TotalTyped
  <2>1. total = 0 /\ {} \in SUBSET Document
    OBVIOUS
  <2>2. Cardinality({}) \in 0..Cardinality(Document) /\ Cardinality({}) = 0
    BY <2>1, NoMoreThanThereAre, FS_EmptySet
  <2> QED BY <2>1, <2>2 DEF TotalTyped
<1>5. RowsTyped
  BY EarlierAssumption DEF RowsTyped
<1>6. WebTyped
  BY DEF WebTyped
<1>7. SpentTyped
  <2>1. heard = NothingHeard /\ usage = 0
    BY DEF AskInit
  <2>2. heard.usage = 0
    BY ONLY <2>1, NothingIsHeard
  <2>3. 0 \in 0..1 /\ 0 \in 0..2
    BY ONLY TRUE
  <2> QED BY ONLY <2>1, <2>2, <2>3 DEF SpentTyped
<1>8. SearchTyped
  BY NoneIsApart, WidthType DEF SearchTyped
<1> QED BY ONLY <1>1, <1>2, <1>3, <1>4, <1>5, <1>6, <1>7, <1>8 DEF AskTypes

LEMMA AskTypesStep == AskTypes /\ [AskNext]_askVars => AskTypes'
<1> SUFFICES ASSUME AskTypes, [AskNext]_askVars PROVE AskTypes'
  OBVIOUS
<1>1. /\ Sourcing /\ Telling /\ FitInv /\ SourceInv /\ CostInv /\ heard \in Heard
      /\ context \in Seq(SectionType) /\ web \in 0..1 /\ live \in Seq(Document)
      /\ StageTyped /\ LibraryTyped /\ TotalTyped /\ RowsTyped /\ WebTyped
      /\ SpentTyped /\ SearchTyped
  BY DEF AskTypes, Sourcing, Telling, CostInv, SourceInv, WebTyped, LibraryTyped
<1>2. Sourcing'
  BY <1>1, TellingStep, FitStep, SourceStep DEF Sourcing
<1>3. StageTyped' /\ LibraryTyped' /\ TotalTyped'
  BY <1>1, StageTypedStep, LibraryTypedStep, TotalTypedStep
<1>4. RowsTyped' /\ WebTyped'
  BY <1>1, RowsTypedStep, WebTypedStep
<1>5. SpentTyped' /\ SearchTyped'
  BY <1>1, SpentTypedStep, SearchTypedStep
<1> QED BY ONLY <1>2, <1>3, <1>4, <1>5 DEF AskTypes

LEMMA TypesAreTypes == AskTypes => AskTypeOK
<1> SUFFICES ASSUME AskTypes PROVE AskTypeOK
  OBVIOUS
<1>1. /\ Sourcing /\ StageTyped /\ LibraryTyped /\ TotalTyped /\ RowsTyped /\ WebTyped
      /\ SpentTyped /\ SearchTyped
  BY DEF AskTypes
<1>2. ask \in Ask /\ pc \in Stages /\ {changed, cacheable, here} \subseteq BOOLEAN
  BY <1>1 DEF Sourcing, FitInv, AskInv, StageTyped
<1>3. live \in Seq(Document) /\ IsInjective(live) /\ seen \subseteq Seq(Document)
  BY <1>1 DEF LibraryTyped
<1>4. \A r \in rows : r.text \in Seq(Token) /\ r.cites \in Seq(Citation)
  BY <1>1 DEF RowsTyped
<1>5. total \in 0..Cardinality(Document) /\ web \in 0..1
  BY <1>1 DEF TotalTyped, WebTyped
<1>6. /\ \A s \in {near, matching, hits} : s \in Seq(Chunk) /\ IsInjective(s)
      /\ Len(near) <= CandidatePool /\ Len(matching) <= CandidatePool /\ Len(hits) <= k
  BY <1>1 DEF Sourcing, FitInv, RankTypes, RankInv, SearchTyped
<1>7. Len(context) <= k /\ \A i \in DOMAIN context : context[i].of \in Chunk
  <2>1. context \in Seq(SectionType) /\ Len(context) <= k
    BY <1>1 DEF Sourcing, SourceInv, SearchTyped
  <2>2. \A i \in DOMAIN context : context[i] \in SectionType
    BY <2>1
  <2>3. \A section \in SectionType : section.of \in Chunk
    BY ONLY TRUE DEF SectionType
  <2> QED BY ONLY <2>1, <2>2, <2>3
<1>8. heard \in [text : Seq(Token), usage : 0..1, end : {"", "DONE", "EOF"}]
  <2>1. heard \in Heard /\ heard.usage \in 0..1
    BY <1>1 DEF Sourcing, Telling, CostInv, SpentTyped
  <2> QED BY ONLY <2>1 DEF Heard, StreamEnd
<1>9. {usage, billed} \subseteq 0..2 /\ calls \subseteq {"rewrite", "embed", "search", "chat"}
  <2>1. CostInv /\ usage \in 0..2
    BY <1>1 DEF Sourcing, Telling, SpentTyped
  <2>2. billed \in 0..2
    BY <1>1, <2>1, BilledType
  <2>3. {usage, billed} \subseteq 0..2
    BY ONLY <2>1, <2>2
  <2> QED BY <1>1, <2>3 DEF StageTyped, Bought
<1> QED BY ONLY <1>2, <1>3, <1>4, <1>5, <1>6, <1>7, <1>8, <1>9 DEF AskTypeOK

\* For any request, library, ranking and length of answer: no document, hit or
\* ranked chunk twice, no more sections than were asked for, and at most two
\* completions paid for (rag.go, Answer; store.go, Search).
THEOREM AskTypeCorrect == AskSpec => []AskTypeOK
BY AskTypesInitially, AskTypesStep, TypesAreTypes, PTL DEF AskSpec

===============================================================================
