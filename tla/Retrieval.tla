------------------------------- MODULE Retrieval ------------------------------
(***************************************************************************)
(* How two rankings of chunks become the sections an answer is built from  *)
(* (src/internal/db/store.go: fuse, hits, capPerDoc, stitchNeighbours;     *)
(* src/internal/rag/retrieve.go: contextBudget, trimToBudget). A chunk is  *)
(* its document and its place in it; its text is a length.                 *)
(***************************************************************************)
EXTENDS ListFolds, FiniteSets

CONSTANTS
    Document,       \* the documents there may be
    Pieces,         \* how many chunks each of them has
    Approved,       \* the documents a person vouched for
    Size,           \* the length of each chunk
    CandidatePool,  \* the longest ranking a retriever offers
    maxPerDoc,      \* the most chunks of one document among several
    topK,           \* how many sections, when the window is unknown
    contextShare    \* per cent of the window the sections may take, 0: unset

ASSUME ChunkAssumption ==
    /\ Approved \subseteq Document
    /\ \A d \in Document : Pieces[d] \in Nat
    /\ \A d \in Document : \A o \in 1..Pieces[d] : Size[<<d, o>>] \in Nat
ASSUME PoolAssumption == CandidatePool \in 1..40
ASSUME WidthAssumption == maxPerDoc \in Nat \ {0} /\ topK \in Nat \ {0}
ASSUME ShareAssumption == contextShare \in 0..100

perToken == 4
defaultContextShare == 50
Separator == 2      \* the blank line between two chunks of a section

ChunksOf(docs) == UNION {{<<d, o>> : o \in 1..Pieces[d]} : d \in docs}
Chunk == ChunksOf(Document)

ASSUME FiniteAssumption == IsFiniteSet(Chunk)

FirstOf(s, n) == SubSeq(s, 1, IF Len(s) < n THEN Len(s) ELSE n)
-----------------------------------------------------------------------------
\* A score is a fraction <<numerator, denominator>>.
rrfK == 60
Plus(a, b) == <<a[1] * b[2] + b[1] * a[2], a[2] * b[2]>>
Boosted(a) == <<6 * a[1], 5 * a[2]>>
Below(a, b) == a[1] * b[2] < b[1] * a[2]

\* What one ranking adds to the score of a chunk, for its rank counted from 0.
Reciprocal(rank) == <<1, rrfK + rank>>
RankIn(order, c) == (CHOOSE i \in DOMAIN order : order[i] = c) - 1
Share(order, c) == IF c \in ToSet(order) THEN Reciprocal(RankIn(order, c)) ELSE <<0, 1>>

\* A fusion that keeps the better of the two shares.
fuseBest(near, matching) ==
    [c \in ToSet(near) \cup ToSet(matching) |->
        IF Below(Share(near, c), Share(matching, c)) THEN Share(matching, c) ELSE Share(near, c)]

fuse(near, matching) ==
    [c \in ToSet(near) \cup ToSet(matching) |-> Plus(Share(near, c), Share(matching, c))]

Score(near, matching, c) ==
    LET score == fuse(near, matching)[c]
    IN IF c[1] \in Approved THEN Boosted(score) ELSE score

DocsOf(chunks) == {c[1] : c \in chunks}

\* The ways to walk through a set of places in their order: there is one.
InOrder(places) ==
    {walk \in [1..Cardinality(places) -> places] :
        \A i, j \in DOMAIN walk : i < j => walk[i] < walk[j]}

\* The places of a ranking that have fewer than maxPerDoc of their document
\* before them.
Uncrowded(chunks) ==
    {i \in DOMAIN chunks :
        Cardinality({j \in 1..i - 1 : chunks[j][1] = chunks[i][1]}) < maxPerDoc}

\* A cap that holds for the only document too.
capPerDocAlways(chunks) ==
    {[i \in DOMAIN walk |-> chunks[walk[i]]] : walk \in InOrder(Uncrowded(chunks))}

capPerDoc(chunks) ==
    IF Cardinality(DocsOf(ToSet(chunks))) < 2 THEN {chunks}
    ELSE {[i \in DOMAIN walk |-> chunks[walk[i]]] : walk \in InOrder(Uncrowded(chunks))}

\* Every order of the chunks that puts none above one of a higher score: the
\* sort keeps no order among equals.
Sorted(chunks, near, matching) ==
    {s \in SetToSeqs(chunks) : \A i, j \in DOMAIN s :
        i < j => ~ Below(Score(near, matching, s[i]), Score(near, matching, s[j]))}

\* What the store may answer, of the fused chunks that are still there.
loadHits(near, matching, there, k) ==
    LET chunks == (ToSet(near) \cup ToSet(matching)) \cap there
    IN {FirstOf(s, k) : s \in UNION {capPerDoc(t) : t \in Sorted(chunks, near, matching)}}
-----------------------------------------------------------------------------
\* A section is the chunk that ranked and the chunks printed for it.
Section(c) == [of |-> c, parts |-> <<c>>]

\* A stitching that does not look whether a neighbour ranked by itself.
stitchAnyNeighbours(hits, there) ==
    LET Beside(c, o) == IF <<c[1], o>> \in there THEN <<<<c[1], o>>>> ELSE <<>>
    IN [i \in DOMAIN hits |->
          LET c == hits[i]
          IN [of |-> c, parts |-> Beside(c, c[2] - 1) \o <<c>> \o Beside(c, c[2] + 1)]]

stitchNeighbours(hits, there) ==
    LET Beside(c, o) == IF <<c[1], o>> \in there \ ToSet(hits) THEN <<<<c[1], o>>>> ELSE <<>>
    IN [i \in DOMAIN hits |->
          LET c == hits[i]
          IN [of |-> c, parts |-> Beside(c, c[2] - 1) \o <<c>> \o Beside(c, c[2] + 1)]]

SectionSize(section) ==
    Total([i \in DOMAIN section.parts |-> Size[section.parts[i]]])
        + Separator * (Len(section.parts) - 1)

contextBudget(window) ==
    LET share == IF contextShare = 0 THEN defaultContextShare ELSE contextShare
    IN ((window * share) \div 100) * perToken

\* A trim that stops once the budget is spent, not before.
trimPastBudget(sections, budget) ==
    LET Read(acc, section) ==
            IF acc.spent > budget THEN acc
            ELSE [spent |-> acc.spent + SectionSize(section), kept |-> acc.kept + 1]
    IN SubSeq(sections, 1, FoldLeft(Read, [spent |-> 0, kept |-> 0], sections).kept)

trimToBudget(sections, budget) ==
    LET Read(acc, section) ==
            LET spent == acc.spent + SectionSize(section)
            IN IF acc.full \/ (acc.kept > 0 /\ spent > budget)
               THEN [acc EXCEPT !.full = TRUE]
               ELSE [spent |-> spent, kept |-> acc.kept + 1, full |-> FALSE]
    IN SubSeq(sections, 1,
              FoldLeft(Read, [spent |-> 0, kept |-> 0, full |-> FALSE], sections).kept)
===============================================================================
