---------------------------- MODULE SplittingProofs ----------------------------
(***************************************************************************)
(* What SplitMarkdown never does, whatever the text: it loses no line, a   *)
(* chunk names its sections, and no chunk is too long or needlessly small. *)
(* Each loop of the splitter is a walk, over what ListProofs has of folds. *)
(***************************************************************************)
EXTENDS Splitting, ListProofs

Paras ==
    {p \in [lines : Seq(Nat \ {0}), table : BOOLEAN, section : Nat] : p.lines # <<>>}

Place == Nat \X Nat

Item == [kind : {"lines", "columns", "tail", "heading"}, of : Nat, lines : Seq(Nat)]

Trail == Seq(Name)

CrumbName == Name \cup {""}

Piece == [items : Seq(Item), size : Int]

ChunkType == [heading : Trail, items : Seq(Item), size : Int]

\* The lines of an item, of a chunk, of a part of a section and of a paragraph.
itemLines == [x \in Item |-> IF x.kind = "lines" THEN LinesOf(x.of, x.lines) ELSE <<>>]

chunkLines == [c \in ChunkType |-> Gathered(itemLines, c.items)]

pieceLines == [c \in Piece |-> Gathered(itemLines, c.items)]

paraLines == [i \in DOMAIN text |-> LinesOf(i, AllLines(i))]

LEMMA LinesOfType ==
    ASSUME NEW i \in Nat, NEW lines \in Seq(Nat)
    PROVE  LinesOf(i, lines) \in Seq(Place) /\ Len(LinesOf(i, lines)) = Len(lines)
<1>1. \A k \in DOMAIN lines : <<i, lines[k]>> \in Place
  BY DEF Place
<1> QED BY <1>1 DEF LinesOf

LEMMA ItemLinesType == itemLines \in [Item -> Seq(Place)]
<1>1. \A x \in Item : LinesOf(x.of, x.lines) \in Seq(Place)
  <2> TAKE x \in Item
  <2>1. x.of \in Nat /\ x.lines \in Seq(Nat)
    BY DEF Item
  <2> QED BY <2>1, LinesOfType
<1> QED BY <1>1 DEF itemLines

LEMMA SizesTyped ==
    /\ maxChars \in Nat /\ minChars \in Nat /\ overlap \in Nat /\ subHeadingSize \in Nat
    /\ overlap < minChars /\ 2 * minChars < maxChars
BY SizesAssumption

\* The lines of a list of one item, and of the empty list.
LEMMA OneItem == ASSUME NEW x \in Item
                 PROVE  Gathered(itemLines, <<x>>) = itemLines[x] /\ Gathered(itemLines, <<>>) = <<>>
<1>1. itemLines \in [Item -> Seq(Place)]
  BY ItemLinesType
<1> QED BY ONLY <1>1, x \in Item, GatheredOne

LEMMA ChunkLinesType == chunkLines \in [ChunkType -> Seq(Place)]
<1>1. \A c \in ChunkType : Gathered(itemLines, c.items) \in Seq(Place)
  <2> TAKE c \in ChunkType
  <2>1. c.items \in Seq(Item)
    BY DEF ChunkType
  <2> QED BY <2>1, ItemLinesType, GatheredType
<1> QED BY <1>1 DEF chunkLines

LEMMA PieceLinesType == pieceLines \in [Piece -> Seq(Place)]
<1>1. \A c \in Piece : Gathered(itemLines, c.items) \in Seq(Place)
  <2> TAKE c \in Piece
  <2>1. c.items \in Seq(Item)
    BY DEF Piece
  <2> QED BY <2>1, ItemLinesType, GatheredType
<1> QED BY <1>1 DEF pieceLines

LEMMA AllLinesType ==
    ASSUME text \in Seq(Paras), NEW i \in DOMAIN text
    PROVE  /\ i \in Nat /\ text[i].lines \in Seq(Nat) /\ text[i].table \in BOOLEAN
           /\ text[i].lines # <<>> /\ \A k \in DOMAIN text[i].lines : text[i].lines[k] > 0
           /\ AllLines(i) \in Seq(Nat) /\ Len(AllLines(i)) = Len(text[i].lines)
           /\ \A k \in 1..Len(text[i].lines) : AllLines(i)[k] = k
<1>1. text[i] \in Paras /\ i \in Nat
  OBVIOUS
<1> DEFINE lines == text[i].lines
<1>a. lines \in Seq(Nat \ {0}) /\ lines # <<>> /\ text[i].table \in BOOLEAN
  BY <1>1 DEF Paras
<1>b. \A k \in DOMAIN lines : lines[k] > 0
  <2> HIDE DEF lines
  <2>1. \A k \in DOMAIN lines : lines[k] \in Nat \ {0}
    BY <1>a
  <2> QED BY <2>1
<1>2. lines \in Seq(Nat) /\ text[i].table \in BOOLEAN
  <2> HIDE DEF lines
  <2>1. Nat \ {0} \subseteq Nat
    OBVIOUS
  <2> QED BY <1>a, <2>1, WiderSeq
<1>3. AllLines(i) = [k \in DOMAIN lines |-> k]
  BY DEF AllLines
<1> HIDE DEF lines
<1>4. DOMAIN lines = 1..Len(lines) /\ Len(lines) \in Nat
  BY <1>2
<1>5. AllLines(i) \in Seq(Nat) /\ Len(AllLines(i)) = Len(lines)
  BY <1>3, <1>4
<1>6. \A k \in 1..Len(lines) : AllLines(i)[k] = k
  BY <1>3, <1>4
<1> QED BY <1>1, <1>2, <1>5, <1>6, <1>a, <1>b DEF lines

LEMMA ParaLinesType ==
    ASSUME text \in Seq(Paras)
    PROVE  paraLines \in [DOMAIN text -> Seq(Place)] /\ paraLines \in Seq(Seq(Place))
<1>1. \A i \in DOMAIN text : LinesOf(i, AllLines(i)) \in Seq(Place)
  BY AllLinesType, LinesOfType
<1>2. DOMAIN text = 1..Len(text) /\ Len(text) \in Nat
  OBVIOUS
<1> QED BY <1>1, <1>2 DEF paraLines

LEMMA LinesInIs ==
    ASSUME NEW c, c.items \in Seq(Item)
    PROVE  LinesIn(c) = Gathered(itemLines, c.items)
<1> DEFINE items == c.items
<1>1. \A k \in DOMAIN items :
          (IF k \in HasLines(c) THEN LinesOf(items[k].of, items[k].lines) ELSE <<>>)
              = itemLines[items[k]]
  BY DEF HasLines, itemLines
<1>2. [k \in DOMAIN items |->
          IF k \in HasLines(c) THEN LinesOf(items[k].of, items[k].lines) ELSE <<>>]
      = Each(itemLines, items)
  BY <1>1 DEF Each
<1> QED BY <1>2 DEF LinesIn, Gathered

-----------------------------------------------------------------------------
(* splitLines: one paragraph, cut between its lines.                       *)

CutType(i) == [parts : Seq(Seq(DOMAIN text[i].lines)), cur : Seq(DOMAIN text[i].lines)]

LEMMA HeaderType ==
    ASSUME text \in Seq(Paras), NEW i \in DOMAIN text
    PROVE  /\ Header(i) \in Seq(Nat) /\ Header(i) \in Seq(DOMAIN text[i].lines)
           /\ \/ Header(i) = <<>> /\ Len(Header(i)) = 0
              \/ Header(i) = <<1, 2>> /\ Len(Header(i)) = 2 /\ Len(text[i].lines) > 2
<1>1. DOMAIN text[i].lines = 1..Len(text[i].lines) /\ Len(text[i].lines) \in Nat
  BY AllLinesType
<1>2. Len(text[i].lines) > 2 => {1, 2} \subseteq DOMAIN text[i].lines
  BY <1>1
<1>3. CASE Header(i) = <<>>
  BY <1>3
<1>4. CASE Header(i) = <<1, 2>> /\ Len(text[i].lines) > 2
  <2> DEFINE D == DOMAIN text[i].lines
  <2>1. 1 \in D /\ 2 \in D
    BY <1>2, <1>4
  <2> HIDE DEF D
  <2>2. <<1, 2>> \in Seq(D) /\ <<1, 2>> \in Seq(Nat) /\ Len(<<1, 2>>) = 2
    BY <2>1
  <2> QED BY <1>4, <2>2 DEF D
<1> QED BY <1>3, <1>4 DEF Header

LEMMA RowsType ==
    ASSUME text \in Seq(Paras), NEW i \in DOMAIN text
    PROVE  /\ Rows(i) \in Seq(DOMAIN text[i].lines) /\ Len(Rows(i)) \in Nat
           /\ Len(Rows(i)) + Len(Header(i)) = Len(text[i].lines)
           /\ \A n \in 1..Len(Rows(i)) :
                  Rows(i)[n] = Len(Header(i)) + n /\ Rows(i)[n] \in DOMAIN text[i].lines
<1> DEFINE all == AllLines(i)
           m == Len(text[i].lines)
           h == Len(Header(i))
<1>1. all \in Seq(Nat) /\ Len(all) = m /\ m \in Nat /\ \A k \in 1..m : all[k] = k
  BY AllLinesType
<1>2. h \in 0..m
  <2>1. h = 0 \/ (h = 2 /\ m > 2)
    BY HeaderType
  <2> HIDE DEF h, m
  <2> QED BY <1>1, <2>1
<1>3. Rows(i) = SubSeq(all, h + 1, m)
  BY DEF Rows
<1>a. DOMAIN text[i].lines = 1..m
  BY AllLinesType
<1> HIDE DEF all, m, h
<1>b. Len(SubSeq(all, h + 1, m)) = m - h
  BY <1>1, <1>2
<1>5. \A n \in 1..m - h : SubSeq(all, h + 1, m)[n] = h + n /\ h + n \in 1..m
  BY <1>1, <1>2
<1>4. SubSeq(all, h + 1, m) \in Seq(1..m)
  BY <1>1, <1>2, <1>5
<1>6. Len(Rows(i)) = m - h /\ m - h \in Nat /\ (m - h) + h = m
  BY <1>1, <1>2, <1>3, <1>b
<1> QED BY <1>a, <1>3, <1>4, <1>5, <1>6, <1>b DEF m, h

LEMMA PutType ==
    ASSUME NEW i, text \in Seq(Paras), i \in DOMAIN text,
           NEW cut \in CutType(i), NEW line \in DOMAIN text[i].lines
    PROVE  Put(i, cut, line) \in CutType(i)
<1> DEFINE D == DOMAIN text[i].lines
<1>1. Header(i) \in Seq(D) /\ cut.parts \in Seq(Seq(D)) /\ cut.cur \in Seq(D) /\ line \in D
  BY HeaderType DEF CutType
<1>2. /\ Append(cut.parts, cut.cur) \in Seq(Seq(D))
      /\ Append(Header(i), line) \in Seq(D) /\ Append(cut.cur, line) \in Seq(D)
  <2> HIDE DEF D
  <2> QED BY <1>1
<1> QED BY <1>1, <1>2 DEF Put, CutType

NothingCut(i) == [parts |-> <<>>, cur |-> Header(i)]

\* What has been cut after each row.
Cutting(r, i) ==
    /\ r \in [0..Len(Rows(i)) -> CutType(i)] /\ r[0] = NothingCut(i)
    /\ \A n \in 1..Len(Rows(i)) : r[n] = Put(i, r[n - 1], Rows(i)[n])

CutFrom(i, cut) ==
    IF Len(cut.cur) > Len(Header(i)) THEN Append(cut.parts, cut.cur) ELSE cut.parts

LEMMA CutUnfolds ==
    ASSUME text \in Seq(Paras), NEW i \in DOMAIN text
    PROVE  \E r : Cutting(r, i) /\ Cut(i) = CutFrom(i, r[Len(Rows(i))])
<1> DEFINE rows == Rows(i)
           L == Len(rows)
           A == CutType(i)
           base == NothingCut(i)
           F(it) == [s \in SUBSET (1..L) |->
                        IF s = {} THEN base ELSE Put(i, it[s \ {Max(s)}], rows[Max(s)])]
           step == [n \in 1..L |-> [acc \in A |-> Put(i, acc, rows[n])]]
<1>1. rows \in Seq(DOMAIN text[i].lines) /\ DOMAIN rows = 1..L /\ L \in Nat
  BY RowsType
<1>b. base \in A
  BY HeaderType DEF NothingCut, CutType
<1>c. \A n \in 1..L, acc \in A : Put(i, acc, rows[n]) \in A
  BY <1>1, PutType
<1>2. Cut(i) = CutFrom(i, (CHOOSE it : it = F(it))[1..L])
  BY <1>1 DEF Cut, FoldLeft, MapThenFoldSet, CutFrom, NothingCut
<1> HIDE DEF L, A, base, rows
<1>3. step \in [1..L -> [A -> A]]
  BY <1>c
<1>4. PICK g \in [SUBSET (1..L) -> A] :
          IsFold(g, 1..L, base, [s \in SUBSET (1..L) |-> Max(s)], step)
  <2> HIDE DEF step
  <2> QED BY <1>1, <1>3, <1>b, LeftFold
<1>5. g = F(g)
  <2>1. ASSUME NEW s \in SUBSET (1..L), s # {}
        PROVE  g[s] = Put(i, g[s \ {Max(s)}], rows[Max(s)])
    <3>1. Max(s) \in 1..L /\ g[s \ {Max(s)}] \in A
      BY <1>1, <2>1, LastPlace
    <3>2. g[s] = step[Max(s)][g[s \ {Max(s)}]]
      BY <1>4, <2>1 DEF IsFold
    <3> QED BY <3>1, <3>2
  <2>2. \A s \in SUBSET (1..L) :
            g[s] = IF s = {} THEN base ELSE Put(i, g[s \ {Max(s)}], rows[Max(s)])
    BY <1>4, <2>1 DEF IsFold
  <2> QED BY <2>2
<1> DEFINE h == CHOOSE it : it = F(it)
<1>6. h = F(h)
  <2> HIDE DEF F
  <2> QED BY <1>5
<1>7. h[{}] = base
  BY <1>6
<1>8. ASSUME NEW s \in SUBSET (1..L), s # {}, h[s \ {Max(s)}] \in A
      PROVE  h[s] = step[Max(s)][h[s \ {Max(s)}]]
  <2>1. Max(s) \in 1..L
    BY <1>1, <1>8, LastPlace
  <2>2. h[s] = Put(i, h[s \ {Max(s)}], rows[Max(s)])
    BY <1>6, <1>8
  <2> QED BY <1>8, <2>1, <2>2
<1>9. \A n \in 1..L, acc \in A : step[n][acc] = Put(i, acc, rows[n])
  OBVIOUS
<1> HIDE DEF h, step
<1>10. FoldsLeft(h, L, A, base, step)
  BY <1>7, <1>8 DEF FoldsLeft
<1>11. PICK r \in [0..L -> A] : r[L] = h[1..L] /\ IsWalk(r, L, base, step)
  BY <1>1, <1>3, <1>b, <1>10, LeftWalk
<1>12. \A n \in 1..L : r[n - 1] \in A
  BY <1>1
<1>13. \A n \in 1..L : r[n] = Put(i, r[n - 1], rows[n])
  BY <1>9, <1>11, <1>12 DEF IsWalk
<1>14. r[0] = base /\ Cut(i) = CutFrom(i, r[L])
  BY <1>2, <1>11 DEF IsWalk, h
<1> QED BY <1>13, <1>14 DEF L, A, base, rows, Cutting

\* The length of pieces joined, piece after piece.
LEMMA JoinedAppended ==
    ASSUME NEW sizes \in Seq(Nat), NEW x \in Nat, NEW separator \in Nat
    PROVE  /\ Joined(sizes, separator) \in Nat
           /\ \A k \in DOMAIN sizes : sizes[k] <= Joined(sizes, separator)
           /\ sizes = <<>> => Joined(Append(sizes, x), separator) = x
           /\ sizes # <<>> => Joined(Append(sizes, x), separator)
                                  = Joined(sizes, separator) + separator + x
<1> DEFINE n == Len(sizes)
           more == Append(sizes, x)
           t == Total(sizes)
<1>1. n \in Nat /\ (sizes = <<>> <=> n = 0) /\ more # <<>> /\ Len(more) = n + 1
  OBVIOUS
<1>2. t \in Nat /\ \A k \in DOMAIN sizes : sizes[k] <= t
  BY TotalOfNats
<1>3. Total(more) = t + x
  <2>1. sizes \in Seq(Int) /\ x \in Int
    OBVIOUS
  <2> QED BY <2>1, TotalAppended
<1>4. Joined(more, separator) = t + x + separator * n
  <2>1. (n + 1) - 1 = n
    BY <1>1
  <2> HIDE DEF more, n, t
  <2> QED BY <1>1, <1>3, <2>1 DEF Joined
<1>5. sizes = <<>> => t = 0 /\ Joined(sizes, separator) = 0
  <2> SUFFICES ASSUME sizes = <<>> PROVE t = 0
    BY DEF Joined
  <2>1. sizes \in Seq(Int) /\ Len(sizes) = 0
    OBVIOUS
  <2>2. PICK p : Sums(p, sizes) /\ t = p[0]
    BY <2>1, TotalUnfolds
  <2> QED BY <2>2 DEF Sums
<1>6. sizes # <<>> => Joined(sizes, separator) = t + separator * (n - 1)
  BY DEF Joined
<1> HIDE DEF n, more, t
<1>7. CASE sizes = <<>>
  <2>1. n = 0 /\ separator * 0 = 0
    BY <1>1, <1>7
  <2>2. Joined(more, separator) = x
    BY <1>2, <1>4, <1>5, <1>7, <2>1
  <2> QED BY <1>2, <1>5, <1>7, <2>2 DEF more
<1>8. CASE sizes # <<>>
  <2>1. n \in Nat /\ n > 0 /\ n - 1 \in Nat
    BY <1>1, <1>8
  <2> DEFINE a == separator * (n - 1)
             b == separator * n
  <2>2. a \in Nat /\ b = a + separator
    BY <2>1
  <2>3. Joined(sizes, separator) = t + a /\ Joined(more, separator) = t + x + b
    BY <1>4, <1>6, <1>8
  <2> HIDE DEF a, b
  <2>4. Joined(sizes, separator) \in Nat /\ \A k \in DOMAIN sizes : sizes[k] <= t + a
    <3>1. \A k \in DOMAIN sizes : sizes[k] \in Nat
      OBVIOUS
    <3> QED BY <1>2, <2>2, <2>3, <3>1
  <2>5. Joined(more, separator) = Joined(sizes, separator) + separator + x
    BY <1>2, <2>2, <2>3
  <2> QED BY <1>8, <2>3, <2>4, <2>5 DEF more
<1> QED BY <1>7, <1>8

LEMMA LinesSizeAppended ==
    ASSUME text \in Seq(Paras), NEW i \in DOMAIN text,
           NEW p \in Seq(DOMAIN text[i].lines), NEW x \in DOMAIN text[i].lines
    PROVE  /\ LinesSize(i, p) \in Nat /\ text[i].lines[x] \in Nat
           /\ p = <<>> => LinesSize(i, Append(p, x)) = text[i].lines[x]
           /\ p # <<>> => LinesSize(i, Append(p, x)) = LinesSize(i, p) + 1 + text[i].lines[x]
<1> DEFINE lines == text[i].lines
           sizes == [k \in DOMAIN p |-> lines[p[k]]]
           more == [k \in DOMAIN Append(p, x) |-> lines[Append(p, x)[k]]]
<1>0. lines \in Seq(Nat)
  BY AllLinesType
<1> HIDE DEF lines
<1>1. lines \in Seq(Nat) /\ \A k \in DOMAIN lines : lines[k] \in Nat
  BY <1>0
<1>2. p \in Seq(DOMAIN lines) /\ x \in DOMAIN lines
  BY DEF lines
<1>3. sizes \in Seq(Nat) /\ (sizes = <<>> <=> p = <<>>) /\ lines[x] \in Nat
  <2>1. DOMAIN p = 1..Len(p) /\ Len(p) \in Nat /\ \A k \in DOMAIN p : p[k] \in DOMAIN lines
    BY ONLY <1>2
  <2>2. sizes \in [1..Len(p) -> Nat]
    BY ONLY <1>1, <2>1
  <2>3. sizes \in Seq(Nat) /\ Len(sizes) = Len(p)
    BY ONLY <2>1, <2>2
  <2>4. sizes = <<>> <=> p = <<>>
    BY ONLY <1>2, <2>3
  <2> QED BY ONLY <1>1, <1>2, <2>3, <2>4
<1>4. more = Append(sizes, lines[x])
  <2> DEFINE q == Append(p, x)
             n == Len(p)
             a == [k \in DOMAIN q |-> lines[q[k]]]
             b == Append(sizes, lines[x])
  <2>1. /\ n \in Nat /\ q \in Seq(DOMAIN lines) /\ Len(q) = n + 1 /\ DOMAIN q = 1..n + 1
        /\ q[n + 1] = x /\ \A k \in 1..n : q[k] = p[k]
        /\ DOMAIN p = 1..n
    BY <1>2
  <2> HIDE DEF q
  <2>2. a \in Seq(Nat) /\ Len(a) = n + 1 /\ \A k \in 1..n + 1 : a[k] = lines[q[k]]
    BY <1>1, <2>1
  <2>3. Len(sizes) = n /\ \A k \in 1..n : sizes[k] = lines[p[k]]
    <3> HIDE DEF n
    <3>1. sizes = [k \in 1..n |-> lines[p[k]]]
      BY <2>1
    <3> QED BY <1>3, <2>1, <3>1
  <2>4. /\ b \in Seq(Nat) /\ Len(b) = n + 1 /\ b[n + 1] = lines[x]
        /\ \A k \in 1..n : b[k] = sizes[k]
    BY <1>3, <2>1, <2>3
  <2> HIDE DEF a, b, sizes, n
  <2>5. \A k \in 1..n + 1 : a[k] = b[k]
    <3> TAKE k \in 1..n + 1
    <3>1. CASE k = n + 1
      BY <2>1, <2>2, <2>4, <3>1
    <3>2. CASE k # n + 1
      <4>1. k \in 1..n
        BY <2>1, <3>2
      <4> QED BY <2>1, <2>2, <2>3, <2>4, <4>1
    <3> QED BY <3>1, <3>2
  <2>6. a = b
    BY ONLY <2>2, <2>4, <2>5, SeqEqual
  <2> QED BY <2>6 DEF a, b, q, more
<1>5. LinesSize(i, p) = Joined(sizes, 1) /\ LinesSize(i, Append(p, x)) = Joined(more, 1)
  BY DEF LinesSize, lines
<1> HIDE DEF sizes, more
<1> DEFINE y == lines[x]
<1>6. y \in Nat /\ more = Append(sizes, y)
  BY <1>3, <1>4
<1> HIDE DEF y
<1>7. /\ Joined(sizes, 1) \in Nat
      /\ sizes = <<>> => Joined(Append(sizes, y), 1) = y
      /\ sizes # <<>> => Joined(Append(sizes, y), 1) = Joined(sizes, 1) + 1 + y
  <2>1. 1 \in Nat /\ sizes \in Seq(Nat)
    BY <1>3
  <2> QED BY ONLY <1>6, <2>1, JoinedAppended
<1> QED BY <1>3, <1>5, <1>6, <1>7 DEF y, lines

\* A part begins with the header, and is short or has one line of its own.
BeginsAlike(i, p) ==
    Len(p) >= Len(Header(i)) /\ \A k \in 1..Len(Header(i)) : p[k] = Header(i)[k]

IsPart(i, p) ==
    /\ BeginsAlike(i, p)
    /\ \A k \in DOMAIN p : k > Len(Header(i)) => p[k] > Len(Header(i))
    /\ LinesSize(i, p) <= maxChars \/ Len(p) <= Len(Header(i)) + 1

\* The lines of a part below its header.
below(i) ==
    [p \in Seq(DOMAIN text[i].lines) |-> LinesOf(i, SubSeq(p, Len(Header(i)) + 1, Len(p)))]

CutLines(i, cut) == Gathered(below(i), cut.parts) \o below(i)[cut.cur]

RowPlaces(i, n) == [k \in 1..n |-> <<i, Len(Header(i)) + k>>]

\* What splitLines has made of the first rows.
CutTo(i, cut, n) ==
    /\ \A p \in ToSet(cut.parts) : IsPart(i, p) /\ Len(p) > Len(Header(i))
    /\ IsPart(i, cut.cur) /\ (n > 0 => Len(cut.cur) > Len(Header(i)))
    /\ n = 0 => cut = NothingCut(i)
    /\ CutLines(i, cut) = RowPlaces(i, n)

LEMMA BelowType ==
    ASSUME text \in Seq(Paras), NEW i \in DOMAIN text
    PROVE  below(i) \in [Seq(DOMAIN text[i].lines) -> Seq(Place)]
<1> DEFINE D == DOMAIN text[i].lines
           h == Len(Header(i))
<1>1. D \subseteq Nat /\ h \in Nat /\ i \in Nat
  BY AllLinesType, HeaderType
<1> HIDE DEF D, h
<1>2. \A p \in Seq(D) : LinesOf(i, SubSeq(p, h + 1, Len(p))) \in Seq(Place)
  <2> TAKE p \in Seq(D)
  <2> DEFINE q == SubSeq(p, h + 1, Len(p))
  <2>1. q \in Seq(D)
    BY <1>1
  <2>2. q \in Seq(Nat)
    <3> HIDE DEF q
    <3> QED BY <1>1, <2>1, WiderSeq
  <2> HIDE DEF q
  <2>3. LinesOf(i, q) \in Seq(Place)
    BY <1>1, <2>2, LinesOfType
  <2> QED BY <2>3 DEF q
<1> QED BY <1>2 DEF below, D, h

\* A line more below the header.
LEMMA BelowAppended ==
    ASSUME text \in Seq(Paras), NEW i \in DOMAIN text,
           NEW p \in Seq(DOMAIN text[i].lines), BeginsAlike(i, p),
           NEW x \in DOMAIN text[i].lines
    PROVE  /\ BeginsAlike(i, Append(p, x))
           /\ below(i)[Append(p, x)] = Append(below(i)[p], <<i, x>>)
<1> DEFINE D == DOMAIN text[i].lines
           h == Len(Header(i))
           n == Len(p)
           q == Append(p, x)
           a == SubSeq(p, h + 1, n)
           b == SubSeq(q, h + 1, n + 1)
<1>1. D \subseteq Nat /\ h \in Nat /\ i \in Nat /\ n \in Nat /\ x \in D /\ p \in Seq(D)
  BY AllLinesType, HeaderType
<1>2. n >= h /\ \A k \in 1..h : p[k] = Header(i)[k]
  BY DEF BeginsAlike
<1> HIDE DEF D, h
<1>3. q \in Seq(D) /\ Len(q) = n + 1 /\ q[n + 1] = x /\ \A k \in 1..n : q[k] = p[k]
  BY <1>1
<1>4. BeginsAlike(i, q)
  <2>1. \A k \in 1..h : k \in 1..n
    BY <1>1, <1>2
  <2>2. Len(q) >= h
    BY <1>1, <1>2, <1>3
  <2> HIDE DEF q
  <2>3. \A k \in 1..h : q[k] = Header(i)[k]
    BY <1>2, <1>3, <2>1
  <2> QED BY <2>2, <2>3 DEF BeginsAlike, h
<1> HIDE DEF q, n
<1>5. a \in Seq(D) /\ Len(a) = n - h /\ \A k \in 1..n - h : a[k] = p[h + k]
  BY <1>1, <1>2 DEF n
<1>6. b \in Seq(D) /\ Len(b) = n + 1 - h /\ \A k \in 1..n + 1 - h : b[k] = q[h + k]
  BY <1>1, <1>2, <1>3
<1> HIDE DEF a, b
<1> DEFINE m == n - h
           u == LinesOf(i, b)
           v == Append(LinesOf(i, a), <<i, x>>)
<1>7. m \in Nat /\ n + 1 - h = m + 1 /\ h + (m + 1) = n + 1
  BY <1>1, <1>2
<1>8. LinesOf(i, a) \in Seq(Place) /\ Len(LinesOf(i, a)) = m
      /\ \A k \in 1..m : LinesOf(i, a)[k] = <<i, p[h + k]>>
  <2>1. a \in Seq(Nat) /\ DOMAIN a = 1..m
    <3>1. a \in Seq(Nat)
      BY <1>1, <1>5, WiderSeq
    <3> HIDE DEF m
    <3> QED BY <1>7, <3>1, <1>5 DEF m
  <2> QED BY <1>1, <1>5, <2>1, LinesOfType DEF LinesOf
<1>9. u \in Seq(Place) /\ Len(u) = m + 1 /\ \A k \in 1..m + 1 : u[k] = <<i, q[h + k]>>
  <2>1. b \in Seq(Nat) /\ DOMAIN b = 1..m + 1 /\ Len(b) = m + 1
    <3>1. b \in Seq(Nat)
      BY <1>1, <1>6, WiderSeq
    <3>2. Len(b) = m + 1
      BY <1>6, <1>7
    <3> HIDE DEF m
    <3> QED BY <1>7, <3>1, <3>2
  <2>2. \A k \in 1..m + 1 : b[k] = q[h + k]
    BY <1>6, <1>7
  <2> QED BY <1>1, <2>1, <2>2, LinesOfType DEF LinesOf
<1>10. /\ v \in Seq(Place) /\ Len(v) = m + 1 /\ v[m + 1] = <<i, x>>
       /\ \A k \in 1..m : v[k] = <<i, p[h + k]>>
  <2> DEFINE w == LinesOf(i, a)
             y == <<i, x>>
  <2>1. y \in Place /\ w \in Seq(Place) /\ Len(w) = m
    BY <1>1, <1>8 DEF Place
  <2> HIDE DEF w, y, m
  <2>2. /\ Append(w, y) \in Seq(Place) /\ Len(Append(w, y)) = m + 1 /\ Append(w, y)[m + 1] = y
        /\ \A k \in 1..m : Append(w, y)[k] = w[k]
    BY <1>7, <2>1
  <2> QED BY <1>8, <2>2 DEF w, y
<1> HIDE DEF u, v, m
<1>11. \A k \in 1..m + 1 : u[k] = v[k]
  <2> TAKE k \in 1..m + 1
  <2>1. CASE k = m + 1
    <3>1. u[k] = <<i, q[h + k]>> /\ h + k = n + 1
      BY <1>7, <1>9, <2>1
    <3> QED BY <1>3, <1>10, <2>1, <3>1
  <2>2. CASE k # m + 1
    <3>1. k \in 1..m /\ h + k \in 1..n
      BY <1>1, <1>7, <2>2
    <3> QED BY <1>3, <1>9, <1>10, <3>1
  <2> QED BY <2>1, <2>2
<1>12. u = v
  BY ONLY <1>9, <1>10, <1>11, SeqEqual
<1>13. below(i)[p] = LinesOf(i, a) /\ below(i)[q] = LinesOf(i, b)
  BY <1>1, <1>3 DEF below, a, b, D, h, n
<1> QED BY <1>4, <1>12, <1>13 DEF u, v, q

LEMMA BelowHeader ==
    ASSUME text \in Seq(Paras), NEW i \in DOMAIN text
    PROVE  BeginsAlike(i, Header(i)) /\ below(i)[Header(i)] = <<>>
<1> DEFINE H == Header(i)
           D == DOMAIN text[i].lines
<1>1. H \in Seq(D) /\ Len(H) \in Nat
  BY HeaderType
<1>2. BeginsAlike(i, H)
  BY <1>1 DEF BeginsAlike
<1>3. below(i)[H] = LinesOf(i, SubSeq(H, Len(H) + 1, Len(H)))
  BY <1>1 DEF below
<1> HIDE DEF H, D
<1>4. SubSeq(H, Len(H) + 1, Len(H)) = <<>>
  BY <1>1
<1>5. below(i)[H] = <<>>
  BY <1>3, <1>4 DEF LinesOf
<1> QED BY <1>2, <1>5 DEF H

\* A row more, for whatever has been cut before it.
LEMMA RowPlacesAppended ==
    ASSUME text \in Seq(Paras), NEW i \in DOMAIN text, NEW n \in Nat, n > 0
    PROVE  /\ RowPlaces(i, n - 1) \in Seq(Place) /\ RowPlaces(i, n) \in Seq(Place)
           /\ Append(RowPlaces(i, n - 1), <<i, Len(Header(i)) + n>>) = RowPlaces(i, n)
<1> DEFINE h == Len(Header(i))
           a == RowPlaces(i, n - 1)
           b == RowPlaces(i, n)
           y == <<i, h + n>>
           c == Append(a, y)
<1>1. h \in Nat /\ i \in Nat
  BY HeaderType, AllLinesType
<1> HIDE DEF h
<1>2. \A k \in Nat : <<i, h + k>> \in Place
  BY <1>1 DEF Place
<1>3. a \in Seq(Place) /\ Len(a) = n - 1 /\ \A k \in 1..n - 1 : a[k] = <<i, h + k>>
  BY <1>2 DEF RowPlaces, h
<1>4. b \in Seq(Place) /\ Len(b) = n /\ \A k \in 1..n : b[k] = <<i, h + k>>
  BY <1>2 DEF RowPlaces, h
<1>5. y \in Place
  BY <1>2
<1> HIDE DEF a, b, y
<1>6. c \in Seq(Place) /\ Len(c) = n /\ c[n] = y /\ \A k \in 1..n - 1 : c[k] = a[k]
  BY <1>3, <1>5
<1> HIDE DEF c
<1>7. \A k \in 1..n : c[k] = b[k]
  <2> TAKE k \in 1..n
  <2>1. CASE k = n
    BY <1>4, <1>6, <2>1 DEF y
  <2>2. CASE k # n
    <3>1. k \in 1..n - 1
      BY <2>2
    <3> QED BY <1>3, <1>4, <1>6, <3>1
  <2> QED BY <2>1, <2>2
<1>8. c = b
  BY ONLY <1>4, <1>6, <1>7, SeqEqual
<1> QED BY <1>3, <1>4, <1>8 DEF a, b, c, y, h

LEMMA CutToNext ==
    ASSUME text \in Seq(Paras), NEW i \in DOMAIN text, NEW cut \in CutType(i),
           NEW n \in 1..Len(Rows(i)), CutTo(i, cut, n - 1)
    PROVE  CutTo(i, Put(i, cut, Rows(i)[n]), n)
<1> DEFINE D == DOMAIN text[i].lines
           H == Header(i)
           h == Len(H)
           x == Rows(i)[n]
           y == <<i, x>>
           parts == cut.parts
           cur == cut.cur
           next == Put(i, cut, x)
           G == Gathered(below(i), parts)
           B == below(i)[cur]
<1>1. /\ n \in Nat /\ n > 0 /\ h \in Nat /\ i \in Nat /\ H \in Seq(D)
      /\ x = h + n /\ x \in D /\ y \in Place
  <2>1. n \in Nat /\ n > 0
    BY RowsType
  <2>2. i \in Nat /\ D \subseteq Nat
    BY AllLinesType
  <2>3. h \in Nat /\ H \in Seq(D)
    BY HeaderType
  <2>4. x = h + n /\ x \in D
    BY RowsType
  <2>5. y \in Place
    BY <2>2, <2>4 DEF Place
  <2> QED BY <2>1, <2>2, <2>3, <2>4, <2>5
<1>2. parts \in Seq(Seq(D)) /\ cur \in Seq(D)
  BY DEF CutType
<1>3. below(i) \in [Seq(D) -> Seq(Place)]
  BY BelowType
<1>4. /\ \A p \in ToSet(parts) : IsPart(i, p) /\ Len(p) > h
      /\ IsPart(i, cur) /\ BeginsAlike(i, cur)
      /\ n - 1 = 0 => cut = NothingCut(i)
      /\ G \o B = RowPlaces(i, n - 1)
  BY DEF CutTo, CutLines, IsPart
<1>5. G \in Seq(Place) /\ B \in Seq(Place)
  BY <1>2, <1>3, GatheredType
<1>6. BeginsAlike(i, H) /\ below(i)[H] = <<>>
  BY BelowHeader
<1>7. next = IF LinesSize(i, cur) + 1 + text[i].lines[x] > maxChars /\ Len(cur) > h
             THEN [parts |-> Append(parts, cur), cur |-> Append(H, x)]
             ELSE [parts |-> parts, cur |-> Append(cur, x)]
  BY DEF Put
<1>8. Append(RowPlaces(i, n - 1), y) = RowPlaces(i, n)
  BY <1>1, RowPlacesAppended
<1> HIDE DEF x
<1>9. below(i)[Append(H, x)] = Append(<<>>, y) /\ BeginsAlike(i, Append(H, x))
  <2>1. H \in Seq(D) /\ x \in D
    BY <1>1
  <2> QED BY <1>6, <2>1, BelowAppended
<1>10. below(i)[Append(cur, x)] = Append(B, y) /\ BeginsAlike(i, Append(cur, x))
  BY <1>1, <1>2, <1>4, BelowAppended
<1>11. Len(Append(H, x)) = h + 1 /\ Len(Append(cur, x)) = Len(cur) + 1 /\ Len(cur) \in Nat
       /\ Len(cur) >= h
  BY <1>1, <1>2, <1>4 DEF BeginsAlike
<1> HIDE DEF G, B, y, next
<1>a. \A k \in DOMAIN Append(H, x) : k > h => Append(H, x)[k] > h
  <2> SUFFICES ASSUME NEW k \in DOMAIN Append(H, x), k > h PROVE Append(H, x)[k] > h
    OBVIOUS
  <2>1. k = h + 1 /\ Append(H, x)[h + 1] = x
    BY <1>1
  <2> QED BY <1>1, <2>1
<1>b. \A k \in DOMAIN Append(cur, x) : k > h => Append(cur, x)[k] > h
  <2> SUFFICES ASSUME NEW k \in DOMAIN Append(cur, x), k > h PROVE Append(cur, x)[k] > h
    OBVIOUS
  <2> HIDE DEF cur, h
  <2>1. CASE k \in DOMAIN cur
    <3>1. cur[k] > h
      BY <1>4, <2>1 DEF IsPart, h
    <3> QED BY <1>2, <2>1, <3>1
  <2>2. CASE k \notin DOMAIN cur
    <3>1. k = Len(cur) + 1 /\ Append(cur, x)[k] = x
      BY <1>2, <2>2
    <3> QED BY <1>1, <3>1
  <2> QED BY <2>1, <2>2
<1>12. CASE LinesSize(i, cur) + 1 + text[i].lines[x] > maxChars /\ Len(cur) > h
  <2>1. next.parts = Append(parts, cur) /\ next.cur = Append(H, x) /\ next # NothingCut(i)
    <3>1. Append(H, x) # H
      BY <1>1, <1>11
    <3> QED BY <1>7, <1>12, <3>1 DEF NothingCut
  <2>2. ToSet(Append(parts, cur)) = ToSet(parts) \cup {cur}
    <3> HIDE DEF D, parts, cur
    <3> QED BY <1>2, ToSetOfAppend
  <2>3. \A p \in ToSet(next.parts) : IsPart(i, p) /\ Len(p) > h
    BY <1>4, <1>12, <2>1, <2>2
  <2>4. IsPart(i, next.cur) /\ Len(next.cur) > h
    <3>1. Len(Append(H, x)) <= h + 1 /\ Len(Append(H, x)) > h
      BY <1>1, <1>11
    <3> QED BY <1>9, <1>a, <2>1, <3>1 DEF IsPart
  <2>5. Gathered(below(i), next.parts) = G \o B
    <3>1. Gathered(below(i), Append(parts, cur)) = Gathered(below(i), parts) \o below(i)[cur]
      <4> HIDE DEF D, parts, cur
      <4> QED BY ONLY <1>2, <1>3, GatheredAppended
    <3> QED BY <2>1, <3>1 DEF G, B
  <2>6. CutLines(i, next) = RowPlaces(i, n - 1) \o <<y>>
    <3> DEFINE g == Gathered(below(i), next.parts)
    <3>1. below(i)[next.cur] = <<y>>
      BY <1>9, <2>1
    <3>2. CutLines(i, next) = g \o <<y>>
      BY <3>1 DEF CutLines
    <3>3. g = RowPlaces(i, n - 1)
      BY <1>4, <2>5
    <3> HIDE DEF g
    <3> QED BY <3>2, <3>3
  <2>7. RowPlaces(i, n - 1) \o <<y>> = RowPlaces(i, n)
    <3>1. RowPlaces(i, n - 1) \in Seq(Place)
      BY <1>1, RowPlacesAppended
    <3>2. Append(RowPlaces(i, n - 1), y) = RowPlaces(i, n - 1) \o <<y>>
      BY <1>1, <3>1, AppendIsConcat
    <3> QED BY <1>8, <3>2
  <2>8. CutLines(i, next) = RowPlaces(i, n)
    BY <2>6, <2>7
  <2>9. CutTo(i, next, n)
    BY <1>1, <2>3, <2>4, <2>8 DEF CutTo
  <2> QED BY <2>9 DEF next, x
<1>13. CASE ~ (LinesSize(i, cur) + 1 + text[i].lines[x] > maxChars /\ Len(cur) > h)
  <2>1. next.parts = parts /\ next.cur = Append(cur, x)
    BY <1>7, <1>13
  <2>2. IsPart(i, next.cur) /\ Len(next.cur) > h
    <3>1. Len(Append(cur, x)) > h
      BY <1>1, <1>11
    <3>2. Len(Append(cur, x)) <= h + 1 \/ LinesSize(i, Append(cur, x)) <= maxChars
      <4>1. CASE Len(cur) > h
        <5>1. cur # <<>>
          BY <1>1, <4>1
        <5>2. /\ LinesSize(i, cur) \in Nat /\ text[i].lines[x] \in Nat
              /\ LinesSize(i, Append(cur, x)) = LinesSize(i, cur) + 1 + text[i].lines[x]
          <6> HIDE DEF cur
          <6> QED BY <1>1, <1>2, <5>1, LinesSizeAppended
        <5>3. maxChars \in Nat
          BY SizesAssumption
        <5> QED BY <1>13, <4>1, <5>2, <5>3
      <4>2. CASE ~ (Len(cur) > h)
        BY <1>1, <1>11, <4>2
      <4> QED BY <4>1, <4>2
    <3> QED BY <1>10, <1>b, <2>1, <3>1, <3>2 DEF IsPart
  <2>3. CutLines(i, next) = RowPlaces(i, n)
    <3>1. CutLines(i, next) = G \o Append(B, y)
      BY <1>10, <2>1 DEF CutLines, G
    <3>2. AppendsToSecond(G, B, y)
      BY <1>1, <1>5, AppendJoined
    <3> QED BY <1>4, <1>8, <3>1, <3>2 DEF AppendsToSecond
  <2>4. \A p \in ToSet(next.parts) : IsPart(i, p) /\ Len(p) > h
    BY <1>4, <2>1
  <2>5. CutTo(i, next, n)
    BY <1>1, <2>2, <2>3, <2>4 DEF CutTo
  <2> QED BY <2>5 DEF next, x
<1> QED BY <1>12, <1>13

\* What splitLines has made in the end.
LEMMA CutWhole ==
    ASSUME text \in Seq(Paras), NEW i \in DOMAIN text
    PROVE  /\ Cut(i) \in Seq(Seq(DOMAIN text[i].lines))
           /\ \A p \in ToSet(Cut(i)) : IsPart(i, p) /\ Len(p) > Len(Header(i))
           /\ Gathered(below(i), Cut(i)) = RowPlaces(i, Len(Rows(i)))
           /\ Cut(i) = <<>> => text[i].lines = <<>>
<1> DEFINE L == Len(Rows(i))
           D == DOMAIN text[i].lines
           h == Len(Header(i))
<1>1. PICK r : Cutting(r, i) /\ Cut(i) = CutFrom(i, r[L])
  BY CutUnfolds
<1>2. /\ L \in Nat /\ L + h = Len(text[i].lines) /\ h \in Nat
      /\ r \in [0..L -> CutType(i)] /\ r[0] = NothingCut(i)
  BY <1>1, RowsType, HeaderType DEF Cutting
<1>3. CutTo(i, NothingCut(i), 0)
  <2> DEFINE none == NothingCut(i)
  <2>1. none.parts = <<>> /\ none.cur = Header(i)
    BY DEF NothingCut
  <2>2. ToSet(<<>>) = {}
    BY DEF ToSet
  <2>3. IsPart(i, Header(i))
    <3>1. Len(Header(i)) <= Len(Header(i)) + 1
      BY <1>2
    <3>2. \A k \in DOMAIN Header(i) : ~ (k > Len(Header(i)))
      BY HeaderType
    <3> QED BY <3>1, <3>2, BelowHeader DEF IsPart
  <2>4. Gathered(below(i), <<>>) = <<>>
    <3>1. Header(i) \in Seq(D) /\ below(i) \in [Seq(D) -> Seq(Place)]
      BY HeaderType, BelowType
    <3> HIDE DEF D
    <3> QED BY <3>1, GatheredOne
  <2>5. CutLines(i, none) = RowPlaces(i, 0)
    <3>1. CutLines(i, none) = <<>> \o <<>>
      BY <2>1, <2>4, BelowHeader DEF CutLines
    <3>2. RowPlaces(i, 0) = <<>>
      BY DEF RowPlaces
    <3> QED BY <3>1, <3>2
  <2> HIDE DEF none
  <2>6. CutTo(i, none, 0)
    BY <2>1, <2>2, <2>3, <2>5 DEF CutTo, none
  <2> QED BY <2>6 DEF none
<1> DEFINE T == {n \in Nat : n <= L => CutTo(i, r[n], n)}
<1>4. 0 \in T
  BY <1>2, <1>3
<1>5. ASSUME NEW n \in 1..L, n - 1 \in T PROVE n \in T
  <2>1. n \in Nat /\ n - 1 \in 0..L /\ n - 1 <= L
    BY <1>2
  <2>2. CutTo(i, r[n - 1], n - 1) /\ r[n - 1] \in CutType(i)
    BY <1>2, <1>5, <2>1
  <2>3. r[n] = Put(i, r[n - 1], Rows(i)[n])
    BY <1>1 DEF Cutting
  <2>4. CutTo(i, r[n], n)
    BY <2>2, <2>3, CutToNext
  <2> QED BY <2>1, <2>4
<1> HIDE DEF T
<1>6. \A n \in 0..L : n \in T
  BY <1>2, <1>4, <1>5, SetInductionUpTo
<1>7. L \in 0..L /\ L <= L
  BY <1>2
<1> DEFINE cut == r[L]
           parts == cut.parts
           cur == cut.cur
<1>8. CutTo(i, cut, L) /\ cut \in CutType(i)
  BY <1>2, <1>6, <1>7 DEF T
<1> HIDE DEF cut, L
<1>9. parts \in Seq(Seq(D)) /\ cur \in Seq(D)
  BY <1>8 DEF CutType
<1>10. /\ \A p \in ToSet(parts) : IsPart(i, p) /\ Len(p) > h
       /\ IsPart(i, cur) /\ (L > 0 => Len(cur) > h)
       /\ L = 0 => cut = NothingCut(i)
       /\ Gathered(below(i), parts) \o below(i)[cur] = RowPlaces(i, L)
  BY <1>8 DEF CutTo, CutLines
<1>11. CASE L = 0
  <2>1. parts = <<>> /\ cur = Header(i)
    BY <1>10, <1>11 DEF NothingCut
  <2>2. Cut(i) = <<>>
    BY <1>1, <2>1 DEF CutFrom, cut, L
  <2>3. Len(text[i].lines) = 0
    <3>1. h = Len(text[i].lines)
      BY <1>2, <1>11
    <3>2. h = 0 \/ (h = 2 /\ Len(text[i].lines) > 2)
      BY HeaderType
    <3> DEFINE m == Len(text[i].lines)
    <3>a. h = m /\ (h = 0 \/ (h = 2 /\ m > 2))
      BY <3>1, <3>2
    <3> HIDE DEF h, m
    <3>3. m = 0
      BY <3>a
    <3> QED BY <3>3 DEF m
  <2>4. text[i].lines = <<>>
    BY <2>3, AllLinesType
  <2>5. Gathered(below(i), <<>>) = RowPlaces(i, 0)
    <3>1. Gathered(below(i), <<>>) = <<>>
      <4>1. cur \in Seq(D) /\ below(i) \in [Seq(D) -> Seq(Place)]
        BY <1>9, BelowType
      <4> HIDE DEF D, cur
      <4> QED BY <4>1, GatheredOne
    <3> QED BY <3>1 DEF RowPlaces
  <2> QED BY <1>11, <2>2, <2>4, <2>5 DEF ToSet, L
<1>12. CASE L # 0
  <2>1. Len(cur) > h
    BY <1>2, <1>10, <1>12
  <2>2. Cut(i) = Append(parts, cur)
    BY <1>1, <2>1 DEF CutFrom, cut, L
  <2>3. below(i) \in [Seq(D) -> Seq(Place)]
    BY BelowType
  <2>4. ToSet(Append(parts, cur)) = ToSet(parts) \cup {cur}
    <3> HIDE DEF D, parts, cur
    <3> QED BY <1>9, ToSetOfAppend
  <2>5. Gathered(below(i), Append(parts, cur)) = Gathered(below(i), parts) \o below(i)[cur]
    <3> HIDE DEF D, parts, cur
    <3> QED BY ONLY <1>9, <2>3, GatheredAppended
  <2>6. Append(parts, cur) # <<>> /\ Append(parts, cur) \in Seq(Seq(D))
    <3> DEFINE Part == Seq(D)
    <3>1. parts \in Seq(Part) /\ cur \in Part
      BY <1>9
    <3> HIDE DEF D, parts, cur, Part
    <3>2. Append(parts, cur) # <<>> /\ Append(parts, cur) \in Seq(Part)
      BY <3>1
    <3> QED BY <3>2 DEF Part
  <2>7. \A p \in ToSet(Cut(i)) : IsPart(i, p) /\ Len(p) > h
    BY <1>10, <2>1, <2>2, <2>4
  <2>8. Gathered(below(i), Cut(i)) = RowPlaces(i, Len(Rows(i)))
    BY <1>10, <2>2, <2>5 DEF L
  <2> HIDE DEF parts, cur
  <2> QED BY <2>2, <2>6, <2>7, <2>8
<1> QED BY <1>11, <1>12

\* The lines of a part are those of its header and those below it.
LEMMA PartLines ==
    ASSUME text \in Seq(Paras), NEW i \in DOMAIN text,
           NEW p \in Seq(DOMAIN text[i].lines), BeginsAlike(i, p)
    PROVE  LinesOf(i, p) = LinesOf(i, Header(i)) \o below(i)[p]
<1> DEFINE D == DOMAIN text[i].lines
           H == Header(i)
           h == Len(H)
           n == Len(p)
           q == SubSeq(p, h + 1, n)
           a == LinesOf(i, H)
           b == LinesOf(i, q)
           u == LinesOf(i, p)
           v == a \o b
<1>1. D \subseteq Nat /\ h \in Nat /\ n \in Nat /\ i \in Nat /\ H \in Seq(D)
  BY AllLinesType, HeaderType
<1>2. n >= h /\ \A k \in 1..h : p[k] = H[k]
  BY DEF BeginsAlike
<1>3. below(i)[p] = b
  BY DEF below
<1> HIDE DEF D, H, h, n
<1>4. p \in Seq(Nat) /\ H \in Seq(Nat) /\ DOMAIN p = 1..n /\ Len(p) = n
      /\ DOMAIN H = 1..h /\ Len(H) = h
  <2>1. p \in Seq(D)
    BY DEF D
  <2>2. p \in Seq(Nat) /\ H \in Seq(Nat)
    BY <1>1, <2>1, WiderSeq
  <2>3. DOMAIN p = 1..n /\ Len(p) = n
    BY <2>2 DEF n
  <2>4. DOMAIN H = 1..h /\ Len(H) = h
    BY <2>2 DEF h
  <2> QED BY <2>2, <2>3, <2>4
<1>5. q \in Seq(Nat) /\ Len(q) = n - h /\ DOMAIN q = 1..n - h /\ \A k \in 1..n - h : q[k] = p[h + k]
  BY <1>1, <1>2, <1>4
<1> HIDE DEF q
<1>6. u \in Seq(Place) /\ Len(u) = n /\ \A k \in 1..n : u[k] = <<i, p[k]>>
  BY <1>1, <1>4, LinesOfType DEF LinesOf
<1>7. a \in Seq(Place) /\ Len(a) = h /\ \A k \in 1..h : a[k] = <<i, H[k]>>
  BY <1>1, <1>4, LinesOfType DEF LinesOf
<1>8. b \in Seq(Place) /\ Len(b) = n - h /\ \A k \in 1..n - h : b[k] = <<i, q[k]>>
  BY <1>1, <1>5, LinesOfType DEF LinesOf
<1> HIDE DEF a, b, u
<1>9. /\ v \in Seq(Place) /\ Len(v) = h + (n - h)
      /\ \A k \in 1..h : v[k] = a[k]
      /\ \A k \in 1..n - h : v[h + k] = b[k]
  <2> DEFINE m == n - h
  <2>1. m \in Nat /\ Len(b) = m
    BY <1>1, <1>2, <1>8
  <2> HIDE DEF m
  <2>2. /\ v \in Seq(Place) /\ Len(v) = h + m
        /\ \A k \in 1..h : v[k] = a[k]
        /\ \A k \in 1..m : v[h + k] = b[k]
    <3>1. a \in Seq(Place) /\ b \in Seq(Place) /\ Len(a) = h /\ Len(b) = m
      BY <1>7, <1>8, <2>1
    <3>2. /\ v \in Seq(Place) /\ Len(v) = Len(a) + Len(b)
          /\ \A k \in 1..Len(a) : v[k] = a[k]
          /\ \A k \in 1..Len(b) : v[Len(a) + k] = b[k]
      <4>1. /\ v \in Seq(Place) /\ Len(v) = Len(a) + Len(b)
            /\ \A k \in 1..Len(a) + Len(b) : v[k] = IF k <= Len(a) THEN a[k] ELSE b[k - Len(a)]
        BY ONLY <3>1, ConcatProperties
      <4>2. Len(a) \in Nat /\ Len(b) \in Nat
        BY <3>1
      <4> HIDE DEF v
      <4>3. \A k \in 1..Len(a) : v[k] = a[k]
        BY <4>1, <4>2
      <4>4. \A k \in 1..Len(b) : v[Len(a) + k] = b[k]
        <5> TAKE k \in 1..Len(b)
        <5>1. Len(a) + k \in 1..Len(a) + Len(b) /\ ~ (Len(a) + k <= Len(a))
              /\ (Len(a) + k) - Len(a) = k
          BY <4>2
        <5> QED BY <4>1, <5>1
      <4> QED BY <4>1, <4>3, <4>4
    <3> QED BY ONLY <3>1, <3>2
  <2> QED BY <2>2 DEF m
<1>10. h + (n - h) = n
  BY <1>1
<1> HIDE DEF v
<1>11. \A k \in 1..n : u[k] = v[k]
  <2> TAKE k \in 1..n
  <2>1. CASE k <= h
    <3>1. k \in 1..h
      BY <1>1, <2>1
    <3>2. u[k] = <<i, p[k]>> /\ v[k] = a[k] /\ a[k] = <<i, H[k]>>
      BY ONLY <1>6, <1>7, <1>9, <3>1, k \in 1..n
    <3> QED BY <1>2, <3>1, <3>2
  <2>2. CASE ~ (k <= h)
    <3>1. k - h \in 1..n - h /\ h + (k - h) = k
      BY <1>1, <2>2
    <3>2. v[k] = b[k - h] /\ b[k - h] = <<i, q[k - h]>> /\ q[k - h] = p[k]
      BY <1>5, <1>8, <1>9, <3>1
    <3> QED BY <1>6, <3>2
  <2> QED BY <2>1, <2>2
<1>12. Len(v) = n
  BY <1>9, <1>10
<1>13. u = v
  BY ONLY <1>6, <1>9, <1>11, <1>12, SeqEqual
<1> QED BY <1>3, <1>13 DEF u, v, a, H

\* What a part of a section may be: some of its paragraphs, not begun by a
\* heading, and no longer than the limit and what it carries over.
PieceOf(p, of) ==
    /\ p.items # <<>> /\ p.items[1].kind # "heading"
    /\ HasLines(p) # {} /\ \A k \in HasLines(p) : p.items[k].of \in of
    /\ p.size > 0
    /\ \/ p.size <= maxChars + overlap + 2
       \/ Cardinality(OwnLines(p)) = 1 /\ CarriedOver \notin ToSet(p.items)

LEMMA LinesSizePositive ==
    ASSUME text \in Seq(Paras), NEW i \in DOMAIN text,
           NEW p \in Seq(DOMAIN text[i].lines), p # <<>>
    PROVE  LinesSize(i, p) \in Nat /\ LinesSize(i, p) > 0
<1> DEFINE lines == text[i].lines
           sizes == [k \in DOMAIN p |-> lines[p[k]]]
<1>0. lines \in Seq(Nat) /\ \A k \in DOMAIN lines : lines[k] > 0
  BY AllLinesType
<1>1. LinesSize(i, p) = Joined(sizes, 1) /\ p \in Seq(DOMAIN lines)
  BY DEF LinesSize
<1> HIDE DEF lines
<1>a. \A k \in DOMAIN p : p[k] \in DOMAIN lines /\ lines[p[k]] \in Nat
  BY <1>0, <1>1
<1>2. sizes \in Seq(Nat) /\ 1 \in DOMAIN sizes /\ sizes[1] > 0
  <2>1. DOMAIN p = 1..Len(p) /\ Len(p) \in Nat /\ 1 \in DOMAIN p
    OBVIOUS
  <2> QED BY <1>0, <1>a, <2>1
<1> HIDE DEF sizes
<1>3. Joined(sizes, 1) \in Nat /\ \A k \in DOMAIN sizes : sizes[k] <= Joined(sizes, 1)
  <2>1. 0 \in Nat /\ 1 \in Nat
    OBVIOUS
  <2> QED BY ONLY <1>2, <2>1, JoinedAppended
<1>4. sizes[1] <= Joined(sizes, 1) /\ sizes[1] \in Nat
  BY <1>2, <1>3
<1> QED BY <1>1, <1>2, <1>3, <1>4

\* A part as it is written, and one after the first with its header kept apart.
FirstPiece(i, p) == [items |-> <<Lines(i, p)>>, size |-> LinesSize(i, p)]

LaterPiece(i, p) ==
    [items |-> IF Header(i) = <<>> THEN <<Lines(i, p)>>
               ELSE <<Columns(i), Lines(i, SubSeq(p, 3, Len(p)))>>,
     size |-> LinesSize(i, p)]

LEMMA LinesItem ==
    ASSUME NEW i \in Nat, NEW lines \in Seq(Nat)
    PROVE  /\ Lines(i, lines) \in Item /\ itemLines[Lines(i, lines)] = LinesOf(i, lines)
           /\ Columns(i) \in Item /\ itemLines[Columns(i)] = <<>>
           /\ Lines(i, lines).of = i /\ Lines(i, lines).kind = "lines"
           /\ Columns(i).kind = "columns"
           /\ Lines(i, lines) # CarriedOver /\ Columns(i) # CarriedOver
<1>1. Lines(i, lines) \in Item /\ Lines(i, lines).of = i
      /\ Lines(i, lines).kind = "lines" /\ Lines(i, lines).lines = lines
  BY DEF Lines, Item
<1>2. Columns(i) \in Item /\ Columns(i).kind = "columns"
  <2>1. <<1, 2>> \in Seq(Nat)
    OBVIOUS
  <2> QED BY <2>1 DEF Columns, Item
<1>3. CarriedOver.kind = "tail"
  BY DEF CarriedOver
<1> QED BY <1>1, <1>2, <1>3 DEF itemLines

\* The lines a part has of its own, when it has one below its header.
LEMMA OwnLine ==
    ASSUME text \in Seq(Paras), NEW i \in DOMAIN text,
           NEW p \in Seq(DOMAIN text[i].lines), IsPart(i, p), Len(p) = Len(Header(i)) + 1,
           NEW c, LinesIn(c) = LinesOf(i, p) \/ LinesIn(c) = below(i)[p]
    PROVE  Cardinality(OwnLines(c)) = 1
<1> DEFINE D == DOMAIN text[i].lines
           H == Header(i)
           h == Len(H)
           y == <<i, p[h + 1]>>
<1>1. h \in Nat /\ \A k \in 1..h : H[k] \in Nat /\ H[k] <= h
  <2>1. CASE H = <<>> /\ h = 0
    BY <2>1
  <2>2. CASE H = <<1, 2>> /\ h = 2
    <3>1. <<1, 2>>[1] = 1 /\ <<1, 2>>[2] = 2 /\ \A k \in 1..2 : k = 1 \/ k = 2
      OBVIOUS
    <3> HIDE DEF h, H
    <3> QED BY <2>2, <3>1
  <2> QED BY <2>1, <2>2, HeaderType
<1>2. /\ \A k \in 1..h : p[k] = H[k]
      /\ \A k \in DOMAIN p : k > h => p[k] > h
  BY DEF IsPart, BeginsAlike
<1>3. below(i)[p] = LinesOf(i, SubSeq(p, h + 1, h + 1))
  BY DEF below
<1> HIDE DEF H, h
<1>4. DOMAIN p = 1..h + 1 /\ h + 1 \in DOMAIN p
  <2>1. DOMAIN p = 1..Len(p) /\ Len(p) = h + 1
    BY DEF h, H
  <2> QED BY <1>1, <2>1
<1>5. p[h + 1] > h
  BY <1>1, <1>2, <1>4
<1>6. y \in ToSet(LinesIn(c)) /\ \A line \in ToSet(LinesIn(c)) :
          line = y \/ \E k \in 1..h : line = <<i, p[k]>>
  <2>1. CASE LinesIn(c) = LinesOf(i, p)
    <3>1. ToSet(LinesIn(c)) = {<<i, p[k]>> : k \in 1..h + 1}
      BY <1>4, <2>1 DEF LinesOf, ToSet
    <3>2. \A k \in 1..h + 1 : k = h + 1 \/ k \in 1..h
      BY <1>1
    <3> QED BY <1>4, <3>1, <3>2
  <2>2. CASE LinesIn(c) = below(i)[p]
    <3>1. SubSeq(p, h + 1, h + 1) = <<p[h + 1]>>
      <4> DEFINE z == SubSeq(p, h + 1, h + 1)
      <4>1. p \in Seq(D) /\ Len(p) = h + 1
        BY <1>4 DEF h, H
      <4> HIDE DEF D
      <4>2. z \in Seq(D) /\ Len(z) = 1 /\ z[1] = p[h + 1]
        BY <1>1, <4>1
      <4> HIDE DEF z
      <4>3. z = <<p[h + 1]>>
        BY <4>2
      <4> QED BY <4>3 DEF z
    <3> DEFINE x == p[h + 1]
    <3>a. LinesOf(i, <<x>>) = <<<<i, x>>>>
      <4> HIDE DEF x
      <4> QED BY DEF LinesOf
    <3>2. LinesIn(c) = <<y>>
      BY <1>3, <2>2, <3>1, <3>a
    <3> QED BY <3>2 DEF ToSet
  <2> QED BY <2>1, <2>2
<1>7. OwnLines(c) = {y}
  <2>1. y[1] = i /\ y[2] > Len(Header(i))
    BY <1>5 DEF h, H
  <2>2. \A k \in 1..h : ~ (p[k] > Len(Header(i)))
    <3>1. \A k \in 1..h : p[k] <= h /\ p[k] \in Nat
      BY <1>1, <1>2
    <3>2. \A k \in 1..h : ~ (p[k] > h)
      BY <1>1, <3>1
    <3> QED BY <3>2 DEF h, H
  <2> HIDE DEF y
  <2> QED BY <1>6, <2>1, <2>2 DEF OwnLines
<1> QED BY <1>7, FS_Singleton

LEMMA PieceOfPart ==
    ASSUME text \in Seq(Paras), NEW i \in DOMAIN text,
           NEW p \in Seq(DOMAIN text[i].lines), IsPart(i, p), Len(p) > Len(Header(i))
    PROVE  /\ FirstPiece(i, p) \in Piece /\ LaterPiece(i, p) \in Piece
           /\ pieceLines[FirstPiece(i, p)] = LinesOf(i, p)
           /\ pieceLines[LaterPiece(i, p)] = below(i)[p]
           /\ PieceOf(FirstPiece(i, p), {i}) /\ PieceOf(LaterPiece(i, p), {i})
<1> DEFINE D == DOMAIN text[i].lines
           h == Len(Header(i))
           size == LinesSize(i, p)
           x == Lines(i, p)
           rest == SubSeq(p, 3, Len(p))
           y == Lines(i, rest)
           col == Columns(i)
           f == FirstPiece(i, p)
           g == LaterPiece(i, p)
<1>1. /\ i \in Nat /\ D \subseteq Nat /\ h \in Nat /\ p \in Seq(D) /\ p \in Seq(Nat)
      /\ p # <<>> /\ rest \in Seq(Nat) /\ size \in Nat /\ size > 0
  <2>1. i \in Nat /\ D \subseteq Nat
    BY AllLinesType
  <2>2. h \in Nat /\ p \in Seq(D)
    BY HeaderType
  <2>3. p \in Seq(Nat)
    <3> HIDE DEF D
    <3> QED BY <2>1, <2>2, WiderSeq
  <2>4. p # <<>>
    BY <2>2
  <2>5. size \in Nat /\ size > 0
    BY <2>4, LinesSizePositive
  <2>6. rest \in Seq(Nat)
    BY <2>3
  <2> HIDE DEF size, rest, D, h
  <2> QED BY <2>1, <2>2, <2>3, <2>4, <2>5, <2>6
<1>2. /\ x \in Item /\ itemLines[x] = LinesOf(i, p) /\ x.of = i /\ x.kind = "lines"
      /\ y \in Item /\ itemLines[y] = LinesOf(i, rest) /\ y.of = i /\ y.kind = "lines"
      /\ col \in Item /\ itemLines[col] = <<>> /\ col.kind = "columns"
      /\ x # CarriedOver /\ y # CarriedOver /\ col # CarriedOver
  <2> HIDE DEF rest
  <2> QED BY <1>1, LinesItem
<1>3. itemLines \in [Item -> Seq(Place)]
  BY ItemLinesType
<1>4. size <= maxChars \/ Len(p) = h + 1
  <2>1. size <= maxChars \/ Len(p) <= h + 1
    BY DEF IsPart
  <2>2. Len(p) \in Nat /\ Len(p) > h
    BY <1>1
  <2> QED BY <1>1, <2>1, <2>2
<1>5. maxChars \in Nat /\ overlap \in Nat
  BY SizesAssumption
<1>6. f.items = <<x>> /\ f.size = size /\ g.size = size
      /\ g.items = IF Header(i) = <<>> THEN <<x>> ELSE <<col, y>>
  BY DEF FirstPiece, LaterPiece
<1> HIDE DEF x, y, col, size
<1>a. f = [items |-> f.items, size |-> f.size] /\ g = [items |-> g.items, size |-> g.size]
  BY DEF FirstPiece, LaterPiece
<1> HIDE DEF f, g
<1>7. <<x>> \in Seq(Item) /\ <<col, y>> \in Seq(Item) /\ <<col>> \in Seq(Item)
  BY <1>2
<1>8. Gathered(itemLines, <<x>>) = LinesOf(i, p)
  BY ONLY <1>2, OneItem
<1>9. Gathered(itemLines, <<col, y>>) = LinesOf(i, rest)
  <2> DEFINE s == <<col>>
  <2>1. s \in Seq(Item) /\ Gathered(itemLines, s) = <<>> /\ Append(s, y) = <<col, y>>
    <3>1. Gathered(itemLines, <<col>>) = <<>>
      BY ONLY <1>2, OneItem
    <3>2. Append(<<col>>, y) = <<col, y>>
      BY <1>2, PairAppended
    <3> QED BY <1>7, <3>1, <3>2
  <2> HIDE DEF s
  <2>2. Gathered(itemLines, Append(s, y)) = Gathered(itemLines, s) \o itemLines[y]
    BY <1>2, <1>3, <2>1, GatheredAppended
  <2>3. LinesOf(i, rest) \in Seq(Place)
    <3> HIDE DEF rest
    <3> QED BY <1>1, LinesOfType
  <2>4. <<>> \o LinesOf(i, rest) = LinesOf(i, rest)
    BY <2>3
  <2> QED BY <1>2, <2>1, <2>2, <2>4
<1>10. Header(i) # <<>> => below(i)[p] = LinesOf(i, rest)
  <2> SUFFICES ASSUME Header(i) # <<>> PROVE below(i)[p] = LinesOf(i, rest)
    OBVIOUS
  <2>1. h = 2
    BY HeaderType
  <2> QED BY <1>1, <2>1 DEF below
<1>11. Header(i) = <<>> => below(i)[p] = LinesOf(i, p)
  <2> SUFFICES ASSUME Header(i) = <<>> PROVE below(i)[p] = LinesOf(i, p)
    OBVIOUS
  <2>1. h = 0
    BY HeaderType
  <2>2. SubSeq(p, 1, Len(p)) = p
    BY <1>1
  <2>3. h + 1 = 1
    BY <2>1
  <2>4. below(i)[p] = LinesOf(i, SubSeq(p, 1, Len(p)))
    BY <1>1, <2>3 DEF below
  <2> QED BY <2>2, <2>4
<1>12. f \in Piece /\ g \in Piece
  <2>1. f.items \in Seq(Item) /\ g.items \in Seq(Item)
    BY <1>6, <1>7
  <2>2. f.size \in Int /\ g.size \in Int
    BY <1>1, <1>6
  <2> QED BY ONLY <1>a, <2>1, <2>2 DEF Piece
<1>13. pieceLines[f] = LinesOf(i, p)
  BY <1>6, <1>8, <1>12 DEF pieceLines
<1>14. pieceLines[g] = below(i)[p]
  BY <1>6, <1>8, <1>9, <1>10, <1>11, <1>12 DEF pieceLines
<1>15. LinesIn(f) = LinesOf(i, p) /\ LinesIn(g) = below(i)[p]
  BY <1>6, <1>7, <1>12, <1>13, <1>14, LinesInIs DEF pieceLines
<1>16. Len(p) = h + 1 => Cardinality(OwnLines(f)) = 1 /\ Cardinality(OwnLines(g)) = 1
  BY <1>15, OwnLine
<1>17. PieceOf(f, {i})
  <2>1. HasLines(f) = {1} /\ ToSet(f.items) = {x}
    BY <1>2, <1>6 DEF HasLines, ToSet
  <2>2. f.items # <<>> /\ f.items[1] = x
    BY <1>6
  <2>3. size <= maxChars + overlap + 2
        \/ (Cardinality(OwnLines(f)) = 1 /\ CarriedOver \notin ToSet(f.items))
    BY <1>1, <1>2, <1>4, <1>5, <1>16, <2>1
  <2> QED BY <1>1, <1>2, <1>6, <2>1, <2>2, <2>3 DEF PieceOf
<1>18. PieceOf(g, {i})
  <2>1. CASE Header(i) = <<>>
    <3>1. HasLines(g) = {1} /\ ToSet(g.items) = {x}
      BY <1>2, <1>6, <2>1 DEF HasLines, ToSet
    <3>2. g.items # <<>> /\ g.items[1] = x
      BY <1>6, <2>1
    <3>3. size <= maxChars + overlap + 2
          \/ (Cardinality(OwnLines(g)) = 1 /\ CarriedOver \notin ToSet(g.items))
      BY <1>1, <1>2, <1>4, <1>5, <1>16, <3>1
    <3> QED BY <1>1, <1>2, <1>6, <3>1, <3>2, <3>3 DEF PieceOf
  <2>2. CASE Header(i) # <<>>
    <3>1. g.items = <<col, y>>
      BY <1>6, <2>2
    <3>2. HasLines(g) = {2} /\ ToSet(g.items) = {col, y}
      BY <1>2, <3>1 DEF HasLines, ToSet
    <3>3. g.items # <<>> /\ g.items[1] = col /\ g.items[2] = y
      BY <3>1
    <3>4. size <= maxChars + overlap + 2
          \/ (Cardinality(OwnLines(g)) = 1 /\ CarriedOver \notin ToSet(g.items))
      BY <1>1, <1>2, <1>4, <1>5, <1>16, <3>2
    <3> QED BY <1>1, <1>2, <1>6, <3>2, <3>3, <3>4 DEF PieceOf
  <2> QED BY <2>1, <2>2
<1> QED BY <1>12, <1>13, <1>14, <1>17, <1>18 DEF f, g

\* All lines of a paragraph are those of its header and its rows.
LEMMA ParagraphLines ==
    ASSUME text \in Seq(Paras), NEW i \in DOMAIN text
    PROVE  LinesOf(i, AllLines(i)) = LinesOf(i, Header(i)) \o RowPlaces(i, Len(Rows(i)))
<1> DEFINE D == DOMAIN text[i].lines
           all == AllLines(i)
           H == Header(i)
           h == Len(H)
           m == Len(text[i].lines)
           rows == Rows(i)
           L == Len(rows)
<1>1. /\ all \in Seq(Nat) /\ Len(all) = m /\ m \in Nat /\ D = 1..m
      /\ \A k \in 1..m : all[k] = k
  BY AllLinesType
<1>2. all \in Seq(D)
  <2> HIDE DEF all, m, D
  <2>1. \A k \in 1..m : all[k] \in D
    BY <1>1
  <2> QED BY <1>1, <2>1
<1>3. h \in Nat /\ h <= m /\ \A k \in 1..h : H[k] = k
  <2>1. CASE H = <<>> /\ h = 0
    BY <1>1, <2>1
  <2>2. CASE H = <<1, 2>> /\ h = 2 /\ m > 2
    <3>1. <<1, 2>>[1] = 1 /\ <<1, 2>>[2] = 2 /\ \A k \in 1..2 : k = 1 \/ k = 2
      OBVIOUS
    <3> HIDE DEF h, H, m
    <3> QED BY <1>1, <2>2, <3>1
  <2> QED BY <2>1, <2>2, HeaderType
<1>4. rows = SubSeq(all, h + 1, m)
  BY DEF Rows
<1>5. L \in Nat /\ \A k \in 1..L : rows[k] = h + k
  BY RowsType
<1>6. BeginsAlike(i, all)
  <2> HIDE DEF all, m
  <2>1. \A k \in 1..h : k \in 1..m
    BY <1>1, <1>3
  <2> QED BY <1>1, <1>3, <2>1 DEF BeginsAlike
<1>7. below(i)[all] = LinesOf(i, rows)
  BY <1>1, <1>2, <1>4 DEF below
<1>8. LinesOf(i, rows) = RowPlaces(i, L)
  <2>1. DOMAIN rows = 1..L
    BY RowsType
  <2> QED BY <1>5, <2>1 DEF LinesOf, RowPlaces
<1>9. LinesOf(i, all) = LinesOf(i, H) \o below(i)[all]
  BY <1>2, <1>6, PartLines
<1> QED BY <1>7, <1>8, <1>9

LEMMA EachPiece ==
    ASSUME NEW pieces \in Seq(Piece)
    PROVE  /\ Each(pieceLines, pieces) \in Seq(Seq(Place))
           /\ Len(Each(pieceLines, pieces)) = Len(pieces)
           /\ \A k \in 1..Len(pieces) : Each(pieceLines, pieces)[k] = pieceLines[pieces[k]]
<1>1. \A k \in 1..Len(pieces) : Each(pieceLines, pieces)[k] = pieceLines[pieces[k]]
  BY DEF Each
<1> DEFINE T == Seq(Place)
<1>2. pieceLines \in [Piece -> T]
  BY PieceLinesType
<1> HIDE DEF T
<1>3. Each(pieceLines, pieces) \in Seq(T) /\ Len(Each(pieceLines, pieces)) = Len(pieces)
  <2>1. /\ DOMAIN pieces = 1..Len(pieces) /\ Len(pieces) \in Nat
        /\ \A k \in 1..Len(pieces) : pieces[k] \in Piece
    OBVIOUS
  <2> DEFINE all == Each(pieceLines, pieces)
  <2>2. all = [k \in 1..Len(pieces) |-> pieceLines[pieces[k]]]
    BY ONLY <2>1 DEF Each
  <2> HIDE DEF all
  <2>3. all \in [1..Len(pieces) -> T]
    BY ONLY <1>2, <2>1, <2>2
  <2>4. all \in Seq(T) /\ Len(all) = Len(pieces)
    BY ONLY <2>1, <2>3
  <2> QED BY ONLY <2>4 DEF all
<1> QED BY <1>1, <1>3 DEF T

LEMMA SplitLinesPieces ==
    ASSUME text \in Seq(Paras), NEW i \in DOMAIN text
    PROVE  /\ splitLines(i) \in Seq(Piece) /\ splitLines(i) # <<>>
           /\ \A p \in ToSet(splitLines(i)) : PieceOf(p, {i})
           /\ Gathered(pieceLines, splitLines(i)) = paraLines[i]
<1> DEFINE D == DOMAIN text[i].lines
           cut == Cut(i)
           n == Len(cut)
           pieces == splitLines(i)
           head == LinesOf(i, Header(i))
           s == Each(pieceLines, pieces)
           t == Each(below(i), cut)
<1>1. /\ cut \in Seq(Seq(D))
      /\ \A p \in ToSet(cut) : IsPart(i, p) /\ Len(p) > Len(Header(i))
      /\ Gathered(below(i), cut) = RowPlaces(i, Len(Rows(i)))
      /\ cut # <<>>
  BY CutWhole, AllLinesType
<1>2. /\ n \in Nat /\ n > 0 /\ DOMAIN cut = 1..n /\ \A k \in 1..n : cut[k] \in Seq(D)
      /\ \A k \in 1..n : IsPart(i, cut[k]) /\ Len(cut[k]) > Len(Header(i))
  <2> DEFINE Part == Seq(D)
  <2>1. cut \in Seq(Part) /\ cut # <<>>
    BY <1>1
  <2> HIDE DEF Part, cut
  <2>2. n \in Nat /\ n > 0 /\ DOMAIN cut = 1..n /\ \A k \in 1..n : cut[k] \in Part
    BY <2>1
  <2>3. \A k \in 1..n : cut[k] \in ToSet(cut)
    BY <2>2 DEF ToSet
  <2> QED BY <1>1, <2>2, <2>3 DEF Part
<1>3. pieces = [k \in 1..n |-> IF k = 1 THEN FirstPiece(i, cut[k]) ELSE LaterPiece(i, cut[k])]
  <2>1. pieces = [k \in 1..n |->
          [items |-> IF k = 1 \/ Header(i) = <<>> THEN <<Lines(i, cut[k])>>
                     ELSE <<Columns(i), Lines(i, SubSeq(cut[k], 3, Len(cut[k])))>>,
           size |-> LinesSize(i, cut[k])]]
    BY <1>2 DEF splitLines
  <2> HIDE DEF pieces, cut
  <2> QED BY <2>1 DEF FirstPiece, LaterPiece
<1> HIDE DEF pieces, cut, n, D
<1>4. \A k \in 1..n :
          /\ FirstPiece(i, cut[k]) \in Piece /\ LaterPiece(i, cut[k]) \in Piece
          /\ pieceLines[FirstPiece(i, cut[k])] = LinesOf(i, cut[k])
          /\ pieceLines[LaterPiece(i, cut[k])] = below(i)[cut[k]]
          /\ PieceOf(FirstPiece(i, cut[k]), {i}) /\ PieceOf(LaterPiece(i, cut[k]), {i})
  BY <1>2, PieceOfPart DEF D
<1>5. pieces \in Seq(Piece) /\ Len(pieces) = n /\ pieces # <<>> /\ DOMAIN pieces = 1..n
  <2>1. \A k \in 1..n : pieces[k] \in Piece
    BY <1>3, <1>4
  <2>2. DOMAIN pieces = 1..n
    BY <1>3
  <2>3. pieces = [k \in 1..n |-> pieces[k]]
    BY ONLY <1>3
  <2>4. n \in Nat /\ n > 0
    BY <1>2
  <2> QED BY ONLY <2>1, <2>2, <2>3, <2>4, ListOf
<1>6. \A p \in ToSet(pieces) : PieceOf(p, {i})
  <2>1. \A k \in 1..n : PieceOf(pieces[k], {i})
    BY <1>3, <1>4
  <2> QED BY <1>5, <2>1 DEF ToSet
<1>7. s \in Seq(Seq(Place)) /\ Len(s) = n /\ \A k \in 1..n : s[k] = pieceLines[pieces[k]]
  BY ONLY <1>5, EachPiece
<1>8. t \in Seq(Seq(Place)) /\ Len(t) = n /\ \A k \in 1..n : t[k] = below(i)[cut[k]]
  <2>1. below(i) \in [Seq(D) -> Seq(Place)]
    BY BelowType DEF D
  <2>2. Len(cut) = n
    BY DEF n
  <2> QED BY <1>1, <1>2, <2>1, <2>2, EachType DEF Each
<1>9. \A k \in 1..n : LinesOf(i, cut[k]) = head \o below(i)[cut[k]]
  BY <1>2, PartLines DEF D, IsPart
<1>10. head \in Seq(Place)
  <2>1. i \in Nat /\ Header(i) \in Seq(Nat)
    BY AllLinesType, HeaderType
  <2> QED BY <2>1, LinesOfType
<1> HIDE DEF s, t, head
<1>11. s[1] = head \o t[1] /\ \A k \in 2..n : s[k] = t[k]
  <2>1. 1 \in 1..n /\ \A j \in 2..n : j \in 1..n /\ j # 1
    BY <1>2
  <2>2. s[1] = head \o t[1]
    <3>1. s[1] = pieceLines[pieces[1]]
      BY ONLY <1>7, <2>1
    <3>2. pieces[1] = FirstPiece(i, cut[1])
      BY ONLY <1>3, <2>1
    <3>3. pieceLines[FirstPiece(i, cut[1])] = LinesOf(i, cut[1])
      BY ONLY <1>4, <2>1
    <3>4. LinesOf(i, cut[1]) = head \o below(i)[cut[1]]
      BY ONLY <1>9, <2>1
    <3>5. t[1] = below(i)[cut[1]]
      BY ONLY <1>8, <2>1
    <3> QED BY ONLY <3>1, <3>2, <3>3, <3>4, <3>5
  <2>3. \A k \in 2..n : s[k] = t[k]
    <3> TAKE k \in 2..n
    <3>0. k \in 1..n /\ k # 1
      BY ONLY <2>1
    <3>1. s[k] = pieceLines[pieces[k]]
      BY ONLY <1>7, <3>0
    <3>2. pieces[k] = LaterPiece(i, cut[k])
      BY ONLY <1>3, <3>0
    <3>3. pieceLines[LaterPiece(i, cut[k])] = below(i)[cut[k]]
      BY ONLY <1>4, <3>0
    <3>5. t[k] = below(i)[cut[k]]
      BY ONLY <1>8, <3>0
    <3> QED BY ONLY <3>1, <3>2, <3>3, <3>5
  <2> QED BY <2>2, <2>3
<1>12. Flat(s) = head \o Flat(t)
  <2>1. Len(s) = Len(t) /\ Len(t) > 0
    BY ONLY <1>2, <1>7, <1>8
  <2>2. \A k \in 2..Len(t) : s[k] = t[k]
    BY ONLY <1>8, <1>11
  <2>3. s[1] = head \o t[1]
    BY <1>11
  <2>4. s \in Seq(Seq(Place)) /\ t \in Seq(Seq(Place))
    BY <1>7, <1>8
  <2> QED BY ONLY <1>10, <2>1, <2>2, <2>3, <2>4, FlatHeaded
<1>13. Flat(t) = RowPlaces(i, Len(Rows(i))) /\ Flat(s) = Gathered(pieceLines, pieces)
  BY <1>1 DEF s, t, Gathered
<1>14. paraLines[i] = head \o RowPlaces(i, Len(Rows(i)))
  BY ParagraphLines DEF paraLines, head
<1> QED BY <1>5, <1>6, <1>12, <1>13, <1>14 DEF pieces

-----------------------------------------------------------------------------
(* packParagraphs: one section, cut between its paragraphs.                *)

PackType == [parts : Seq(Piece), cur : Seq(Item), size : Int]

NothingPacked == [parts |-> <<>>, cur |-> <<>>, size |-> 0]

LEMMA ParagraphSizeType ==
    ASSUME text \in Seq(Paras), NEW i \in DOMAIN text
    PROVE  ParagraphSize(i) \in Nat /\ ParagraphSize(i) > 0
<1> DEFINE sizes == text[i].lines
<1>1. sizes \in Seq(Nat) /\ sizes # <<>> /\ \A k \in DOMAIN sizes : sizes[k] > 0
  BY AllLinesType
<1>2. ParagraphSize(i) = Joined(sizes, 1)
  BY DEF ParagraphSize
<1> HIDE DEF sizes
<1>3. Joined(sizes, 1) \in Nat /\ \A k \in DOMAIN sizes : sizes[k] <= Joined(sizes, 1)
  <2>1. 0 \in Nat /\ 1 \in Nat
    OBVIOUS
  <2> QED BY ONLY <1>1, <2>1, JoinedAppended
<1>4. 1 \in DOMAIN sizes /\ sizes[1] \in Nat
  BY <1>1
<1>5. sizes[1] > 0 /\ sizes[1] <= Joined(sizes, 1)
  BY <1>1, <1>3, <1>4
<1> QED BY <1>2, <1>3, <1>4, <1>5

LEMMA CarriedItem == CarriedOver \in Item /\ itemLines[CarriedOver] = <<>>
<1>1. <<>> \in Seq(Nat)
  OBVIOUS
<1>2. CarriedOver \in Item /\ CarriedOver.kind = "tail"
  BY <1>1 DEF CarriedOver, Item
<1> QED BY <1>2 DEF itemLines

LEMMA NoLines == Gathered(itemLines, <<>>) = <<>>
BY CarriedItem, ItemLinesType, GatheredOne

\* The lines packed so far: those of the parts and those of the one begun.
PackLines(pack) == Gathered(pieceLines, pack.parts) \o Gathered(itemLines, pack.cur)

LEMMA WrittenLines ==
    ASSUME NEW pack \in PackType
    PROVE  /\ Written(pack) \in Seq(Piece)
           /\ Gathered(pieceLines, Written(pack)) = PackLines(pack)
<1> DEFINE parts == pack.parts
           cur == pack.cur
           half == [items |-> cur, size |-> pack.size - 2]
<1>1. parts \in Seq(Piece) /\ cur \in Seq(Item) /\ pack.size - 2 \in Int
  BY DEF PackType
<1>2. half \in Piece
  <2> HIDE DEF cur
  <2> QED BY <1>1 DEF Piece
<1>3. pieceLines[half] = Gathered(itemLines, cur)
  BY <1>2 DEF pieceLines
<1>4. Written(pack) = IF cur = <<>> THEN parts ELSE Append(parts, half)
  BY DEF Written
<1> HIDE DEF parts, cur, half
<1>5. CASE cur = <<>>
  <2>1. Gathered(itemLines, cur) = <<>>
    BY <1>5, NoLines
  <2>2. Gathered(pieceLines, parts) \in Seq(Place)
    BY <1>1, PieceLinesType, GatheredType
  <2>3. Gathered(pieceLines, parts) \o <<>> = Gathered(pieceLines, parts)
    BY <2>2
  <2> QED BY <1>1, <1>4, <1>5, <2>1, <2>3 DEF PackLines, parts, cur
<1>6. CASE cur # <<>>
  <2>1. Gathered(pieceLines, Append(parts, half)) = Gathered(pieceLines, parts) \o pieceLines[half]
    BY ONLY <1>1, <1>2, PieceLinesType, GatheredAppended
  <2>2. Append(parts, half) \in Seq(Piece)
    BY <1>1, <1>2
  <2> QED BY <1>3, <1>4, <1>6, <2>1, <2>2 DEF PackLines, parts, cur
<1> QED BY <1>5, <1>6

LEMMA PackTyped ==
    ASSUME text \in Seq(Paras), NEW i \in DOMAIN text, NEW pack \in PackType
    PROVE  /\ CarryOn(pack) \in PackType /\ Pack(pack, i) \in PackType
           /\ PackLines(CarryOn(pack)) = PackLines(pack)
           /\ PackLines(Pack(pack, i)) = PackLines(pack) \o paraLines[i]
<1> DEFINE item == Lines(i, AllLines(i))
           s == ParagraphSize(i)
           written == Written(pack)
           size == IF pack.size > overlap THEN overlap ELSE pack.size
           carry == CarryOn(pack)
           lines == paraLines[i]
<1>1. s \in Int /\ item \in Item /\ itemLines[item] = lines /\ lines \in Seq(Place)
  <2>1. i \in Nat /\ AllLines(i) \in Seq(Nat)
    BY AllLinesType
  <2> QED BY <2>1, ParagraphSizeType, LinesItem, LinesOfType DEF paraLines
<1>2. written \in Seq(Piece) /\ Gathered(pieceLines, written) = PackLines(pack)
  BY WrittenLines
<1>3. pack.parts \in Seq(Piece) /\ pack.cur \in Seq(Item) /\ pack.size \in Int
  BY DEF PackType
<1>4. size + 2 \in Int
  BY <1>3, SizesAssumption
<1>5. carry = [parts |-> written, cur |-> <<CarriedOver>>, size |-> size + 2]
  BY DEF CarryOn
<1> HIDE DEF item, s, written, size, lines
<1>6. PackLines(pack) \in Seq(Place)
  BY <1>2, PieceLinesType, GatheredType
<1>7. carry \in PackType /\ PackLines(carry) = PackLines(pack)
  <2>1. <<CarriedOver>> \in Seq(Item) /\ Gathered(itemLines, <<CarriedOver>>) = <<>>
    BY CarriedItem, ItemLinesType, GatheredOne
  <2>2. carry.parts = written /\ carry.cur = <<CarriedOver>> /\ carry \in PackType
    BY <1>2, <1>4, <1>5, <2>1 DEF PackType
  <2>3. PackLines(pack) \o <<>> = PackLines(pack)
    BY <1>6
  <2> QED BY <1>2, <2>1, <2>2, <2>3 DEF PackLines
<1> HIDE DEF carry
\* A paragraph put after what has been packed.
<1>8. ASSUME NEW next \in PackType, PackLines(next) = PackLines(pack),
             NEW more, more = [next EXCEPT !.cur = Append(@, item), !.size = @ + s + 2]
      PROVE  more \in PackType /\ PackLines(more) = PackLines(pack) \o lines
  <2> DEFINE parts == next.parts
             cur == next.cur
             x == Gathered(pieceLines, parts)
             y == Gathered(itemLines, cur)
  <2>1. parts \in Seq(Piece) /\ cur \in Seq(Item) /\ next.size \in Int
    BY DEF PackType
  <2>2. more = [parts |-> parts, cur |-> Append(cur, item), size |-> next.size + s + 2]
    BY <1>8 DEF PackType
  <2>3. next.size + s + 2 \in Int
    BY <1>1, <2>1
  <2>4. PackLines(next) = x \o y
    BY DEF PackLines
  <2> HIDE DEF parts, cur
  <2>5. Append(cur, item) \in Seq(Item)
    BY <1>1, <2>1
  <2>6. more \in PackType /\ more.parts = parts /\ more.cur = Append(cur, item)
    BY <2>1, <2>2, <2>3, <2>5 DEF PackType
  <2>7. Gathered(itemLines, Append(cur, item)) = y \o lines
    BY ONLY <1>1, <2>1, ItemLinesType, GatheredAppended
  <2>8. x \in Seq(Place) /\ y \in Seq(Place)
    BY <2>1, PieceLinesType, ItemLinesType, GatheredType
  <2> HIDE DEF x, y
  <2>9. (x \o y) \o lines = x \o (y \o lines)
    <3>1. Associates(x, y, lines)
      BY <1>1, <2>8, JoinAssociates
    <3> QED BY <3>1 DEF Associates
  <2>10. PackLines(more) = x \o (y \o lines)
    BY <2>6, <2>7 DEF PackLines, x
  <2> QED BY <1>8, <2>4, <2>6, <2>9, <2>10
<1>9. CASE s > maxChars
  <2> DEFINE parts == splitLines(i)
  <2>1. parts \in Seq(Piece) /\ Gathered(pieceLines, parts) = lines
    BY SplitLinesPieces DEF lines
  <2>2. Pack(pack, i) = [parts |-> written \o parts, cur |-> <<>>, size |-> 0]
    BY <1>9 DEF Pack, s, written
  <2> HIDE DEF parts
  <2>3. written \o parts \in Seq(Piece)
    BY <1>2, <2>1
  <2>4. Pack(pack, i) \in PackType
    BY <2>2, <2>3 DEF PackType
  <2>5. GatheredOfBoth(pieceLines, written, parts)
    BY <1>2, <2>1, PieceLinesType, GatheredJoined
  <2>6. Gathered(pieceLines, written \o parts) = PackLines(pack) \o lines
    BY <1>2, <2>1, <2>5 DEF GatheredOfBoth
  <2>7. (PackLines(pack) \o lines) \o <<>> = PackLines(pack) \o lines
    BY <1>1, <1>6
  <2>8. PackLines(Pack(pack, i)) = Gathered(pieceLines, written \o parts) \o <<>>
    <3>1. Pack(pack, i).parts = written \o parts /\ Pack(pack, i).cur = <<>>
      BY <2>2
    <3> QED BY ONLY <3>1, NoLines DEF PackLines
  <2>9. PackLines(Pack(pack, i)) = PackLines(pack) \o lines
    BY ONLY <2>6, <2>7, <2>8
  <2>10. carry \in PackType /\ PackLines(carry) = PackLines(pack)
    BY <1>7
  <2> QED BY ONLY <2>4, <2>9, <2>10 DEF carry, lines
<1>10. CASE ~ (s > maxChars)
  <2> DEFINE room == pack.size = 0 \/ pack.size + s <= maxChars
             next == IF room THEN pack ELSE carry
             more == [next EXCEPT !.cur = Append(@, item), !.size = @ + s + 2]
  <2>1. Pack(pack, i) = more
    BY <1>10 DEF Pack, s, item, carry
  <2>2. next \in PackType /\ PackLines(next) = PackLines(pack)
    BY <1>7
  <2> HIDE DEF next
  <2>3. more \in PackType /\ PackLines(more) = PackLines(pack) \o lines
    BY <1>8, <2>2
  <2> HIDE DEF more
  <2> QED BY <1>7, <2>1, <2>3 DEF carry, lines
<1> QED BY <1>9, <1>10 DEF lines

\* What a part that has been begun holds: paragraphs of the section, no heading.
CurOf(cur, of) ==
    \A k \in DOMAIN cur : cur[k].kind # "heading" /\ (cur[k].kind = "lines" => cur[k].of \in of)

PackGood(pack, of) ==
    /\ \A p \in ToSet(pack.parts) : PieceOf(p, of)
    /\ CurOf(pack.cur, of)
    /\ \/ pack.cur = <<>> /\ pack.size = 0
       \/ /\ pack.cur # <<>> /\ \E k \in DOMAIN pack.cur : pack.cur[k].kind = "lines"
          /\ 2 < pack.size /\ pack.size <= maxChars + overlap + 4

LEMMA WrittenGood ==
    ASSUME NEW pack \in PackType, NEW of, PackGood(pack, of)
    PROVE  /\ \A p \in ToSet(Written(pack)) : PieceOf(p, of)
           /\ pack.cur # <<>> => Written(pack) # <<>>
<1> DEFINE parts == pack.parts
           cur == pack.cur
           size == pack.size
           half == [items |-> cur, size |-> size - 2]
<1>1. parts \in Seq(Piece) /\ cur \in Seq(Item) /\ size \in Int
  BY DEF PackType
<1>2. Written(pack) = IF cur = <<>> THEN parts ELSE Append(parts, half)
  BY DEF Written
<1>3. half \in Piece /\ half.items = cur /\ half.size = size - 2
  <2> HIDE DEF cur, size
  <2> QED BY <1>1 DEF Piece
<1>4. \A p \in ToSet(parts) : PieceOf(p, of)
  BY DEF PackGood
<1>5. CASE cur = <<>>
  BY <1>2, <1>4, <1>5
<1>6. CASE cur # <<>>
  <2>1. /\ CurOf(cur, of) /\ \E k \in DOMAIN cur : cur[k].kind = "lines"
        /\ 2 < size /\ size <= maxChars + overlap + 4
    BY <1>6 DEF PackGood
  <2> HIDE DEF parts, cur, size, half
  <2>2. size - 2 > 0 /\ size - 2 <= maxChars + overlap + 2
    BY <1>1, <2>1, SizesAssumption
  <2>3. 1 \in DOMAIN cur
    BY <1>1, <1>6
  <2>4. cur[1].kind # "heading"
    BY <2>1, <2>3 DEF CurOf
  <2>5. HasLines(half) # {} /\ \A k \in HasLines(half) : half.items[k].of \in of
    BY <1>3, <2>1 DEF CurOf, HasLines
  <2>6. PieceOf(half, of)
    BY <1>3, <1>6, <2>2, <2>4, <2>5 DEF PieceOf
  <2>7. ToSet(Append(parts, half)) = ToSet(parts) \cup {half}
    BY <1>1, <1>3, ToSetOfAppend
  <2>8. Append(parts, half) # <<>>
    BY <1>1, <1>3
  <2> QED BY <1>2, <1>4, <1>6, <2>6, <2>7, <2>8
<1> QED BY <1>5, <1>6

LEMMA PackGoodNext ==
    ASSUME text \in Seq(Paras), NEW i \in DOMAIN text, NEW pack \in PackType,
           NEW of, i \in of, PackGood(pack, of)
    PROVE  PackGood(Pack(pack, i), of) /\ Written(Pack(pack, i)) # <<>>
<1> DEFINE item == Lines(i, AllLines(i))
           s == ParagraphSize(i)
           written == Written(pack)
           size == IF pack.size > overlap THEN overlap ELSE pack.size
           carry == CarryOn(pack)
<1>1. s \in Nat /\ s > 0 /\ item \in Item /\ item.kind = "lines" /\ item.of = i
  <2>1. i \in Nat /\ AllLines(i) \in Seq(Nat)
    BY AllLinesType
  <2> QED BY <2>1, ParagraphSizeType, LinesItem
<1>2. written \in Seq(Piece) /\ \A p \in ToSet(written) : PieceOf(p, of)
  BY WrittenLines, WrittenGood
<1>3. pack.parts \in Seq(Piece) /\ pack.cur \in Seq(Item) /\ pack.size \in Int
  BY DEF PackType
<1>4. Pack(pack, i) \in PackType /\ carry \in PackType
  BY PackTyped
<1>5. carry = [parts |-> written, cur |-> <<CarriedOver>>, size |-> size + 2]
  BY DEF CarryOn
<1> HIDE DEF item, s, written, carry
\* A paragraph put after what has been packed, when there is room for it.
<1>6. ASSUME NEW next \in PackType, \A p \in ToSet(next.parts) : PieceOf(p, of),
             CurOf(next.cur, of), 0 <= next.size, next.size + s <= maxChars + overlap + 2,
             NEW more, more = [next EXCEPT !.cur = Append(@, item), !.size = @ + s + 2]
      PROVE  PackGood(more, of) /\ more.cur # <<>>
  <2> DEFINE cur == next.cur
             n == Len(cur)
             new == Append(cur, item)
  <2>1. cur \in Seq(Item) /\ next.size \in Int
    BY DEF PackType
  <2>2. more = [parts |-> next.parts, cur |-> new, size |-> next.size + s + 2]
    BY <1>6 DEF PackType
  <2>3. more.parts = next.parts /\ more.cur = new /\ more.size = next.size + s + 2
    BY <2>2
  <2>4. CurOf(cur, of)
    BY <1>6
  <2> HIDE DEF cur
  <2>5. /\ DOMAIN new = 1..n + 1 /\ n \in Nat /\ new[n + 1] = item
        /\ \A k \in 1..n : new[k] = cur[k] /\ k \in DOMAIN cur
    BY <1>1, <2>1
  <2> HIDE DEF new
  <2>6. new # <<>> /\ n + 1 \in DOMAIN new /\ \A k \in DOMAIN new : k = n + 1 \/ k \in 1..n
    BY <2>5
  <2>7. CurOf(new, of)
    BY <1>1, <2>4, <2>5, <2>6 DEF CurOf
  <2>8. \E k \in DOMAIN new : new[k].kind = "lines"
    BY <1>1, <2>5, <2>6
  <2>9. 2 < next.size + s + 2 /\ next.size + s + 2 <= maxChars + overlap + 4
    <3>1. /\ s \in Nat /\ s > 0 /\ next.size \in Int /\ 0 <= next.size
          /\ next.size + s <= maxChars + overlap + 2
      BY <1>1, <1>6, <2>1
    <3> QED BY ONLY <3>1, SizesTyped
  <2> QED BY <1>6, <2>3, <2>6, <2>7, <2>8, <2>9 DEF PackGood
<1>7. CASE s > maxChars
  <2> DEFINE parts == splitLines(i)
  <2>1. parts \in Seq(Piece) /\ parts # <<>> /\ \A p \in ToSet(parts) : PieceOf(p, {i})
    BY SplitLinesPieces
  <2>2. Pack(pack, i) = [parts |-> written \o parts, cur |-> <<>>, size |-> 0]
    BY <1>7 DEF Pack, s, written
  <2> HIDE DEF parts
  <2>3. \A p \in ToSet(parts) : PieceOf(p, of)
    BY <2>1 DEF PieceOf
  <2>4. ToSet(written \o parts) = ToSet(written) \cup ToSet(parts)
    BY <1>2, <2>1, ToSetJoined
  <2>5. written \o parts # <<>>
    BY <1>2, <2>1
  <2>6. CurOf(<<>>, of)
    BY DEF CurOf
  <2>7. Written(Pack(pack, i)) = written \o parts
    BY <2>2 DEF Written
  <2>8. PackGood(Pack(pack, i), of)
    BY <1>2, <2>2, <2>3, <2>4, <2>6 DEF PackGood
  <2> QED BY <2>5, <2>7, <2>8
<1>8. CASE ~ (s > maxChars)
  <2> DEFINE room == pack.size = 0 \/ pack.size + s <= maxChars
             next == IF room THEN pack ELSE carry
             more == [next EXCEPT !.cur = Append(@, item), !.size = @ + s + 2]
  <2>1. Pack(pack, i) = more
    BY <1>8 DEF Pack, s, item, carry
  <2>2. pack.size = 0 \/ pack.size > 2
    BY DEF PackGood
  <2>3. /\ next \in PackType /\ \A p \in ToSet(next.parts) : PieceOf(p, of)
        /\ CurOf(next.cur, of) /\ 0 <= next.size /\ next.size + s <= maxChars + overlap + 2
    <3>1. CASE room
      <4>1. pack.size + s <= maxChars + overlap + 2 /\ 0 <= pack.size
        <5>1. /\ s \in Nat /\ s > 0 /\ s <= maxChars /\ pack.size \in Int
              /\ pack.size = 0 \/ pack.size > 2
              /\ pack.size = 0 \/ pack.size + s <= maxChars
          BY <1>1, <1>3, <1>8, <2>2, <3>1, SizesTyped
        <5> QED BY ONLY <5>1, SizesTyped
      <4>2. \A p \in ToSet(pack.parts) : PieceOf(p, of)
        BY DEF PackGood
      <4>3. CurOf(pack.cur, of)
        BY DEF PackGood
      <4> QED BY <3>1, <4>1, <4>2, <4>3
    <3>2. CASE ~room
      <4>1. pack.size > 2
        BY <2>2, <3>2
      <4>2. 0 <= size + 2 /\ size + 2 + s <= maxChars + overlap + 2
        <5>1. s \in Nat /\ s > 0 /\ s <= maxChars
          BY <1>1, <1>8, SizesTyped
        <5>2. pack.size \in Int /\ pack.size > 2
          BY <1>3, <4>1
        <5>3. size \in Nat /\ size <= overlap
          BY ONLY <5>2, SizesTyped
        <5> HIDE DEF size
        <5> QED BY ONLY <5>1, <5>3, SizesTyped
      <4>3. carry.parts = written /\ carry.cur = <<CarriedOver>> /\ carry.size = size + 2
        BY <1>5
      <4>4. CurOf(<<CarriedOver>>, of)
        BY DEF CurOf, CarriedOver
      <4> HIDE DEF size
      <4> QED BY <1>2, <1>4, <3>2, <4>2, <4>3, <4>4
    <3> QED BY <3>1, <3>2
  <2> HIDE DEF next
  <2>4. PackGood(more, of) /\ more.cur # <<>>
    BY <1>6, <2>3
  <2> HIDE DEF more
  <2> QED BY <1>4, <2>1, <2>4, WrittenGood
<1> QED BY <1>7, <1>8

\* What has been packed after each paragraph.
Packing(r, body) ==
    /\ r \in [0..Len(body) -> PackType] /\ r[0] = NothingPacked
    /\ \A n \in 1..Len(body) : r[n] = Pack(r[n - 1], body[n])

LEMMA PackUnfolds ==
    ASSUME text \in Seq(Paras), NEW body \in Seq(DOMAIN text)
    PROVE  \E r : Packing(r, body) /\ packParagraphs(body) = Written(r[Len(body)])
<1> DEFINE L == Len(body)
           A == PackType
           base == NothingPacked
           F(it) == [s \in SUBSET (1..L) |->
                        IF s = {} THEN base ELSE Pack(it[s \ {Max(s)}], body[Max(s)])]
           step == [n \in 1..L |-> [acc \in A |-> Pack(acc, body[n])]]
<1>1. DOMAIN body = 1..L /\ L \in Nat /\ \A n \in 1..L : body[n] \in DOMAIN text
  OBVIOUS
<1>b. base \in A
  <2>1. <<>> \in Seq(Piece) /\ <<>> \in Seq(Item) /\ 0 \in Int
    OBVIOUS
  <2> QED BY <2>1 DEF NothingPacked, PackType
<1>c. \A n \in 1..L, acc \in A : Pack(acc, body[n]) \in A
  BY <1>1, PackTyped
<1>2. packParagraphs(body) = Written((CHOOSE it : it = F(it))[1..L])
  BY <1>1 DEF packParagraphs, FoldLeft, MapThenFoldSet, NothingPacked
<1> HIDE DEF L, A, base
<1>3. step \in [1..L -> [A -> A]]
  BY <1>c
<1>4. PICK g \in [SUBSET (1..L) -> A] :
          IsFold(g, 1..L, base, [s \in SUBSET (1..L) |-> Max(s)], step)
  <2> HIDE DEF step
  <2> QED BY <1>1, <1>3, <1>b, LeftFold
<1>5. g = F(g)
  <2>1. ASSUME NEW s \in SUBSET (1..L), s # {}
        PROVE  g[s] = Pack(g[s \ {Max(s)}], body[Max(s)])
    <3>1. Max(s) \in 1..L /\ g[s \ {Max(s)}] \in A
      BY <1>1, <2>1, LastPlace
    <3>2. g[s] = step[Max(s)][g[s \ {Max(s)}]]
      BY <1>4, <2>1 DEF IsFold
    <3> QED BY <3>1, <3>2
  <2>2. \A s \in SUBSET (1..L) :
            g[s] = IF s = {} THEN base ELSE Pack(g[s \ {Max(s)}], body[Max(s)])
    BY <1>4, <2>1 DEF IsFold
  <2> QED BY <2>2
<1> DEFINE h == CHOOSE it : it = F(it)
<1>6. h = F(h)
  <2> HIDE DEF F
  <2> QED BY <1>5
<1>7. h[{}] = base
  BY <1>6
<1>8. ASSUME NEW s \in SUBSET (1..L), s # {}, h[s \ {Max(s)}] \in A
      PROVE  h[s] = step[Max(s)][h[s \ {Max(s)}]]
  <2>1. Max(s) \in 1..L
    BY <1>1, <1>8, LastPlace
  <2>2. h[s] = Pack(h[s \ {Max(s)}], body[Max(s)])
    BY <1>6, <1>8
  <2> QED BY <1>8, <2>1, <2>2
<1>9. \A n \in 1..L, acc \in A : step[n][acc] = Pack(acc, body[n])
  OBVIOUS
<1> HIDE DEF h, step
<1>10. FoldsLeft(h, L, A, base, step)
  BY <1>7, <1>8 DEF FoldsLeft
<1>11. PICK r \in [0..L -> A] : r[L] = h[1..L] /\ IsWalk(r, L, base, step)
  BY <1>1, <1>3, <1>b, <1>10, LeftWalk
<1>12. \A n \in 1..L : r[n - 1] \in A
  BY <1>1
<1>13. \A n \in 1..L : r[n] = Pack(r[n - 1], body[n])
  BY <1>9, <1>11, <1>12 DEF IsWalk
<1>14. r[0] = base /\ packParagraphs(body) = Written(r[L])
  BY <1>2, <1>11 DEF IsWalk, h
<1> QED BY <1>13, <1>14 DEF L, A, base, Packing

LEMMA PackedWhole ==
    ASSUME text \in Seq(Paras), NEW body \in Seq(DOMAIN text), body # <<>>
    PROVE  /\ packParagraphs(body) \in Seq(Piece) /\ packParagraphs(body) # <<>>
           /\ \A p \in ToSet(packParagraphs(body)) : PieceOf(p, ToSet(body))
           /\ Gathered(pieceLines, packParagraphs(body)) = Gathered(paraLines, body)
<1> DEFINE L == Len(body)
           of == ToSet(body)
           told(n) == Gathered(paraLines, SubSeq(body, 1, n))
<1>1. PICK r : Packing(r, body) /\ packParagraphs(body) = Written(r[L])
  BY PackUnfolds
<1>2. /\ L \in Nat /\ L # 0 /\ r \in [0..L -> PackType] /\ r[0] = NothingPacked
      /\ \A n \in 1..L : r[n] = Pack(r[n - 1], body[n])
      /\ \A n \in 1..L : body[n] \in DOMAIN text /\ body[n] \in of
  BY <1>1 DEF Packing, ToSet
<1>3. paraLines \in [DOMAIN text -> Seq(Place)]
  BY ParaLinesType
<1>4. \A n \in 1..L : told(n) = told(n - 1) \o paraLines[body[n]]
  <2> TAKE n \in 1..L
  <2>1. SubSeq(body, 1, n) = Append(SubSeq(body, 1, n - 1), body[n])
    BY <1>2, PartAppended
  <2> DEFINE D == DOMAIN text
             before == SubSeq(body, 1, n - 1)
             i == body[n]
  <2>2. before \in Seq(D) /\ i \in D
    <3>1. body \in Seq(D) /\ n \in 1..Len(body)
      OBVIOUS
    <3> HIDE DEF D
    <3>2. SubSeq(body, 1, n - 1) \in Seq(D) /\ body[n] \in D
      BY ONLY <3>1, SubSeqProperties, ElementOfSeq
    <3> QED BY <3>2
  <2> HIDE DEF before, i, D
  <2>3. Gathered(paraLines, Append(before, i)) = Gathered(paraLines, before) \o paraLines[i]
    BY ONLY <1>3, <2>2, GatheredAppended DEF D
  <2> QED BY <2>1, <2>3 DEF before, i
<1>5. told(0) = <<>>
  <2>1. SubSeq(body, 1, 0) = <<>>
    OBVIOUS
  <2>2. Gathered(paraLines, <<>>) = <<>>
    <3> DEFINE D == DOMAIN text
    <3>1. body[1] \in D /\ paraLines \in [D -> Seq(Place)]
      BY <1>2, <1>3
    <3> HIDE DEF D
    <3> QED BY ONLY <3>1, GatheredOne
  <2> QED BY <2>1, <2>2
<1>6. told(L) = Gathered(paraLines, body)
  <2>1. SubSeq(body, 1, L) = body
    OBVIOUS
  <2> QED BY <2>1
<1> HIDE DEF L, of, told
<1> DEFINE T == {n \in Nat : n <= L =>
                    /\ PackLines(r[n]) = told(n) /\ PackGood(r[n], of)
                    /\ n > 0 => Written(r[n]) # <<>>}
<1>7. 0 \in T
  <2> DEFINE none == NothingPacked
  <2>1. none.parts = <<>> /\ none.cur = <<>> /\ none.size = 0
    BY DEF NothingPacked
  <2>2. Gathered(pieceLines, <<>>) = <<>>
    <3>1. [items |-> <<>>, size |-> 0] \in Piece
      <4>1. <<>> \in Seq(Item) /\ 0 \in Int
        OBVIOUS
      <4> QED BY <4>1 DEF Piece
    <3> QED BY <3>1, PieceLinesType, GatheredOne
  <2>3. <<>> \o <<>> = <<>>
    OBVIOUS
  <2>4. PackLines(none) = <<>>
    BY <2>1, <2>2, <2>3, NoLines DEF PackLines
  <2>5. PackGood(none, of)
    BY <2>1 DEF PackGood, CurOf, ToSet
  <2> QED BY <1>2, <1>5, <2>4, <2>5
<1>8. ASSUME NEW n \in 1..L, n - 1 \in T PROVE n \in T
  <2>1. n \in Nat /\ n - 1 \in Nat /\ n - 1 \in 0..L /\ n - 1 <= L
    BY <1>2
  <2> DEFINE pack == r[n - 1]
             i == body[n]
  <2>2. pack \in PackType /\ i \in DOMAIN text /\ i \in of /\ r[n] = Pack(pack, i)
    BY <1>2, <2>1
  <2>3. PackLines(pack) = told(n - 1) /\ PackGood(pack, of)
    BY <1>8, <2>1
  <2>4. told(n) = told(n - 1) \o paraLines[i]
    BY <1>4
  <2> HIDE DEF pack, i
  <2>5. PackLines(Pack(pack, i)) = PackLines(pack) \o paraLines[i]
    BY <2>2, PackTyped
  <2>6. PackGood(Pack(pack, i), of) /\ Written(Pack(pack, i)) # <<>>
    BY <2>2, <2>3, PackGoodNext
  <2>7. PackLines(r[n]) = told(n)
    BY ONLY <2>2, <2>3, <2>4, <2>5
  <2>8. PackGood(r[n], of) /\ Written(r[n]) # <<>>
    BY ONLY <2>2, <2>6
  <2> QED BY <2>1, <2>7, <2>8
<1> HIDE DEF T
<1>9. \A n \in 0..L : n \in T
  BY <1>2, <1>7, <1>8, SetInductionUpTo
<1>10. L \in 0..L /\ L <= L /\ L > 0
  BY <1>2
<1> DEFINE pack == r[L]
<1>11. pack \in PackType /\ PackLines(pack) = told(L) /\ PackGood(pack, of) /\ Written(pack) # <<>>
  BY <1>2, <1>9, <1>10 DEF T
<1> HIDE DEF pack
<1>12. packParagraphs(body) = Written(pack)
  BY <1>1 DEF pack, L
<1>13. Written(pack) \in Seq(Piece) /\ Gathered(pieceLines, Written(pack)) = PackLines(pack)
  BY <1>11, WrittenLines
<1>14. \A p \in ToSet(Written(pack)) : PieceOf(p, of)
  BY <1>11, WrittenGood
<1> QED BY ONLY <1>6, <1>11, <1>12, <1>13, <1>14 DEF of

-----------------------------------------------------------------------------
(* flush: the section that has been read becomes chunks.                   *)

\* What the splitter works on.
SplitTyped ==
    /\ text \in Seq(Paras) /\ buf \in Seq(DOMAIN text)
    /\ out \in Seq(ChunkType) /\ pend \in ChunkType /\ pend.size < minChars
    /\ crumb \in Seq(CrumbName) /\ sections \in Seq(Trail)
    /\ ended \in BOOLEAN

LEMMA BodyLines ==
    ASSUME text \in Seq(Paras), NEW body \in Seq(DOMAIN text)
    PROVE  /\ Body(body) \in Seq(Item) /\ Len(Body(body)) = Len(body)
           /\ \A k \in DOMAIN body : /\ Body(body)[k].kind = "lines"
                                     /\ Body(body)[k].of = body[k]
           /\ Gathered(itemLines, Body(body)) = Gathered(paraLines, body)
<1> DEFINE n == Len(body)
           f == Body(body)
           D == DOMAIN text
<1>1. \A i \in D : /\ Lines(i, AllLines(i)) \in Item
                   /\ itemLines[Lines(i, AllLines(i))] = paraLines[i]
                   /\ Lines(i, AllLines(i)).kind = "lines" /\ Lines(i, AllLines(i)).of = i
  <2> TAKE i \in D
  <2>1. i \in Nat /\ AllLines(i) \in Seq(Nat)
    BY AllLinesType
  <2> QED BY <2>1, LinesItem DEF paraLines
<1>2. n \in Nat /\ DOMAIN body = 1..n /\ \A k \in 1..n : body[k] \in D
  OBVIOUS
<1>3. f = [k \in 1..n |-> Lines(body[k], AllLines(body[k]))]
  BY <1>2 DEF Body
<1> HIDE DEF f, n, D
<1>4. \A k \in 1..n : f[k] = Lines(body[k], AllLines(body[k]))
  BY ONLY <1>3
<1>5. DOMAIN f = 1..n /\ f = [k \in 1..n |-> f[k]]
  BY ONLY <1>3
<1>6. \A k \in 1..n : /\ f[k] \in Item /\ itemLines[f[k]] = paraLines[body[k]]
                      /\ f[k].kind = "lines" /\ f[k].of = body[k]
  BY ONLY <1>1, <1>2, <1>4
<1>7. f \in Seq(Item) /\ Len(f) = n
  BY ONLY <1>2, <1>5, <1>6, ListOf
<1>8. [k \in 1..n |-> itemLines[f[k]]] = [k \in 1..n |-> paraLines[body[k]]]
  BY ONLY <1>6
<1>9. Each(itemLines, f) = Each(paraLines, body)
  BY ONLY <1>2, <1>5, <1>8 DEF Each
<1> QED BY <1>2, <1>6, <1>7, <1>9 DEF Gathered, f, n

LEMMA BodySizeType ==
    ASSUME text \in Seq(Paras), NEW body \in Seq(DOMAIN text)
    PROVE  BodySize(body) \in Nat /\ (body # <<>> => BodySize(body) > 0)
<1> DEFINE n == Len(body)
           sizes == [k \in DOMAIN body |-> ParagraphSize(body[k])]
<1>1. n \in Nat /\ DOMAIN body = 1..n /\ \A k \in 1..n : body[k] \in DOMAIN text
  OBVIOUS
<1>2. \A k \in 1..n : ParagraphSize(body[k]) \in Nat /\ ParagraphSize(body[k]) > 0
  BY <1>1, ParagraphSizeType
<1>3. sizes = [k \in 1..n |-> ParagraphSize(body[k])]
  BY <1>1
<1>4. BodySize(body) = Joined(sizes, 2)
  BY DEF BodySize
<1> HIDE DEF sizes
<1>5. DOMAIN sizes = 1..n /\ sizes = [k \in 1..n |-> sizes[k]]
      /\ \A k \in 1..n : sizes[k] = ParagraphSize(body[k])
  BY ONLY <1>3
<1>6. \A k \in 1..n : sizes[k] \in Nat /\ sizes[k] > 0
  BY ONLY <1>2, <1>5
<1>7. sizes \in Seq(Nat)
  BY ONLY <1>1, <1>5, <1>6, ListOf
<1>8. Joined(sizes, 2) \in Nat /\ \A k \in DOMAIN sizes : sizes[k] <= Joined(sizes, 2)
  <2>1. 0 \in Nat /\ 2 \in Nat
    OBVIOUS
  <2> QED BY ONLY <1>7, <2>1, JoinedAppended
<1>9. body # <<>> => Joined(sizes, 2) > 0
  <2>1. body # <<>> => 1 \in 1..n
    BY <1>1
  <2>2. 1 \in 1..n => sizes[1] > 0 /\ sizes[1] <= Joined(sizes, 2) /\ sizes[1] \in Nat
    BY <1>5, <1>6, <1>8
  <2> QED BY <1>8, <2>1, <2>2
<1> QED BY <1>4, <1>8, <1>9

LEMMA NonEmptyType ==
    ASSUME NEW path \in Seq(CrumbName)
    PROVE  nonEmpty(path) \in Trail
<1> DEFINE a == nonEmpty(path)
<1>1. path \in Seq(CrumbName)
  OBVIOUS
<1>2. a = Only(path, ToSet(path) \ {""})
  BY DEF nonEmpty
<1> HIDE DEF a
<1>3. a \in Seq(CrumbName) /\ ToSet(a) = ToSet(path) \cap (ToSet(path) \ {""})
  BY ONLY <1>1, <1>2, OnlyType
<1>4. ToSet(path) \subseteq CrumbName /\ (ToSet(a) \subseteq Name => a \in Seq(Name))
  BY ONLY <1>1, <1>3, SeqOver
<1>5. ToSet(a) \subseteq Name
  BY <1>3, <1>4 DEF CrumbName
<1> QED BY <1>4, <1>5 DEF Trail, a

\* How long a beginning two breadcrumbs have in common.
Alike(a, b) ==
    {k \in DOMAIN a : \A d \in DOMAIN a : (d > Len(b) \/ a[d] # b[d]) => k < d}

LEMMA SharedIs ==
    ASSUME NEW a \in Trail, NEW b \in Trail
    PROVE  /\ sharedCrumb(a, b) = IF Alike(a, b) = {} THEN a
                                  ELSE SubSeq(a, 1, Cardinality(Alike(a, b)))
           /\ IsFiniteSet(Alike(a, b)) /\ Cardinality(Alike(a, b)) \in 0..Len(a)
           /\ sharedCrumb(a, b) \in Trail
<1> DEFINE shared == Alike(a, b)
           n == Len(a)
<1>1. a \in Seq(Name) /\ n \in Nat /\ DOMAIN a = 1..n
  BY DEF Trail
<1>2. sharedCrumb(a, b) = IF shared = {} THEN a ELSE SubSeq(a, 1, Cardinality(shared))
  <2>1. shared = {k \in DOMAIN a :
                     \A d \in {j \in DOMAIN a : j > Len(b) \/ a[j] # b[j]} : k < d}
    BY DEF Alike
  <2> HIDE DEF shared
  <2> QED BY <2>1 DEF sharedCrumb
<1>3. shared \subseteq 1..n
  BY <1>1 DEF Alike
<1> HIDE DEF shared, n
<1>4. IsFiniteSet(1..n) /\ Cardinality(1..n) = n
  <2>1. 1 \in Int /\ n \in Int /\ n - 1 + 1 = n
    BY <1>1
  <2>2. IsFiniteSet(1..n)
    BY <2>1, FS_Interval
  <2>3. Cardinality(1..n) = IF 1 > n THEN 0 ELSE n - 1 + 1
    BY <2>1, FS_Interval
  <2> QED BY <1>1, <2>1, <2>2, <2>3
<1>5. IsFiniteSet(shared)
  BY <1>3, <1>4, FS_Subset
<1>6. Cardinality(shared) \in Nat /\ Cardinality(shared) <= n
  BY <1>3, <1>4, <1>5, FS_Subset, FS_CardinalityType
<1>7. SubSeq(a, 1, Cardinality(shared)) \in Seq(Name)
  BY <1>1, <1>6 DEF n
<1> QED BY <1>1, <1>2, <1>5, <1>6, <1>7 DEF Trail, shared, n

LEMMA HeadingItem ==
    ASSUME NEW s \in Nat
    PROVE  /\ SubHeading(s) \in Item /\ itemLines[SubHeading(s)] = <<>>
           /\ SubHeading(s).kind = "heading"
<1>1. <<>> \in Seq(Nat)
  OBVIOUS
<1>2. SubHeading(s) \in Item /\ SubHeading(s).kind = "heading"
  BY <1>1 DEF SubHeading, Item
<1> QED BY <1>2 DEF itemLines

\* The items of a section below its heading.
LEMMA HeadedLines ==
    ASSUME NEW s \in Nat, NEW items \in Seq(Item)
    PROVE  /\ <<SubHeading(s)>> \o items \in Seq(Item)
           /\ Gathered(itemLines, <<SubHeading(s)>> \o items) = Gathered(itemLines, items)
<1> DEFINE head == <<SubHeading(s)>>
<1>1. head \in Seq(Item) /\ Gathered(itemLines, head) = <<>>
  BY HeadingItem, ItemLinesType, GatheredOne
<1>2. Gathered(itemLines, items) \in Seq(Place)
  BY ItemLinesType, GatheredType
<1> HIDE DEF head
<1>3. GatheredOfBoth(itemLines, head, items)
  BY <1>1, ItemLinesType, GatheredJoined
<1>4. <<>> \o Gathered(itemLines, items) = Gathered(itemLines, items)
  BY <1>2
<1>5. head \o items \in Seq(Item)
  BY <1>1
<1> QED BY ONLY <1>1, <1>3, <1>4, <1>5 DEF GatheredOfBoth, head

LEMMA MadeChunk ==
    ASSUME NEW heading \in Trail, NEW items \in Seq(Item), NEW size \in Int,
           NEW c, c = [heading |-> heading, items |-> items, size |-> size]
    PROVE  /\ c \in ChunkType /\ chunkLines[c] = Gathered(itemLines, items)
           /\ c.heading = heading /\ c.items = items /\ c.size = size
<1>1. c \in ChunkType
  BY DEF ChunkType
<1> QED BY <1>1 DEF chunkLines

LEMMA PartsLines ==
    ASSUME SplitTyped, NEW body \in Seq(DOMAIN text), body # <<>>
    PROVE  /\ Parts(body) \in Seq(ChunkType) /\ Parts(body) # <<>>
           /\ Len(Parts(body)) = Len(packParagraphs(body))
           /\ \A k \in 1..Len(packParagraphs(body)) :
                  /\ Parts(body)[k].heading = curHead
                  /\ Parts(body)[k].items = packParagraphs(body)[k].items
                  /\ Parts(body)[k].size = packParagraphs(body)[k].size
           /\ Gathered(chunkLines, Parts(body)) = Gathered(paraLines, body)
<1> DEFINE packed == packParagraphs(body)
           parts == Parts(body)
           n == Len(packed)
<1>1. packed \in Seq(Piece) /\ packed # <<>> /\ Gathered(pieceLines, packed) = Gathered(paraLines, body)
  BY PackedWhole DEF SplitTyped
<1>2. curHead \in Trail
  BY NonEmptyType DEF SplitTyped, curHead
<1>3. parts = [k \in DOMAIN packed |->
                  [heading |-> curHead, items |-> packed[k].items, size |-> packed[k].size]]
  BY DEF Parts
<1> HIDE DEF packed, parts
<1>4. n \in Nat /\ n > 0 /\ DOMAIN packed = 1..n /\ \A k \in 1..n : packed[k] \in Piece
  BY <1>1
<1>5. \A k \in 1..n : parts[k] = [heading |-> curHead, items |-> packed[k].items,
                                  size |-> packed[k].size]
  BY ONLY <1>3, <1>4
<1>6. \A k \in 1..n : /\ parts[k] \in ChunkType /\ chunkLines[parts[k]] = pieceLines[packed[k]]
                      /\ parts[k].heading = curHead
                      /\ parts[k].items = packed[k].items /\ parts[k].size = packed[k].size
  <2> TAKE k \in 1..n
  <2>1. packed[k].items \in Seq(Item) /\ packed[k].size \in Int /\ packed[k] \in Piece
    BY <1>4 DEF Piece
  <2> DEFINE items == packed[k].items
             size == packed[k].size
             c == parts[k]
  <2>2. items \in Seq(Item) /\ size \in Int
        /\ c = [heading |-> curHead, items |-> items, size |-> size]
    BY <1>5, <2>1
  <2>3. pieceLines[packed[k]] = Gathered(itemLines, items)
    BY <2>1 DEF pieceLines
  <2> HIDE DEF items, size, c
  <2>4. /\ c \in ChunkType /\ chunkLines[c] = Gathered(itemLines, items)
        /\ c.heading = curHead /\ c.items = items /\ c.size = size
    BY ONLY <1>2, <2>2, MadeChunk
  <2> QED BY <2>3, <2>4 DEF c, items, size
<1>7. DOMAIN parts = 1..n /\ parts = [k \in 1..n |-> parts[k]]
  BY ONLY <1>3, <1>4
<1>8. parts \in Seq(ChunkType) /\ Len(parts) = n /\ parts # <<>>
  BY ONLY <1>4, <1>6, <1>7, ListOf
<1>9. [k \in 1..n |-> chunkLines[parts[k]]] = [k \in 1..n |-> pieceLines[packed[k]]]
  BY ONLY <1>6
<1>10. Each(chunkLines, parts) = Each(pieceLines, packed)
  BY ONLY <1>4, <1>7, <1>9 DEF Each
<1> QED BY <1>1, <1>6, <1>8, <1>10 DEF Gathered, packed, parts

LEMMA MadeChunks ==
    ASSUME SplitTyped, NEW body \in Seq(DOMAIN text)
    PROVE  /\ Alone(body) \in ChunkType /\ Begin(body) \in ChunkType
           /\ chunkLines[Alone(body)] = Gathered(paraLines, body)
           /\ chunkLines[Begin(body)] = Gathered(paraLines, body)
           /\ \A c \in ChunkType :
                  /\ Merge(c, body) \in ChunkType
                  /\ chunkLines[Merge(c, body)] = chunkLines[c] \o Gathered(paraLines, body)
<1> DEFINE items == Body(body)
           s == Len(sections)
           size == BodySize(body)
           headed == <<SubHeading(s)>> \o items
<1>1. items \in Seq(Item) /\ Gathered(itemLines, items) = Gathered(paraLines, body)
  BY BodyLines DEF SplitTyped
<1>2. curHead \in Trail /\ s \in Nat /\ size \in Nat
  <2>1. s \in Nat
    BY DEF SplitTyped
  <2>2. size \in Nat
    BY BodySizeType DEF SplitTyped
  <2>3. curHead \in Trail
    BY NonEmptyType DEF SplitTyped, curHead
  <2> QED BY <2>1, <2>2, <2>3
<1> HIDE DEF items, s, size
<1>3. headed \in Seq(Item) /\ Gathered(itemLines, headed) = Gathered(itemLines, items)
  BY <1>1, <1>2, HeadedLines
<1>4. size \in Int /\ subHeadingSize + size \in Int
  BY <1>2, SizesAssumption
<1>5. Alone(body) = [heading |-> curHead, items |-> items, size |-> size]
  BY DEF Alone, items, size
<1>6. Begin(body) = [heading |-> curHead, items |-> headed, size |-> subHeadingSize + size]
  BY DEF Begin, items, size, s
<1> HIDE DEF headed
<1>7. Alone(body) \in ChunkType /\ chunkLines[Alone(body)] = Gathered(paraLines, body)
  BY ONLY <1>1, <1>2, <1>4, <1>5, MadeChunk
<1>8. Begin(body) \in ChunkType /\ chunkLines[Begin(body)] = Gathered(paraLines, body)
  BY ONLY <1>1, <1>2, <1>3, <1>4, <1>6, MadeChunk
<1>9. ASSUME NEW c \in ChunkType
      PROVE  /\ Merge(c, body) \in ChunkType
             /\ chunkLines[Merge(c, body)] = chunkLines[c] \o Gathered(paraLines, body)
  <2> DEFINE heading == sharedCrumb(c.heading, curHead)
             all == c.items \o headed
             total == c.size + 2 + subHeadingSize + size
  <2>1. c.heading \in Trail /\ c.items \in Seq(Item) /\ c.size \in Int
        /\ chunkLines[c] = Gathered(itemLines, c.items)
    BY DEF ChunkType, chunkLines
  <2>2. heading \in Trail
    BY <1>2, <2>1, SharedIs
  <2>3. all \in Seq(Item)
    BY <1>3, <2>1
  <2>4. GatheredOfBoth(itemLines, c.items, headed)
    BY <1>3, <2>1, ItemLinesType, GatheredJoined
  <2>5. total \in Int
    BY <1>2, <2>1, SizesAssumption
  <2>6. Merge(c, body) = [heading |-> heading, items |-> all, size |-> total]
    <3>1. Merge(c, body) = [heading |-> heading,
                            items |-> c.items \o <<SubHeading(s)>> \o items, size |-> total]
      BY DEF Merge, items, s, size
    <3>2. (c.items \o <<SubHeading(s)>>) \o items = c.items \o (<<SubHeading(s)>> \o items)
      <4> DEFINE a == c.items
                 b == <<SubHeading(s)>>
      <4>1. a \in Seq(Item) /\ b \in Seq(Item)
        BY <1>2, <2>1, HeadingItem
      <4> HIDE DEF a, b
      <4>2. Associates(a, b, items)
        BY <1>1, <4>1, JoinAssociates
      <4> QED BY <4>2 DEF Associates, a, b
    <3> QED BY <3>1, <3>2 DEF headed
  <2> HIDE DEF heading, all, total
  <2>7. Merge(c, body) \in ChunkType /\ chunkLines[Merge(c, body)] = Gathered(itemLines, all)
    BY ONLY <2>2, <2>3, <2>5, <2>6, MadeChunk
  <2> QED BY <1>1, <1>3, <2>1, <2>4, <2>7 DEF GatheredOfBoth, all
<1> QED BY <1>7, <1>8, <1>9

LEMMA NoChunkType == NoChunk \in ChunkType /\ chunkLines[NoChunk] = <<>> /\ NoChunk.size = 0
<1>1. <<>> \in Trail /\ <<>> \in Seq(Item) /\ 0 \in Int
  BY DEF Trail
<1>2. NoChunk \in ChunkType /\ chunkLines[NoChunk] = Gathered(itemLines, <<>>) /\ NoChunk.size = 0
  <2> DEFINE heading == <<>>
             items == <<>>
             size == 0
             c == NoChunk
  <2>1. heading \in Trail /\ items \in Seq(Item) /\ size \in Int
    BY <1>1
  <2>2. c = [heading |-> heading, items |-> items, size |-> size]
    BY DEF NoChunk
  <2>4. items = <<>> /\ size = 0
    OBVIOUS
  <2> HIDE DEF heading, items, size, c
  <2>3. c \in ChunkType /\ chunkLines[c] = Gathered(itemLines, items) /\ c.size = size
    BY ONLY <2>1, <2>2, MadeChunk
  <2> QED BY <2>3, <2>4 DEF c
<1> QED BY <1>2, NoLines

\* The lines of the chunks made and of the one that waits.
Told(list, c) == Gathered(chunkLines, list) \o chunkLines[c]

LEMMA ToldType ==
    ASSUME NEW list \in Seq(ChunkType), NEW c \in ChunkType
    PROVE  /\ Told(list, c) \in Seq(Place) /\ Gathered(chunkLines, list) \in Seq(Place)
           /\ Told(list, NoChunk) = Gathered(chunkLines, list)
           /\ Append(list, c) \in Seq(ChunkType)
           /\ Gathered(chunkLines, Append(list, c)) = Told(list, c)
<1>1. Gathered(chunkLines, list) \in Seq(Place)
  BY ChunkLinesType, GatheredType
<1>2. chunkLines[c] \in Seq(Place)
  BY ChunkLinesType
<1>3. Told(list, c) \in Seq(Place)
  BY <1>1, <1>2 DEF Told
<1>4. Gathered(chunkLines, list) \o <<>> = Gathered(chunkLines, list)
  BY <1>1
<1>5. Told(list, NoChunk) = Gathered(chunkLines, list)
  BY <1>4, NoChunkType DEF Told
<1>6. Gathered(chunkLines, Append(list, c)) = Gathered(chunkLines, list) \o chunkLines[c]
  BY ChunkLinesType, GatheredAppended
<1> QED BY <1>1, <1>3, <1>5, <1>6 DEF Told

LEMMA ChunksLines ==
    ASSUME SplitTyped
    PROVE  /\ Chunks \in Seq(ChunkType) /\ Gathered(chunkLines, Chunks) = Told(out, pend)
           /\ Chunks = IF pend = NoChunk THEN out ELSE Append(out, pend)
<1>1. out \in Seq(ChunkType) /\ pend \in ChunkType
  BY DEF SplitTyped
<1>2. Chunks = IF pend = NoChunk THEN out ELSE Append(out, pend)
  <2>1. out \o <<>> = out /\ out \o <<pend>> = Append(out, pend)
    BY <1>1, AppendIsConcat
  <2> QED BY <2>1 DEF Chunks
<1> QED BY <1>1, <1>2, ToldType

\* flush, with the section under the floor put to the one that waits: their
\* lengths together are always below the limit.
LEMMA FlushedIs ==
    ASSUME SplitTyped, NEW body \in Seq(DOMAIN text)
    PROVE  \/ body = <<>> /\ Flushed(body) = [out |-> out, pend |-> pend]
           \/ /\ body # <<>> /\ BodySize(body) > maxChars
              /\ Flushed(body) = [out |-> Chunks \o Parts(body), pend |-> NoChunk]
           \/ /\ body # <<>> /\ BodySize(body) \in minChars..maxChars
              /\ Flushed(body) = [out |-> Append(Chunks, Alone(body)), pend |-> NoChunk]
           \/ /\ body # <<>> /\ BodySize(body) < minChars /\ pend # NoChunk
              /\ Flushed(body) = Emit(out, Merge(pend, body))
           \/ /\ body # <<>> /\ BodySize(body) < minChars /\ pend = NoChunk
              /\ Flushed(body) = Emit(out, Begin(body))
<1> DEFINE size == BodySize(body)
<1>1. size \in Nat /\ (body # <<>> => size > 0)
  BY BodySizeType DEF SplitTyped
<1>2. pend.size \in Int /\ pend.size < minChars
  <2>1. pend \in ChunkType /\ pend.size < minChars
    BY DEF SplitTyped
  <2> QED BY ONLY <2>1 DEF ChunkType
<1>3. maxChars \in Nat /\ minChars \in Nat /\ minChars > 0 /\ 2 * minChars < maxChars
  BY SizesAssumption
<1>4. Chunks = IF pend = NoChunk THEN out ELSE Append(out, pend)
  BY ChunksLines
<1>5. body = <<>> => size = 0
  <2>1. ASSUME body = <<>> PROVE size = 0
    BY <2>1 DEF BodySize, Joined
  <2> QED BY <2>1
<1> HIDE DEF size
<1>6. CASE body = <<>>
  <2>1. ~ (size \in minChars..maxChars)
    BY <1>3, <1>5, <1>6
  <2>2. Flushed(body) = [out |-> out, pend |-> pend]
    BY <1>6, <2>1 DEF Flushed, size
  <2> QED BY <1>6, <2>2
<1>7. CASE body # <<>> /\ size > maxChars
  <2>1. ~ (size \in minChars..maxChars) /\ ~ (size < minChars)
    BY <1>1, <1>3, <1>7
  <2>2. Flushed(body) = Split(body)
    BY <1>7, <2>1 DEF Flushed, size
  <2> QED BY <1>7, <2>2 DEF Split, size
<1>8. CASE body # <<>> /\ size \in minChars..maxChars
  <2>1. ~ (size > maxChars) /\ ~ (size < minChars)
    BY <1>1, <1>3, <1>8
  <2>2. Flushed(body) = [out |-> Append(Chunks, Alone(body)), pend |-> NoChunk]
    BY <1>8, <2>1 DEF Flushed, size
  <2> QED BY <1>8, <2>2 DEF size
<1>9. CASE body # <<>> /\ size < minChars
  <2>1. ~ (size > maxChars) /\ ~ (size \in minChars..maxChars)
    BY <1>1, <1>3, <1>9
  <2>2. Flushed(body) = Hold(body)
    BY <1>9, <2>1 DEF Flushed, size
  <2>3. pend # NoChunk => pend.size + size <= maxChars
    BY <1>1, <1>2, <1>3, <1>9
  <2>4. Hold(body) = IF pend # NoChunk THEN Emit(out, Merge(pend, body))
                     ELSE Emit(out, Begin(body))
    BY <1>4, <2>3 DEF Hold, size
  <2> QED BY <1>9, <2>2, <2>4 DEF size
<1>10. size > maxChars \/ size \in minChars..maxChars \/ size < minChars
  BY <1>1, <1>3
<1> QED BY <1>6, <1>7, <1>8, <1>9, <1>10

\* A chunk made of what waited, or of nothing, and a section: it is put among the
\* chunks, or waits.
LEMMA EmitLines ==
    ASSUME NEW before \in Seq(ChunkType), NEW c \in ChunkType, NEW f, f = Emit(before, c)
    PROVE  /\ f.out \in Seq(ChunkType) /\ f.pend \in ChunkType /\ f.pend.size < minChars
           /\ Told(f.out, f.pend) = Told(before, c)
           /\ \/ c.size >= minChars /\ f.out = Append(before, c) /\ f.pend = NoChunk
              \/ c.size < minChars /\ f.out = before /\ f.pend = c
<1>1. c.size \in Int /\ minChars \in Nat /\ minChars > 0
  BY SizesAssumption DEF ChunkType
<1>2. CASE c.size >= minChars
  <2>1. f.out = Append(before, c) /\ f.pend = NoChunk
    BY <1>2 DEF Emit
  <2>2. f.out \in Seq(ChunkType)
    BY <2>1, ToldType
  <2>3. Told(f.out, NoChunk) = Gathered(chunkLines, f.out)
    BY <2>2, NoChunkType, ToldType
  <2>4. Gathered(chunkLines, Append(before, c)) = Told(before, c)
    BY ToldType
  <2> QED BY <1>1, <1>2, <2>1, <2>2, <2>3, <2>4, NoChunkType
<1>3. CASE c.size < minChars
  <2>1. f.out = before /\ f.pend = c
    BY <1>1, <1>3 DEF Emit
  <2> QED BY <1>3, <2>1
<1> QED BY <1>1, <1>2, <1>3

LEMMA FlushedLines ==
    ASSUME SplitTyped, NEW body \in Seq(DOMAIN text), NEW f, f = Flushed(body)
    PROVE  /\ f.out \in Seq(ChunkType) /\ f.pend \in ChunkType /\ f.pend.size < minChars
           /\ Told(f.out, f.pend) = Told(out, pend) \o Gathered(paraLines, body)
<1> DEFINE lines == Gathered(paraLines, body)
           D == DOMAIN text
<1>1. out \in Seq(ChunkType) /\ pend \in ChunkType /\ pend.size < minChars
  BY DEF SplitTyped
<1>2. lines \in Seq(Place)
  <2>1. paraLines \in [D -> Seq(Place)] /\ body \in Seq(D)
    BY ParaLinesType DEF SplitTyped
  <2> HIDE DEF D
  <2> QED BY ONLY <2>1, GatheredType
<1>3. Told(out, pend) \in Seq(Place)
  BY <1>1, ToldType
<1>4. Chunks \in Seq(ChunkType) /\ Gathered(chunkLines, Chunks) = Told(out, pend)
  BY ChunksLines
<1>5. CASE body = <<>> /\ f = [out |-> out, pend |-> pend]
  <2>1. f.out = out /\ f.pend = pend
    BY <1>5
  <2>2. lines = <<>>
    <3>1. Each(paraLines, body) = <<>>
      BY <1>5 DEF Each
    <3> QED BY <3>1, FlatOne, <1>2 DEF Gathered
  <2>3. Told(out, pend) \o <<>> = Told(out, pend)
    BY <1>3
  <2> QED BY ONLY <1>1, <2>1, <2>2, <2>3
<1>6. CASE body # <<>> /\ f = [out |-> Chunks \o Parts(body), pend |-> NoChunk]
  <2> DEFINE parts == Parts(body)
             all == Chunks \o parts
  <2>1. parts \in Seq(ChunkType) /\ Gathered(chunkLines, parts) = lines
    BY <1>6, PartsLines
  <2>2. f.out = all /\ f.pend = NoChunk
    BY <1>6
  <2> HIDE DEF parts, lines
  <2>3. all \in Seq(ChunkType)
    BY <1>4, <2>1
  <2>4. GatheredOfBoth(chunkLines, Chunks, parts)
    BY <1>4, <2>1, ChunkLinesType, GatheredJoined
  <2>5. Gathered(chunkLines, all) = Told(out, pend) \o lines
    BY <1>4, <2>1, <2>4 DEF GatheredOfBoth
  <2>6. Told(all, NoChunk) = Gathered(chunkLines, all)
    BY <2>3, NoChunkType, ToldType
  <2>7. NoChunk.size < minChars
    BY NoChunkType, SizesAssumption
  <2> HIDE DEF all
  <2> QED BY ONLY <2>2, <2>3, <2>5, <2>6, <2>7, NoChunkType DEF lines
<1>7. CASE f = [out |-> Append(Chunks, Alone(body)), pend |-> NoChunk]
  <2> DEFINE c == Alone(body)
             all == Append(Chunks, c)
  <2>1. c \in ChunkType /\ chunkLines[c] = lines
    BY MadeChunks
  <2>2. f.out = all /\ f.pend = NoChunk
    BY <1>7
  <2> HIDE DEF c, lines
  <2>3. all \in Seq(ChunkType) /\ Gathered(chunkLines, all) = Told(Chunks, c)
    BY <1>4, <2>1, ToldType
  <2>4. Told(Chunks, c) = Told(out, pend) \o lines
    BY <1>4, <2>1 DEF Told
  <2>6. Told(all, NoChunk) = Gathered(chunkLines, all)
    BY <2>3, NoChunkType, ToldType
  <2>7. NoChunk.size < minChars
    BY NoChunkType, SizesAssumption
  <2> HIDE DEF all
  <2> QED BY ONLY <2>2, <2>3, <2>4, <2>6, <2>7, NoChunkType DEF lines
<1>8. CASE f = Emit(out, Merge(pend, body))
  <2> DEFINE c == Merge(pend, body)
             x == Gathered(chunkLines, out)
             y == chunkLines[pend]
  <2>1. c \in ChunkType /\ chunkLines[c] = y \o lines
    BY <1>1, MadeChunks
  <2> HIDE DEF c, lines
  <2>2. /\ f.out \in Seq(ChunkType) /\ f.pend \in ChunkType /\ f.pend.size < minChars
        /\ Told(f.out, f.pend) = Told(out, c)
    BY <1>1, <1>8, <2>1, EmitLines DEF c
  <2>3. x \in Seq(Place) /\ y \in Seq(Place)
    BY <1>1, ToldType, ChunkLinesType
  <2>4. Told(out, c) = x \o (y \o lines) /\ Told(out, pend) = x \o y
    BY <2>1 DEF Told
  <2> HIDE DEF x, y
  <2>5. (x \o y) \o lines = x \o (y \o lines)
    <3>1. Associates(x, y, lines)
      BY <1>2, <2>3, JoinAssociates DEF lines
    <3> QED BY <3>1 DEF Associates
  <2> QED BY ONLY <2>2, <2>4, <2>5 DEF lines
<1>9. CASE pend = NoChunk /\ f = Emit(out, Begin(body))
  <2> DEFINE c == Begin(body)
  <2>1. c \in ChunkType /\ chunkLines[c] = lines
    BY MadeChunks
  <2> HIDE DEF c, lines
  <2>2. /\ f.out \in Seq(ChunkType) /\ f.pend \in ChunkType /\ f.pend.size < minChars
        /\ Told(f.out, f.pend) = Told(out, c)
    BY <1>1, <1>9, <2>1, EmitLines DEF c
  <2>3. Told(out, pend) = Gathered(chunkLines, out)
    BY <1>1, <1>9, ToldType
  <2>4. Told(out, c) = Gathered(chunkLines, out) \o lines
    BY <2>1 DEF Told
  <2> QED BY ONLY <2>2, <2>3, <2>4 DEF lines
<1> QED BY <1>5, <1>6, <1>7, <1>8, <1>9, FlushedIs

-----------------------------------------------------------------------------
(* Nothing is lost: the lines of the chunks and of the section being read  *)
(* are those of the text.                                                  *)

LinesInv == Told(out, pend) \o Gathered(paraLines, buf) = Flat(paraLines)

LEMMA LinesInvMeans ==
    ASSUME SplitTyped, LinesInv
    PROVE  NothingIsLost
<1> DEFINE chunks == Chunks
<1>1. chunks \in Seq(ChunkType) /\ Gathered(chunkLines, chunks) = Told(out, pend)
  BY ChunksLines
<1> HIDE DEF chunks
<1>2. \A k \in DOMAIN chunks : LinesIn(chunks[k]) = chunkLines[chunks[k]]
  <2> TAKE k \in DOMAIN chunks
  <2>1. chunks[k] \in ChunkType
    BY <1>1
  <2>2. chunks[k].items \in Seq(Item)
    BY <2>1 DEF ChunkType
  <2> QED BY <2>1, <2>2, LinesInIs DEF chunkLines
<1>3. [k \in DOMAIN chunks |-> LinesIn(chunks[k])] = Each(chunkLines, chunks)
  BY ONLY <1>2 DEF Each
<1>4. [k \in DOMAIN buf |-> LinesOf(buf[k], AllLines(buf[k]))] = Each(paraLines, buf)
  <2>1. \A k \in DOMAIN buf : buf[k] \in DOMAIN text
    BY DEF SplitTyped
  <2>2. \A k \in DOMAIN buf : LinesOf(buf[k], AllLines(buf[k])) = paraLines[buf[k]]
    BY <2>1 DEF paraLines
  <2> QED BY ONLY <2>2 DEF Each
<1>5. [i \in DOMAIN text |-> LinesOf(i, AllLines(i))] = paraLines
  BY DEF paraLines
<1> QED BY ONLY <1>1, <1>3, <1>4, <1>5, LinesInv DEF NothingIsLost, LinesInv, Gathered, chunks

LEMMA SplitTypedInit == SplitInit => SplitTyped /\ LinesInv
<1> SUFFICES ASSUME SplitInit PROVE SplitTyped /\ LinesInv
  OBVIOUS
<1>1. /\ text = <<>> /\ sections = <<>> /\ crumb = <<>> /\ buf = <<>>
      /\ pend = NoChunk /\ out = <<>> /\ ended = FALSE
  BY DEF SplitInit
<1>2. SplitTyped
  <2>1. \A S : <<>> \in Seq(S)
    OBVIOUS
  <2>2. pend \in ChunkType /\ pend.size < minChars
    BY <1>1, NoChunkType, SizesAssumption
  <2>3. ended \in BOOLEAN
    BY <1>1
  <2> QED BY ONLY <1>1, <2>1, <2>2, <2>3 DEF SplitTyped
<1>3. paraLines = <<>> /\ Each(paraLines, buf) = <<>>
  BY <1>1 DEF paraLines, Each
<1>4. Told(out, pend) = <<>>
  <2>1. Told(<<>>, NoChunk) = Gathered(chunkLines, <<>>)
    <3>1. <<>> \in Seq(ChunkType)
      OBVIOUS
    <3> QED BY <3>1, NoChunkType, ToldType
  <2>2. Gathered(chunkLines, <<>>) = <<>>
    BY NoChunkType, ChunkLinesType, GatheredOne
  <2> QED BY <1>1, <2>1, <2>2
<1>5. Flat(<<>>) = <<>>
  <2>1. <<>> \in Seq(Nat)
    OBVIOUS
  <2> QED BY <2>1, FlatOne
<1>6. <<>> \o <<>> = <<>>
  OBVIOUS
<1>7. LinesInv
  BY ONLY <1>3, <1>4, <1>5, <1>6 DEF LinesInv, Gathered
<1> QED BY <1>2, <1>7

\* A section begins: the one before it becomes chunks.
LEMMA TypedReadHeading ==
    ASSUME SplitTyped, NEW level \in Level, NEW name \in Name, ReadHeading(level, name)
    PROVE  SplitTyped' /\ (LinesInv => LinesInv')
<1> DEFINE f == Flushed(buf)
<1>1. /\ out' = f.out /\ pend' = f.pend /\ buf' = <<>> /\ crumb' = crumbAt(level, name)
      /\ sections' = Append(sections, nonEmpty(crumb')) /\ text' = text /\ ended' = ended
  BY DEF ReadHeading, Flush
<1>2. /\ text \in Seq(Paras) /\ buf \in Seq(DOMAIN text) /\ crumb \in Seq(CrumbName)
      /\ sections \in Seq(Trail) /\ ended \in BOOLEAN
  BY DEF SplitTyped
<1> HIDE DEF f
<1>3. /\ f.out \in Seq(ChunkType) /\ f.pend \in ChunkType /\ f.pend.size < minChars
      /\ Told(f.out, f.pend) = Told(out, pend) \o Gathered(paraLines, buf)
  BY <1>2, FlushedLines DEF f
<1>4. crumbAt(level, name) \in Seq(CrumbName)
  <2> DEFINE at == crumbAt(level, name)
  <2>1. level \in Nat
    <3>1. Level \subseteq 1..6
      BY HeadingAssumption, Zenon
    <3> QED BY ONLY <3>1, level \in Level
  <2>2. at = [k \in 1..level |-> IF k = level THEN name
                                 ELSE IF k \in DOMAIN crumb THEN crumb[k] ELSE ""]
    BY DEF crumbAt
  <2>3. name \in CrumbName /\ "" \in CrumbName /\ \A k \in DOMAIN crumb : crumb[k] \in CrumbName
    <3>1. \A k \in DOMAIN crumb : crumb[k] \in CrumbName
      BY <1>2
    <3>2. name \in CrumbName /\ "" \in CrumbName
      BY Zenon DEF CrumbName
    <3> QED BY <3>1, <3>2
  <2> HIDE DEF at
  <2>4. DOMAIN at = 1..level /\ at = [k \in 1..level |-> at[k]]
    BY ONLY <2>2
  <2>5. \A k \in 1..level : at[k] \in CrumbName
    BY ONLY <2>2, <2>3
  <2>6. at \in Seq(CrumbName)
    BY ONLY <2>1, <2>4, <2>5, ListOf
  <2> QED BY <2>6 DEF at
<1>5. nonEmpty(crumbAt(level, name)) \in Trail
  BY <1>4, NonEmptyType
<1>6. sections' \in Seq(Trail)
  <2> DEFINE s == nonEmpty(crumbAt(level, name))
  <2>1. s \in Trail /\ sections' = Append(sections, s)
    BY <1>1, <1>5
  <2> HIDE DEF s
  <2> QED BY ONLY <1>2, <2>1, AppendProperties
<1>7. SplitTyped'
  <2>1. buf' \in Seq(DOMAIN text')
    BY <1>1
  <2> QED BY ONLY <1>1, <1>2, <1>3, <1>4, <1>6, <2>1 DEF SplitTyped
<1>8. ASSUME LinesInv PROVE LinesInv'
  <2>1. paraLines' = paraLines
    BY <1>1 DEF paraLines, AllLines
  <2>2. Told(f.out, f.pend) = Flat(paraLines)
    BY ONLY <1>3, <1>8 DEF LinesInv
  <2>3. Each(paraLines, <<>>) = <<>>
    BY DEF Each
  <2>4. Gathered(paraLines, <<>>) = <<>>
    <3>1. <<>> \in Seq(Nat)
      OBVIOUS
    <3> QED BY <2>3, <3>1, FlatOne DEF Gathered
  <2>5. Told(f.out, f.pend) \in Seq(Place)
    BY <1>3, ToldType
  <2>6. Told(f.out, f.pend) \o <<>> = Told(f.out, f.pend)
    BY <2>5
  <2> QED BY ONLY <1>1, <2>1, <2>2, <2>4, <2>6 DEF LinesInv
<1> QED BY <1>7, <1>8

\* A paragraph is read: it is the last of the section and of the text.
LEMMA TypedReadParagraph ==
    ASSUME SplitTyped, NEW p \in Paragraph, ReadParagraph(p)
    PROVE  SplitTyped' /\ (LinesInv => LinesInv')
<1> DEFINE x == [lines |-> p.lines, table |-> p.table, section |-> Len(sections)]
           n == Len(text)
           D == DOMAIN text
           more == Append(text, x)
<1>1. /\ text' = more /\ buf' = Append(buf, n + 1) /\ sections' = sections /\ crumb' = crumb
      /\ pend' = pend /\ out' = out /\ ended' = ended
  BY DEF ReadParagraph
<1>2. /\ text \in Seq(Paras) /\ buf \in Seq(D) /\ crumb \in Seq(CrumbName)
      /\ sections \in Seq(Trail) /\ ended \in BOOLEAN
      /\ out \in Seq(ChunkType) /\ pend \in ChunkType /\ pend.size < minChars
  BY DEF SplitTyped
<1>3. x \in Paras
  <2>1. p \in [lines : Seq(Nat \ {0}), table : BOOLEAN] /\ p.lines # <<>>
    BY ParagraphAssumption
  <2> DEFINE lines == p.lines
             s == Len(sections)
  <2>2. lines \in Seq(Nat \ {0}) /\ lines # <<>> /\ p.table \in BOOLEAN /\ s \in Nat
    BY <1>2, <2>1
  <2> HIDE DEF lines, s
  <2>3. [lines |-> lines, table |-> p.table, section |-> s] \in Paras
    BY <2>2 DEF Paras
  <2> QED BY <2>3 DEF lines, s
<1> HIDE DEF x
<1>4. /\ n \in Nat /\ D = 1..n /\ more \in Seq(Paras) /\ Len(more) = n + 1
      /\ DOMAIN more = 1..n + 1 /\ more[n + 1] = x /\ \A i \in 1..n : more[i] = text[i]
  BY <1>2, <1>3
<1> HIDE DEF n, more, D
<1>5. text' \in Seq(Paras) /\ D \subseteq DOMAIN text' /\ n + 1 \in DOMAIN text'
  BY <1>1, <1>4
<1>6. buf' \in Seq(DOMAIN text')
  <2> DEFINE E == DOMAIN text'
  <2>1. D \subseteq E /\ n + 1 \in E
    BY <1>5
  <2> HIDE DEF E
  <2>2. buf \in Seq(E)
    BY ONLY <1>2, <2>1, WiderSeq
  <2>3. Append(buf, n + 1) \in Seq(E)
    BY ONLY <2>1, <2>2, AppendProperties
  <2> QED BY ONLY <1>1, <2>3 DEF E
<1>7. SplitTyped'
  BY ONLY <1>1, <1>2, <1>5, <1>6 DEF SplitTyped
<1>8. /\ paraLines \in [D -> Seq(Place)] /\ paraLines \in Seq(Seq(Place)) /\ Len(paraLines) = n
      /\ paraLines' = Append(paraLines, paraLines'[n + 1]) /\ paraLines'[n + 1] \in Seq(Place)
      /\ paraLines' \in [1..n + 1 -> Seq(Place)] /\ \A i \in D : paraLines'[i] = paraLines[i]
  <2>1. paraLines \in [D -> Seq(Place)] /\ paraLines \in Seq(Seq(Place))
    BY <1>2, ParaLinesType DEF D
  <2>2. paraLines' \in [DOMAIN text' -> Seq(Place)]
    <3>1. ASSUME NEW i \in DOMAIN text' PROVE LinesOf(i, AllLines(i)') \in Seq(Place)
      <4> DEFINE lines == text'[i].lines
                 all == AllLines(i)'
      <4>1. text'[i] \in Paras /\ i \in Nat
        BY <1>5
      <4>2. lines \in Seq(Nat \ {0})
        BY <4>1 DEF Paras
      <4>3. all = [k \in DOMAIN lines |-> k]
        BY DEF AllLines
      <4> HIDE DEF lines, all
      <4>4. all \in Seq(Nat)
        BY <4>2, <4>3
      <4> QED BY <4>1, <4>4, LinesOfType DEF all
    <3>2. paraLines' = [i \in DOMAIN text' |-> LinesOf(i, AllLines(i)')]
      BY DEF paraLines
    <3> QED BY ONLY <3>1, <3>2
  <2>3. \A i \in D : paraLines'[i] = paraLines[i]
    <3> TAKE i \in D
    <3>1. text'[i] = text[i] /\ i \in DOMAIN text' /\ i \in DOMAIN text
      BY <1>1, <1>4 DEF D
    <3>2. AllLines(i)' = AllLines(i)
      BY <3>1 DEF AllLines
    <3> QED BY <3>1, <3>2 DEF paraLines
  <2> DEFINE S == Seq(Place)
             a == paraLines
             b == paraLines'
  <2>4. a \in [D -> S] /\ b \in [1..n + 1 -> S] /\ \A i \in D : b[i] = a[i]
    BY <1>1, <1>4, <2>1, <2>2, <2>3
  <2> HIDE DEF S, a, b
  <2>5. a \in Seq(S) /\ Len(a) = n
    BY <1>4, <2>4
  <2>6. b = Append(a, b[n + 1]) /\ b[n + 1] \in S
    BY <1>4, <2>4, <2>5
  <2> QED BY ONLY <2>1, <2>3, <2>4, <2>5, <2>6 DEF S, a, b
<1>9. ASSUME LinesInv PROVE LinesInv'
  <2> DEFINE a == paraLines
             b == paraLines'
             y == b[n + 1]
             told == Told(out, pend)
             old == Gathered(a, buf)
  <2>1. told \in Seq(Place)
    BY <1>2, ToldType
  <2>2. old \in Seq(Place)
    BY ONLY <1>2, <1>8, GatheredType
  <2>3. told \o old = Flat(a)
    BY <1>9 DEF LinesInv
  <2>4. a \in Seq(Seq(Place)) /\ y \in Seq(Place) /\ b = Append(a, y)
    BY <1>8
  <2>5. told' = told
    BY ONLY <1>1 DEF Told
  <2>6. b \in [1..n + 1 -> Seq(Place)] /\ \A i \in D : b[i] = a[i]
    BY <1>8
  <2>7. Gathered(b, Append(buf, n + 1)) = old \o y
    <3>1. Gathered(b, Append(buf, n + 1)) = Gathered(b, buf) \o y
      <4> DEFINE E == 1..n + 1
      <4>1. buf \in Seq(E) /\ n + 1 \in E
        <5>1. D \subseteq E /\ n + 1 \in E
          BY <1>4
        <5> HIDE DEF E
        <5> QED BY ONLY <1>2, <5>1, WiderSeq
      <4>2. b \in [E -> Seq(Place)]
        BY <2>6
      <4> HIDE DEF E, b
      <4> QED BY ONLY <4>1, <4>2, GatheredAppended
    <3>2. Each(b, buf) = Each(a, buf)
      <4>1. \A k \in DOMAIN buf : buf[k] \in D
        BY <1>2
      <4>2. \A k \in DOMAIN buf : b[buf[k]] = a[buf[k]]
        BY ONLY <2>6, <4>1
      <4> QED BY ONLY <4>2 DEF Each
    <3> QED BY ONLY <3>1, <3>2 DEF Gathered
  <2>8. Flat(b) = Flat(a) \o y
    <3> HIDE DEF a, b, y
    <3>1. Append(a, y) = a \o <<y>> /\ <<y>> \in Seq(Seq(Place))
      <4> DEFINE S == Seq(Place)
      <4>1. a \in Seq(S) /\ y \in S
        BY <2>4
      <4> HIDE DEF S
      <4>2. Append(a, y) = a \o <<y>> /\ <<y>> \in Seq(S)
        BY <4>1, AppendIsConcat
      <4> QED BY <4>2 DEF S
    <3> DEFINE one == <<y>>
    <3>2. Flat(one) = y
      BY ONLY <2>4, FlatOne
    <3>3. one \in Seq(Seq(Place)) /\ Append(a, y) = a \o one
      BY <3>1
    <3> HIDE DEF one
    <3>4. Flat(a \o one) = Flat(a) \o Flat(one)
      BY ONLY <2>4, <3>3, FlatJoined
    <3> QED BY ONLY <2>4, <3>2, <3>3, <3>4
  <2> HIDE DEF told, old, y
  <2>9. (told \o old) \o y = told \o (old \o y)
    <3>1. Associates(told, old, y)
      BY <2>1, <2>2, <2>4, JoinAssociates
    <3> QED BY <3>1 DEF Associates
  <2>10. told \o Gathered(b, Append(buf, n + 1)) = Flat(b)
    BY ONLY <2>3, <2>7, <2>8, <2>9
  <2> QED BY ONLY <1>1, <2>5, <2>10 DEF LinesInv, told
<1> QED BY <1>7, <1>9

\* The text ends: the last section becomes chunks, and nothing waits any more.
LEMMA TypedEnd ==
    ASSUME SplitTyped, End
    PROVE  SplitTyped' /\ (LinesInv => LinesInv')
<1> DEFINE f == Flushed(buf)
<1>1. /\ out' = (IF f.pend = NoChunk THEN f.out ELSE Append(f.out, f.pend))
      /\ pend' = NoChunk /\ buf' = <<>> /\ ended' = TRUE
      /\ text' = text /\ sections' = sections /\ crumb' = crumb
  BY DEF End
<1>2. /\ text \in Seq(Paras) /\ buf \in Seq(DOMAIN text) /\ crumb \in Seq(CrumbName)
      /\ sections \in Seq(Trail)
  BY DEF SplitTyped
<1> HIDE DEF f
<1>3. /\ f.out \in Seq(ChunkType) /\ f.pend \in ChunkType
      /\ Told(f.out, f.pend) = Told(out, pend) \o Gathered(paraLines, buf)
  BY <1>2, FlushedLines DEF f
<1>4. out' \in Seq(ChunkType) /\ Told(out', NoChunk) = Told(f.out, f.pend)
  <2>1. CASE f.pend = NoChunk
    BY <1>1, <1>3, <2>1
  <2>2. CASE f.pend # NoChunk
    <3> DEFINE all == Append(f.out, f.pend)
    <3>1. out' = all
      BY <1>1, <2>2
    <3>2. all \in Seq(ChunkType) /\ Gathered(chunkLines, all) = Told(f.out, f.pend)
      BY <1>3, ToldType
    <3> HIDE DEF all
    <3>3. Told(all, NoChunk) = Gathered(chunkLines, all)
      BY <3>2, NoChunkType, ToldType
    <3> QED BY ONLY <3>1, <3>2, <3>3
  <2> QED BY <2>1, <2>2
<1>5. SplitTyped'
  <2>1. buf' \in Seq(DOMAIN text')
    BY <1>1
  <2>2. pend' \in ChunkType /\ pend'.size < minChars
    BY <1>1, NoChunkType, SizesAssumption
  <2>3. ended' \in BOOLEAN
    BY <1>1
  <2> QED BY ONLY <1>1, <1>2, <1>4, <2>1, <2>2, <2>3 DEF SplitTyped
<1>6. ASSUME LinesInv PROVE LinesInv'
  <2>1. paraLines' = paraLines
    BY <1>1 DEF paraLines, AllLines
  <2>2. Told(f.out, f.pend) = Flat(paraLines)
    BY ONLY <1>3, <1>6 DEF LinesInv
  <2>3. Gathered(paraLines, <<>>) = <<>>
    <3>1. <<>> \in Seq(Nat) /\ Each(paraLines, <<>>) = <<>>
      BY DEF Each
    <3> QED BY <3>1, FlatOne DEF Gathered
  <2>4. Told(f.out, f.pend) \in Seq(Place)
    BY <1>3, ToldType
  <2>5. Told(f.out, f.pend) \o <<>> = Told(f.out, f.pend)
    BY <2>4
  <2>6. Told(out', pend') = Told(f.out, f.pend)
    BY ONLY <1>1, <1>4
  <2> QED BY ONLY <1>1, <2>1, <2>2, <2>3, <2>5, <2>6 DEF LinesInv
<1> QED BY <1>5, <1>6

LEMMA SplitTypedNext ==
    ASSUME SplitTyped, [SplitNext]_splitVars
    PROVE  SplitTyped' /\ (LinesInv => LinesInv')
<1>1. CASE UNCHANGED splitVars
  <2>1. /\ text' = text /\ sections' = sections /\ crumb' = crumb /\ buf' = buf
        /\ pend' = pend /\ out' = out /\ ended' = ended
    BY <1>1 DEF splitVars
  <2>2. SplitTyped'
    BY ONLY <2>1, SplitTyped DEF SplitTyped
  <2>3. paraLines' = paraLines
    BY <2>1 DEF paraLines, AllLines
  <2>4. LinesInv => LinesInv'
    BY ONLY <2>1, <2>3 DEF LinesInv, Told
  <2> QED BY <2>2, <2>4
<1>2. CASE SplitNext
  <2>1. CASE \E level \in Level, name \in Name : ReadHeading(level, name)
    BY <2>1, TypedReadHeading
  <2>2. CASE \E p \in Paragraph : ReadParagraph(p)
    BY <2>2, TypedReadParagraph
  <2>3. CASE End
    BY <2>3, TypedEnd
  <2> QED BY <1>2, <2>1, <2>2, <2>3 DEF SplitNext
<1> QED BY <1>1, <1>2

LEMMA SplitTypedAlways == SplitSpec => []SplitTyped
<1>1. SplitTyped /\ [SplitNext]_splitVars => SplitTyped'
  BY SplitTypedNext
<1> QED BY <1>1, SplitTypedInit, PTL DEF SplitSpec

\* However a text is cut into chunks, every line of it is in one, once and in
\* order (chunk.go SplitMarkdown).
THEOREM NothingIsLostCorrect == SplitSpec => []NothingIsLost
<1>1. SplitInit => LinesInv
  BY SplitTypedInit
<1>2. SplitTyped /\ LinesInv /\ [SplitNext]_splitVars => LinesInv'
  BY SplitTypedNext
<1>3. SplitTyped /\ LinesInv => NothingIsLost
  BY LinesInvMeans
<1> QED BY <1>1, <1>2, <1>3, SplitTypedAlways, PTL DEF SplitSpec

-----------------------------------------------------------------------------
(* The sizes: no chunk is too long, and none that is needlessly small is   *)
(* followed by one it could have been merged with.                         *)

Small(c) == IsMerged(c) /\ c.size < minChars

\* No small chunk is followed by a merged one; the last chunk is not small.
Apart(list) == \A k \in 1..Len(list) - 1 : Small(list[k]) => ~IsMerged(list[k + 1])

LastIsBig(list) == list # <<>> => ~Small(list[Len(list)])

LEMMA ApartJoined ==
    ASSUME NEW a \in Seq(ChunkType), NEW b \in Seq(ChunkType), Apart(a),
           (LastIsBig(a) /\ Len(b) <= 1) \/ \A k \in 1..Len(b) : ~IsMerged(b[k])
    PROVE  Apart(a \o b) /\ (b # <<>> /\ LastIsBig(b) => LastIsBig(a \o b))
<1> DEFINE u == a \o b
           m == Len(a)
           n == Len(b)
<1>1. /\ m \in Nat /\ n \in Nat /\ Len(u) = m + n
      /\ \A k \in 1..m + n : u[k] = IF k <= m THEN a[k] ELSE b[k - m]
  BY ConcatProperties
<1>2. (a # <<>> <=> m # 0) /\ (b # <<>> <=> n # 0) /\ (u # <<>> <=> m + n # 0)
  <2>1. u \in Seq(ChunkType)
    OBVIOUS
  <2> QED BY <1>1, <2>1
<1>3. \A k \in 1..m - 1 : Small(a[k]) => ~IsMerged(a[k + 1])
  BY DEF Apart
<1>4. (LastIsBig(a) /\ n <= 1) \/ \A k \in 1..n : ~IsMerged(b[k])
  OBVIOUS
<1> HIDE DEF u, m, n
<1>5. ASSUME NEW k \in 1..(m + n) - 1, Small(u[k]) PROVE ~IsMerged(u[k + 1])
  <2>1. k \in 1..m + n /\ k + 1 \in 1..m + n
    BY <1>1
  <2>2. CASE k + 1 <= m
    <3>1. k \in 1..m - 1 /\ u[k] = a[k] /\ u[k + 1] = a[k + 1]
      BY <1>1, <2>1, <2>2
    <3> QED BY <1>3, <1>5, <3>1
  <2>3. CASE k >= m
    <3>1. u[k + 1] = b[(k + 1) - m] /\ (k + 1) - m \in 1..n
      BY <1>1, <2>1, <2>3
    <3>2. CASE \A j \in 1..n : ~IsMerged(b[j])
      BY <3>1, <3>2
    <3>3. CASE LastIsBig(a) /\ n <= 1
      <4>1. k = m /\ m # 0
        BY <1>1, <2>3, <3>3
      <4>2. u[k] = a[m]
        BY <1>1, <2>1, <4>1
      <4> QED BY <1>2, <1>5, <3>3, <4>1, <4>2 DEF LastIsBig, m
    <3> QED BY <1>4, <3>2, <3>3
  <2> QED BY <1>1, <2>1, <2>2, <2>3
<1>6. ASSUME b # <<>>, LastIsBig(b) PROVE LastIsBig(u)
  <2>1. n # 0 /\ ~Small(b[n])
    BY <1>2, <1>6 DEF LastIsBig, n
  <2>2. m + n \in 1..m + n /\ ~(m + n <= m) /\ (m + n) - m = n
    BY <1>1, <2>1
  <2>3. u[m + n] = b[(m + n) - m]
    BY <1>1, <2>2
  <2> QED BY <1>1, <2>1, <2>2, <2>3 DEF LastIsBig
<1> QED BY <1>1, <1>5, <1>6 DEF Apart, u

\* What a section is put to, then its heading and its paragraphs.
HeadedBy(a, body) == a \o (<<SubHeading(Len(sections))>> \o Body(body))

\* The paragraphs of a section, after so many items.
ParagraphsAfter(m, l, body) ==
    \A k \in 1..Len(body) : m[l + 1 + k].kind = "lines" /\ m[l + 1 + k].of = body[k]

LEMMA HeadedItems ==
    ASSUME SplitTyped, NEW body \in Seq(DOMAIN text), NEW a \in Seq(Item),
           NEW m, m = HeadedBy(a, body)
    PROVE  /\ m \in Seq(Item) /\ Len(m) = Len(a) + 1 + Len(body)
           /\ \A k \in 1..Len(a) : m[k] = a[k]
           /\ m[Len(a) + 1] = SubHeading(Len(sections))
           /\ m[Len(a) + 1].kind = "heading"
           /\ ParagraphsAfter(m, Len(a), body)
<1> DEFINE b == Body(body)
           one == <<SubHeading(Len(sections))>>
           h == one \o b
           n == Len(body)
           l == Len(a)
<1>1. /\ b \in Seq(Item) /\ Len(b) = n /\ n \in Nat /\ DOMAIN body = 1..n
      /\ \A k \in DOMAIN body : b[k].kind = "lines" /\ b[k].of = body[k]
  BY BodyLines DEF SplitTyped
<1>2. SubHeading(Len(sections)) \in Item /\ SubHeading(Len(sections)).kind = "heading"
  <2>1. Len(sections) \in Nat
    BY DEF SplitTyped
  <2> QED BY <2>1, HeadingItem
<1>3. one \in Seq(Item) /\ Len(one) = 1 /\ one[1] = SubHeading(Len(sections))
  BY <1>2
<1> HIDE DEF b, one, n, h
<1>4. /\ h \in Seq(Item) /\ Len(h) = 1 + n
      /\ \A k \in 1..1 + n : h[k] = IF k <= 1 THEN one[k] ELSE b[k - 1]
  <2>1. /\ h \in Seq(Item) /\ Len(h) = Len(one) + Len(b)
        /\ \A k \in 1..Len(one) + Len(b) : h[k] = IF k <= Len(one) THEN one[k] ELSE b[k - Len(one)]
    BY ONLY <1>1, <1>3, ConcatProperties DEF h
  <2> QED BY ONLY <1>1, <1>3, <2>1
<1>5. /\ m \in Seq(Item) /\ l \in Nat /\ Len(m) = l + (1 + n)
      /\ \A k \in 1..l + (1 + n) : m[k] = IF k <= l THEN a[k] ELSE h[k - l]
  <2>1. m = a \o h
    BY DEF h, one, b, HeadedBy
  <2>2. a \in Seq(Item) /\ Len(a) \in Nat
    OBVIOUS
  <2>3. /\ m \in Seq(Item) /\ Len(m) = Len(a) + Len(h)
        /\ \A k \in 1..Len(a) + Len(h) : m[k] = IF k <= Len(a) THEN a[k] ELSE h[k - Len(a)]
    BY ONLY <1>4, <2>1, <2>2, ConcatProperties
  <2> QED BY ONLY <1>4, <2>2, <2>3
<1> HIDE DEF l
<1>6. m[l + 1] = SubHeading(Len(sections))
  <2>1. l + 1 \in 1..l + (1 + n) /\ ~(l + 1 <= l) /\ (l + 1) - l = 1 /\ 1 \in 1..1 + n /\ 1 <= 1
    BY <1>1, <1>5
  <2>2. m[l + 1] = h[(l + 1) - l] /\ h[1] = one[1]
    BY <1>4, <1>5, <2>1
  <2> QED BY <1>3, <2>1, <2>2
<1>7. ASSUME NEW k \in 1..n PROVE m[l + 1 + k] = b[k]
  <2>1. /\ l + 1 + k \in 1..l + (1 + n) /\ ~(l + 1 + k <= l) /\ (l + 1 + k) - l = 1 + k
        /\ 1 + k \in 1..1 + n /\ ~(1 + k <= 1) /\ (1 + k) - 1 = k
    BY <1>1, <1>5
  <2>2. m[l + 1 + k] = h[(l + 1 + k) - l] /\ h[1 + k] = b[(1 + k) - 1]
    BY <1>4, <1>5, <2>1
  <2> QED BY <2>1, <2>2
<1>8. \A k \in 1..l : m[k] = a[k]
  BY <1>1, <1>5
<1>9. Len(m) = l + 1 + n
  BY <1>1, <1>5
<1>10. ParagraphsAfter(m, l, body)
  BY <1>1, <1>7 DEF ParagraphsAfter, n
<1> QED BY <1>1, <1>2, <1>5, <1>6, <1>8, <1>9, <1>10 DEF l, n

\* What every chunk is: some lines of the text, with a length.
Sound(c) ==
    /\ c.items # <<>> /\ c.size > 0
    /\ HasLines(c) # {} /\ \A k \in HasLines(c) : c.items[k].of \in DOMAIN text

Fits(c) ==
    \/ c.size <= maxChars + overlap + 2
    \/ Cardinality(OwnLines(c)) = 1 /\ CarriedOver \notin ToSet(c.items)

\* Two sections under the floor, with the heading of the second between them,
\* stay under the limit. A heading may be longer than that in the code, which
\* counts it in no limit.
HeadingsAreShort == 2 * minChars + subHeadingSize <= maxChars + overlap + 2

LEMMA SoundParts ==
    ASSUME SplitTyped, NEW body \in Seq(DOMAIN text), body # <<>>
    PROVE  \A k \in 1..Len(Parts(body)) :
               /\ Sound(Parts(body)[k]) /\ Fits(Parts(body)[k]) /\ ~IsMerged(Parts(body)[k])
               /\ \A j \in HasLines(Parts(body)[k]) : Parts(body)[k].items[j].of \in ToSet(body)
<1> DEFINE packed == packParagraphs(body)
           parts == Parts(body)
           n == Len(packed)
<1>1. /\ packed \in Seq(Piece) /\ \A p \in ToSet(packed) : PieceOf(p, ToSet(body))
  BY PackedWhole DEF SplitTyped
<1>2. /\ Len(parts) = n
      /\ \A k \in 1..n : parts[k].items = packed[k].items /\ parts[k].size = packed[k].size
  BY PartsLines
<1>3. ToSet(body) \subseteq DOMAIN text
  BY DEF ToSet
<1> HIDE DEF packed, parts
<1>4. \A k \in 1..n : packed[k] \in ToSet(packed)
  BY <1>1, SeqOver
<1> HIDE DEF n
<1>5. ASSUME NEW k \in 1..n
      PROVE  /\ Sound(parts[k]) /\ Fits(parts[k]) /\ ~IsMerged(parts[k])
             /\ \A j \in HasLines(parts[k]) : parts[k].items[j].of \in ToSet(body)
  <2> DEFINE p == packed[k]
             c == parts[k]
  <2>1. PieceOf(p, ToSet(body)) /\ c.items = p.items /\ c.size = p.size
    BY <1>1, <1>2, <1>4
  <2> HIDE DEF p, c
  <2>2. HasLines(c) = HasLines(p)
    BY <2>1 DEF HasLines
  <2>3. OwnLines(c) = OwnLines(p)
    BY <2>1, <2>2 DEF OwnLines, LinesIn
  <2>4. Fits(c)
    BY <2>1, <2>3 DEF PieceOf, Fits
  <2>5. Sound(c) /\ ~IsMerged(c) /\ \A j \in HasLines(c) : c.items[j].of \in ToSet(body)
    BY <1>3, <2>1, <2>2 DEF PieceOf, Sound, IsMerged
  <2> QED BY <2>4, <2>5 DEF c
<1> QED BY <1>2, <1>5 DEF parts

LEMMA SoundAlone ==
    ASSUME SplitTyped, NEW body \in Seq(DOMAIN text), body # <<>>,
           BodySize(body) \in minChars..maxChars
    PROVE  Sound(Alone(body)) /\ Fits(Alone(body)) /\ ~IsMerged(Alone(body))
<1> DEFINE c == Alone(body)
           items == Body(body)
           n == Len(body)
<1>1. /\ items \in Seq(Item) /\ Len(items) = n
      /\ \A k \in DOMAIN body : items[k].kind = "lines" /\ items[k].of = body[k]
  BY BodyLines DEF SplitTyped
<1>2. n \in Nat /\ n > 0 /\ DOMAIN body = 1..n /\ \A k \in DOMAIN body : body[k] \in DOMAIN text
  OBVIOUS
<1>3. c.items = items /\ c.size = BodySize(body)
  BY DEF Alone
<1>4. BodySize(body) > 0 /\ BodySize(body) <= maxChars + overlap + 2
  <2>1. BodySize(body) \in Nat /\ BodySize(body) > 0
    BY BodySizeType DEF SplitTyped
  <2>2. BodySize(body) <= maxChars
    OBVIOUS
  <2> QED BY ONLY <2>1, <2>2, SizesTyped
<1> HIDE DEF c, items, n
<1>5. items # <<>> /\ DOMAIN items = 1..n /\ 1 \in 1..n
  BY <1>1, <1>2
<1>6. HasLines(c) = 1..n
  BY <1>1, <1>2, <1>3, <1>5 DEF HasLines
<1>7. Sound(c)
  BY <1>1, <1>2, <1>3, <1>4, <1>5, <1>6 DEF Sound
<1>8. ~IsMerged(c)
  BY <1>1, <1>2, <1>3, <1>5 DEF IsMerged
<1>9. Fits(c)
  BY <1>3, <1>4 DEF Fits
<1> QED BY <1>7, <1>8, <1>9 DEF c

LEMMA SoundHeaded ==
    ASSUME SplitTyped, NEW body \in Seq(DOMAIN text), body # <<>>,
           NEW a \in Seq(Item), NEW c,
           c.items = HeadedBy(a, body), c.size > 0,
           \A k \in DOMAIN a : a[k].kind = "lines" => a[k].of \in DOMAIN text
    PROVE  Sound(c)
<1> DEFINE m == c.items
           l == Len(a)
           n == Len(body)
<1>1. /\ m \in Seq(Item) /\ Len(m) = l + 1 + n
      /\ \A k \in 1..l : m[k] = a[k]
      /\ m[l + 1].kind = "heading"
      /\ \A k \in 1..n : m[l + 1 + k].kind = "lines" /\ m[l + 1 + k].of = body[k]
  <2>1. m = HeadedBy(a, body)
    OBVIOUS
  <2>2. SplitTyped /\ body \in Seq(DOMAIN text) /\ a \in Seq(Item)
    OBVIOUS
  <2> HIDE DEF m
  <2>3. m \in Seq(Item) /\ Len(m) = Len(a) + 1 + Len(body)
    BY ONLY <2>1, <2>2, HeadedItems
  <2>4. \A k \in 1..Len(a) : m[k] = a[k]
    BY ONLY <2>1, <2>2, HeadedItems
  <2>5. m[Len(a) + 1].kind = "heading"
    BY ONLY <2>1, <2>2, HeadedItems
  <2>6. \A k \in 1..Len(body) : m[Len(a) + 1 + k].kind = "lines" /\ m[Len(a) + 1 + k].of = body[k]
    <3>1. ParagraphsAfter(m, Len(a), body)
      BY ONLY <2>1, <2>2, HeadedItems
    <3> QED BY ONLY <3>1 DEF ParagraphsAfter
  <2> QED BY ONLY <2>3, <2>4, <2>5, <2>6
<1>2. n \in Nat /\ n > 0 /\ \A k \in 1..n : body[k] \in DOMAIN text
  OBVIOUS
<1>3. l \in Nat /\ DOMAIN a = 1..l
  OBVIOUS
<1> HIDE DEF m, l, n
<1>4. m # <<>> /\ DOMAIN m = 1..l + 1 + n
  BY <1>1, <1>2, <1>3
<1>5. \A k \in DOMAIN m : k \in 1..l \/ k = l + 1 \/ (k - (l + 1) \in 1..n /\ k = l + 1 + (k - (l + 1)))
  BY <1>2, <1>3, <1>4
<1>6. \A k \in DOMAIN m : m[k].kind = "lines" => m[k].of \in DOMAIN text
  <2> SUFFICES ASSUME NEW k \in DOMAIN m, m[k].kind = "lines" PROVE m[k].of \in DOMAIN text
    OBVIOUS
  <2>1. CASE k \in 1..l
    BY <1>1, <1>3, <2>1
  <2>2. CASE k = l + 1
    BY <1>1, <2>2
  <2>3. CASE k - (l + 1) \in 1..n /\ k = l + 1 + (k - (l + 1))
    BY <1>1, <1>2, <2>3
  <2> QED BY <1>5, <2>1, <2>2, <2>3
<1>7. \E k \in DOMAIN m : m[k].kind = "lines"
  <2>1. l + 1 + 1 \in DOMAIN m /\ 1 \in 1..n
    BY <1>2, <1>3, <1>4
  <2> QED BY <1>1, <2>1
<1> QED BY <1>4, <1>6, <1>7 DEF Sound, HasLines, m

LEMMA SoundMerged ==
    ASSUME SplitTyped, NEW body \in Seq(DOMAIN text), body # <<>>, BodySize(body) < minChars
    PROVE  /\ Sound(Begin(body)) /\ (HeadingsAreShort => Fits(Begin(body)))
           /\ \A c \in ChunkType : Sound(c) /\ c.size < minChars =>
                  /\ Sound(Merge(c, body)) /\ (HeadingsAreShort => Fits(Merge(c, body)))
<1> DEFINE size == BodySize(body)
           headed == <<SubHeading(Len(sections))>> \o Body(body)
<1>1. size \in Nat /\ size > 0 /\ size < minChars
  BY BodySizeType DEF SplitTyped
<1> HIDE DEF size
<1>3. Sound(Begin(body)) /\ (HeadingsAreShort => Fits(Begin(body)))
  <2> DEFINE c == Begin(body)
  <2>1. c.size = subHeadingSize + size /\ c.items = headed
    BY DEF Begin, size
  <2>2. c.size > 0 /\ (HeadingsAreShort => c.size <= maxChars + overlap + 2)
    <3>1. c.size = subHeadingSize + size /\ size \in Nat /\ size > 0 /\ size < minChars
      BY <1>1, <2>1
    <3> QED BY ONLY <3>1, SizesTyped DEF HeadingsAreShort
  <2>3. <<>> \in Seq(Item) /\ DOMAIN <<>> = {}
    OBVIOUS
  <2>4. headed \in Seq(Item)
    <3>1. Len(sections) \in Nat /\ Body(body) \in Seq(Item)
      BY BodyLines DEF SplitTyped
    <3> QED BY <3>1, HeadedLines
  <2>5. <<>> \o headed = headed
    BY <2>4
  <2> HIDE DEF c
  <2>6. c.items = HeadedBy(<<>>, body)
    BY <2>1, <2>5 DEF HeadedBy
  <2>7. Sound(c)
    BY <2>1, <2>2, <2>3, <2>6, SoundHeaded
  <2> QED BY <2>2, <2>7 DEF Fits, c
<1>4. ASSUME NEW c \in ChunkType, Sound(c), c.size < minChars
      PROVE  Sound(Merge(c, body)) /\ (HeadingsAreShort => Fits(Merge(c, body)))
  <2> DEFINE m == Merge(c, body)
             a == c.items
  <2>1. a \in Seq(Item) /\ c.size \in Int /\ c.size > 0 /\ c.size < minChars
    BY <1>4 DEF ChunkType, Sound
  <2>2. \A k \in DOMAIN a : a[k].kind = "lines" => a[k].of \in DOMAIN text
    BY <1>4 DEF Sound, HasLines
  <2>3. m.size = c.size + 2 + subHeadingSize + size /\ m.items = HeadedBy(a, body)
    <3>1. m.items = (a \o <<SubHeading(Len(sections))>>) \o Body(body)
      BY DEF Merge
    <3>2. (a \o <<SubHeading(Len(sections))>>) \o Body(body) = a \o headed
      <4> DEFINE b == <<SubHeading(Len(sections))>>
                 d == Body(body)
      <4>1. b \in Seq(Item) /\ d \in Seq(Item)
        <5>1. Len(sections) \in Nat /\ Body(body) \in Seq(Item)
          BY BodyLines DEF SplitTyped
        <5> QED BY <5>1, HeadingItem
      <4> HIDE DEF a, b, d
      <4>2. Associates(a, b, d)
        BY <2>1, <4>1, JoinAssociates
      <4> QED BY <4>2 DEF Associates, a, b, d
    <3>3. m.size = c.size + 2 + subHeadingSize + size
      BY DEF Merge, size
    <3> QED BY <3>1, <3>2, <3>3 DEF HeadedBy
  <2>4. m.size > 0 /\ (HeadingsAreShort => m.size <= maxChars + overlap + 2)
    <3>1. m.size = c.size + 2 + subHeadingSize + size /\ c.size \in Int /\ c.size > 0
          /\ c.size < minChars /\ size \in Int /\ size > 0 /\ size < minChars
      BY <1>1, <2>1, <2>3
    <3> HIDE DEF m, a
    <3>2. m.size > 0
      BY ONLY <3>1, SizesTyped
    <3>3. HeadingsAreShort => m.size <= maxChars + overlap + 2
      BY ONLY <3>1, SizesTyped DEF HeadingsAreShort
    <3> QED BY <3>2, <3>3
  <2> HIDE DEF m, a
  <2>5. Sound(m)
    BY <2>1, <2>2, <2>3, <2>4, SoundHeaded
  <2> QED BY <2>4, <2>5 DEF Fits, m
<1> QED BY <1>3, <1>4

Sized(list) ==
    Apart(list) /\ \A c \in ToSet(list) : Sound(c) /\ (HeadingsAreShort => Fits(c))

SizeInv ==
    /\ Sized(out) /\ (ended \/ LastIsBig(out))
    /\ pend = NoChunk \/ Sound(pend)
    /\ ended => pend = NoChunk

LEMMA SizedJoined ==
    ASSUME NEW a \in Seq(ChunkType), NEW b \in Seq(ChunkType), Sized(a),
           \A c \in ToSet(b) : Sound(c) /\ (HeadingsAreShort => Fits(c)),
           (LastIsBig(a) /\ Len(b) <= 1) \/ \A k \in 1..Len(b) : ~IsMerged(b[k])
    PROVE  Sized(a \o b) /\ (b # <<>> /\ LastIsBig(b) => LastIsBig(a \o b))
<1>1. Apart(a) /\ \A c \in ToSet(a) : Sound(c) /\ (HeadingsAreShort => Fits(c))
  BY DEF Sized
<1>2. Apart(a \o b) /\ (b # <<>> /\ LastIsBig(b) => LastIsBig(a \o b))
  BY <1>1, ApartJoined
<1>3. ToSet(a \o b) = ToSet(a) \cup ToSet(b)
  BY ToSetJoined
<1> QED BY <1>1, <1>2, <1>3 DEF Sized

LEMMA SizedAppended ==
    ASSUME NEW a \in Seq(ChunkType), NEW c \in ChunkType, Sized(a),
           Sound(c), HeadingsAreShort => Fits(c), LastIsBig(a) \/ ~IsMerged(c)
    PROVE  Sized(Append(a, c)) /\ (~Small(c) => LastIsBig(Append(a, c)))
<1> DEFINE one == <<c>>
<1>1. /\ one \in Seq(ChunkType) /\ Len(one) = 1 /\ one[1] = c /\ ToSet(one) = {c}
      /\ one # <<>> /\ \A k \in 1..1 : one[k] = c
  BY DEF ToSet
<1>2. Append(a, c) = a \o one
  BY AppendIsConcat
<1> HIDE DEF one
<1>a. \A x \in ToSet(one) : Sound(x) /\ (HeadingsAreShort => Fits(x))
  BY <1>1
<1>b. (LastIsBig(a) /\ Len(one) <= 1) \/ \A k \in 1..Len(one) : ~IsMerged(one[k])
  <2>1. CASE LastIsBig(a)
    BY <1>1, <2>1
  <2>2. CASE ~IsMerged(c)
    BY <1>1, <2>2
  <2> QED BY <2>1, <2>2
<1>c. a \in Seq(ChunkType) /\ one \in Seq(ChunkType) /\ Sized(a)
  BY <1>1
<1>3. Sized(a \o one) /\ (one # <<>> /\ LastIsBig(one) => LastIsBig(a \o one))
  BY ONLY <1>a, <1>b, <1>c, SizedJoined
<1>4. ~Small(c) => LastIsBig(one)
  BY <1>1 DEF LastIsBig
<1> QED BY <1>1, <1>2, <1>3, <1>4

LEMMA SizedChunks ==
    ASSUME SplitTyped, SizeInv, ~ended
    PROVE  Sized(Chunks)
<1>1. /\ Chunks = IF pend = NoChunk THEN out ELSE Append(out, pend)
      /\ out \in Seq(ChunkType) /\ pend \in ChunkType /\ pend.size < minChars
  BY ChunksLines DEF SplitTyped
<1>2. Sized(out) /\ LastIsBig(out) /\ (pend = NoChunk \/ Sound(pend))
  BY DEF SizeInv
<1>3. Fits(pend)
  <2>1. pend.size \in Int
    BY <1>1 DEF ChunkType
  <2>2. pend.size <= maxChars + overlap + 2
    BY <1>1, <2>1, SizesAssumption
  <2> QED BY <2>2 DEF Fits
<1> QED BY <1>1, <1>2, <1>3, SizedAppended

LEMMA FlushedSized ==
    ASSUME SplitTyped, SizeInv, ~ended, NEW body \in Seq(DOMAIN text), NEW f, f = Flushed(body)
    PROVE  Sized(f.out) /\ LastIsBig(f.out) /\ (f.pend = NoChunk \/ Sound(f.pend))
<1>1. out \in Seq(ChunkType) /\ pend \in ChunkType /\ pend.size < minChars
  BY DEF SplitTyped
<1>2. Sized(out) /\ LastIsBig(out) /\ (pend = NoChunk \/ Sound(pend))
  BY DEF SizeInv
<1>3. Chunks \in Seq(ChunkType) /\ Sized(Chunks)
  BY ChunksLines, SizedChunks
<1>4. CASE f = [out |-> out, pend |-> pend]
  BY <1>2, <1>4
<1>5. CASE body # <<>> /\ f = [out |-> Chunks \o Parts(body), pend |-> NoChunk]
  <2> DEFINE parts == Parts(body)
             n == Len(parts)
  <2>1. parts \in Seq(ChunkType) /\ parts # <<>>
    BY <1>5, PartsLines
  <2>2. \A k \in 1..n : Sound(parts[k]) /\ Fits(parts[k]) /\ ~IsMerged(parts[k])
    BY <1>5, SoundParts
  <2> HIDE DEF parts
  <2>3. \A c \in ToSet(parts) : Sound(c) /\ Fits(c)
    BY <2>1, <2>2 DEF ToSet
  <2>4. LastIsBig(parts)
    <3>1. n \in 1..n
      BY <2>1
    <3> QED BY <2>2, <3>1 DEF LastIsBig, Small
  <2>5. Sized(Chunks \o parts) /\ LastIsBig(Chunks \o parts)
    BY <1>3, <2>1, <2>2, <2>3, <2>4, SizedJoined
  <2>6. f.out = Chunks \o parts /\ f.pend = NoChunk
    BY <1>5 DEF parts
  <2> QED BY <2>5, <2>6
<1>6. CASE /\ body # <<>> /\ BodySize(body) \in minChars..maxChars
           /\ f = [out |-> Append(Chunks, Alone(body)), pend |-> NoChunk]
  <2> DEFINE c == Alone(body)
  <2>1. c \in ChunkType /\ Sound(c) /\ Fits(c) /\ ~IsMerged(c)
    BY <1>6, SoundAlone, MadeChunks
  <2>2. f.out = Append(Chunks, c) /\ f.pend = NoChunk
    BY <1>6
  <2> HIDE DEF c
  <2>3. ~Small(c)
    BY <2>1 DEF Small
  <2>4. Sized(Append(Chunks, c)) /\ LastIsBig(Append(Chunks, c))
    BY <1>3, <2>1, <2>3, SizedAppended
  <2> QED BY <2>2, <2>4
<1>7. ASSUME NEW c \in ChunkType, Sound(c), HeadingsAreShort => Fits(c), f = Emit(out, c)
      PROVE  Sized(f.out) /\ LastIsBig(f.out) /\ (f.pend = NoChunk \/ Sound(f.pend))
  <2>1. \/ c.size >= minChars /\ f.out = Append(out, c) /\ f.pend = NoChunk
        \/ c.size < minChars /\ f.out = out /\ f.pend = c
    BY <1>1, <1>7, EmitLines
  <2>2. CASE c.size >= minChars /\ f.out = Append(out, c) /\ f.pend = NoChunk
    <3>1. ~Small(c)
      <4>1. c.size \in Int /\ minChars \in Int
        BY SizesAssumption DEF ChunkType
      <4> QED BY <2>2, <4>1 DEF Small
    <3>2. Sized(Append(out, c)) /\ LastIsBig(Append(out, c))
      BY <1>1, <1>2, <1>7, <3>1, SizedAppended
    <3> QED BY <2>2, <3>2
  <2>3. CASE f.out = out /\ f.pend = c
    BY <1>2, <1>7, <2>3
  <2> QED BY <2>1, <2>2, <2>3
<1>8. CASE /\ body # <<>> /\ BodySize(body) < minChars /\ pend # NoChunk
           /\ f = Emit(out, Merge(pend, body))
  <2>1. Sound(pend)
    BY <1>2, <1>8
  <2>2. /\ Merge(pend, body) \in ChunkType /\ Sound(Merge(pend, body))
        /\ HeadingsAreShort => Fits(Merge(pend, body))
    BY <1>1, <1>8, <2>1, MadeChunks, SoundMerged
  <2> QED BY <1>7, <1>8, <2>2
<1>9. CASE /\ body # <<>> /\ BodySize(body) < minChars /\ pend = NoChunk
           /\ f = Emit(out, Begin(body))
  <2>1. /\ Begin(body) \in ChunkType /\ Sound(Begin(body))
        /\ HeadingsAreShort => Fits(Begin(body))
    BY <1>9, MadeChunks, SoundMerged
  <2> QED BY <1>7, <1>9, <2>1
<1> QED BY <1>4, <1>5, <1>6, <1>8, <1>9, FlushedIs

\* The lines of a chunk are lines of the text.
LEMMA LinesOfText ==
    ASSUME text \in Seq(Paras), NEW c \in ChunkType, Sound(c)
    PROVE  \A line \in ToSet(LinesIn(c)) : line[1] \in DOMAIN text
<1> DEFINE D == DOMAIN text
           T == D \X Nat
           items == c.items
           each == Each(itemLines, items)
           n == Len(items)
<1>1. items \in Seq(Item) /\ LinesIn(c) = Flat(each)
  BY LinesInIs DEF ChunkType, Gathered
<1>2. \A k \in DOMAIN items : items[k].kind = "lines" => items[k].of \in D
  BY DEF Sound, HasLines
<1> HIDE DEF items, D
<1>3. n \in Nat /\ DOMAIN items = 1..n /\ \A k \in 1..n : items[k] \in Item
  BY <1>1
<1> HIDE DEF n
<1>4. \A k \in 1..n : itemLines[items[k]] \in Seq(T)
  <2> TAKE k \in 1..n
  <2>1. CASE items[k].kind = "lines"
    <3> DEFINE of == items[k].of
               lines == items[k].lines
    <3>1. of \in D /\ lines \in Seq(Nat) /\ itemLines[items[k]] = LinesOf(of, lines)
      BY <1>2, <1>3, <2>1 DEF Item, itemLines
    <3> HIDE DEF of, lines
    <3>2. \A j \in DOMAIN lines : <<of, lines[j]>> \in T
      BY <3>1
    <3> HIDE DEF T
    <3>3. LinesOf(of, lines) \in Seq(T)
      BY <3>1, <3>2 DEF LinesOf
    <3> QED BY <3>1, <3>3
  <2>2. CASE items[k].kind # "lines"
    <3>1. itemLines[items[k]] = <<>>
      BY <1>3, <2>2 DEF itemLines
    <3> QED BY <3>1
  <2> QED BY <2>1, <2>2
<1> DEFINE S == Seq(T)
<1> HIDE DEF T
<1>5. each = [k \in 1..n |-> itemLines[items[k]]]
  BY ONLY <1>3 DEF Each
<1> HIDE DEF each
<1>6. each \in Seq(S)
  <2>1. \A k \in 1..n : itemLines[items[k]] \in S
    BY <1>4
  <2> HIDE DEF S
  <2>2. DOMAIN each = 1..n /\ each = [k \in 1..n |-> each[k]] /\ \A k \in 1..n : each[k] \in S
    BY ONLY <1>5, <2>1
  <2> QED BY ONLY <1>3, <2>2, ListOf
<1>7. LinesIn(c) \in Seq(T)
  BY ONLY <1>1, <1>6, FlatType DEF S
<1>8. ToSet(LinesIn(c)) \subseteq T
  BY ONLY <1>7, SeqOver
<1> QED BY <1>8 DEF T, D

\* What a chunk is stays so when the text goes on.
LEMMA SoundKept ==
    ASSUME SplitTyped, DOMAIN text \subseteq DOMAIN text',
           \A i \in DOMAIN text : text'[i] = text[i],
           NEW c \in ChunkType, Sound(c)
    PROVE  Sound(c)' /\ (Fits(c) => Fits(c)')
<1>1. Sound(c)'
  BY DEF Sound, HasLines
<1>2. \A line \in ToSet(LinesIn(c)) : line[1] \in DOMAIN text
  BY LinesOfText DEF SplitTyped
<1>3. \A i \in DOMAIN text : Header(i)' = Header(i)
  BY DEF Header
<1>4. LinesIn(c)' = LinesIn(c)
  BY DEF LinesIn, HasLines
<1>5. \A line \in ToSet(LinesIn(c)) : Header(line[1])' = Header(line[1])
  BY <1>2, <1>3
<1>6. OwnLines(c)' = OwnLines(c)
  BY ONLY <1>4, <1>5 DEF OwnLines
<1>7. Fits(c) => Fits(c)'
  BY ONLY <1>6 DEF Fits
<1> QED BY <1>1, <1>7

\* A list of chunks stays sized, and what waits stays sound.
LEMMA SizedKept ==
    ASSUME SplitTyped, DOMAIN text \subseteq DOMAIN text',
           \A i \in DOMAIN text : text'[i] = text[i],
           NEW list \in Seq(ChunkType)
    PROVE  /\ Sized(list) => Sized(list)'
           /\ LastIsBig(list)' = LastIsBig(list)
<1>1. \A c \in ToSet(list) : c \in ChunkType
  BY DEF ToSet
<1>2. \A c \in ToSet(list) : Sound(c) => Sound(c)' /\ (Fits(c) => Fits(c)')
  BY <1>1, SoundKept
<1>3. Sized(list) => Sized(list)'
  BY <1>2 DEF Sized, Apart, Small, IsMerged, HeadingsAreShort
<1> QED BY <1>3 DEF LastIsBig, Small, IsMerged

LEMMA SizeNext ==
    ASSUME SplitTyped, SplitTyped', SizeInv, [SplitNext]_splitVars
    PROVE  SizeInv'
<1>1. out \in Seq(ChunkType) /\ pend \in ChunkType /\ buf \in Seq(DOMAIN text) /\ text \in Seq(Paras)
  BY DEF SplitTyped
<1>2. /\ Sized(out) /\ (ended \/ LastIsBig(out)) /\ (pend = NoChunk \/ Sound(pend))
      /\ ended => pend = NoChunk
  BY DEF SizeInv
\* What holds of lists and chunks holds after the step.
<1>3. ASSUME DOMAIN text \subseteq DOMAIN text', \A i \in DOMAIN text : text'[i] = text[i],
             NEW list \in Seq(ChunkType), NEW c \in ChunkType,
             out' = list, pend' = c, Sized(list), c = NoChunk \/ Sound(c),
             ended' \/ LastIsBig(list), ended' => c = NoChunk
      PROVE  SizeInv'
  <2>1. Sized(list)' /\ LastIsBig(list)' = LastIsBig(list)
    BY <1>3, SizedKept
  <2>2. c = NoChunk \/ Sound(c)'
    BY <1>3, SoundKept
  <2>3. Sized(out)'
    BY ONLY <1>3, <2>1 DEF Sized, Apart, Sound, Fits, Small, IsMerged, HasLines, OwnLines,
            LinesIn, HeadingsAreShort
  <2>4. LastIsBig(out)' = LastIsBig(list)'
    BY ONLY <1>3 DEF LastIsBig, Small, IsMerged
  <2>5. (pend = NoChunk \/ Sound(pend))'
    BY ONLY <1>3, <2>2 DEF Sound, HasLines
  <2> QED BY ONLY <1>3, <2>1, <2>3, <2>4, <2>5 DEF SizeInv
<1>4. CASE UNCHANGED splitVars
  <2>1. text' = text /\ out' = out /\ pend' = pend /\ ended' = ended
    BY <1>4 DEF splitVars
  <2> QED BY <1>1, <1>2, <1>3, <2>1
<1>5. ASSUME NEW level \in Level, NEW name \in Name, ReadHeading(level, name) PROVE SizeInv'
  <2> DEFINE f == Flushed(buf)
  <2>1. ~ended /\ text' = text /\ out' = f.out /\ pend' = f.pend /\ ended' = ended
    BY <1>5 DEF ReadHeading, Flush
  <2> HIDE DEF f
  <2>2. f.out \in Seq(ChunkType) /\ f.pend \in ChunkType
    BY <1>1, FlushedLines DEF f
  <2>3. Sized(f.out) /\ LastIsBig(f.out) /\ (f.pend = NoChunk \/ Sound(f.pend))
    BY <1>1, <2>1, FlushedSized DEF f
  <2> QED BY <1>3, <2>1, <2>2, <2>3
<1>6. ASSUME NEW p \in Paragraph, ReadParagraph(p) PROVE SizeInv'
  <2>1. /\ out' = out /\ pend' = pend /\ ended' = ended
        /\ text' = Append(text, [lines |-> p.lines, table |-> p.table, section |-> Len(sections)])
    BY <1>6 DEF ReadParagraph
  <2>2. DOMAIN text \subseteq DOMAIN text' /\ \A i \in DOMAIN text : text'[i] = text[i]
    BY <1>1, <2>1
  <2> QED BY <1>1, <1>2, <1>3, <2>1, <2>2
<1>7. CASE End
  <2> DEFINE f == Flushed(buf)
             all == IF f.pend = NoChunk THEN f.out ELSE Append(f.out, f.pend)
  <2>1. ~ended /\ text' = text /\ out' = all /\ pend' = NoChunk /\ ended' = TRUE
    BY <1>7 DEF End
  <2>2. f.out \in Seq(ChunkType) /\ f.pend \in ChunkType /\ f.pend.size < minChars
    BY <1>1, FlushedLines
  <2>3. Sized(f.out) /\ LastIsBig(f.out) /\ (f.pend = NoChunk \/ Sound(f.pend))
    BY <1>1, <2>1, FlushedSized
  <2> HIDE DEF f
  <2>4. Fits(f.pend)
    <3>1. f.pend.size \in Int
      BY <2>2 DEF ChunkType
    <3>2. f.pend.size <= maxChars + overlap + 2
      BY <2>2, <3>1, SizesAssumption
    <3> QED BY <3>2 DEF Fits
  <2>5. Sized(all) /\ all \in Seq(ChunkType)
    <3>1. CASE f.pend = NoChunk
      BY <2>2, <2>3, <3>1
    <3>2. CASE f.pend # NoChunk
      <4>1. Sized(Append(f.out, f.pend))
        BY <2>2, <2>3, <2>4, <3>2, SizedAppended
      <4> QED BY <2>2, <3>2, <4>1
    <3> QED BY <3>1, <3>2
  <2> HIDE DEF all
  <2> QED BY <1>3, <2>1, <2>5, NoChunkType
<1> QED BY <1>4, <1>5, <1>6, <1>7 DEF SplitNext

LEMMA SizeInit == SplitInit => SizeInv
<1>1. SplitInit => out = <<>> /\ pend = NoChunk
  BY DEF SplitInit
<1>2. out = <<>> => Sized(out) /\ LastIsBig(out)
  <2>1. Len(<<>>) = 0 /\ \A k : k \notin 1..0 - 1
    OBVIOUS
  <2> QED BY <2>1 DEF Sized, LastIsBig, Apart, ToSet
<1> QED BY <1>1, <1>2 DEF SizeInv

LEMMA SizeInvMeans ==
    ASSUME SplitTyped, SizeInv
    PROVE  NoSmallNeighbours /\ (HeadingsAreShort => NoneTooLong)
<1>1. Sized(Chunks)
  <2>1. CASE ~ended
    BY <2>1, SizedChunks
  <2>2. CASE ended
    BY <2>2, ChunksLines DEF SizeInv
  <2> QED BY <2>1, <2>2
<1> QED BY <1>1 DEF Sized, Apart, Small, Fits, NoSmallNeighbours, NoneTooLong

LEMMA SizeAlways == SplitSpec => []SizeInv
<1>1. SplitTyped /\ SplitTyped' /\ SizeInv /\ [SplitNext]_splitVars => SizeInv'
  BY SizeNext
<1> QED BY <1>1, SizeInit, SplitTypedAlways, PTL DEF SplitSpec

\* A chunk under the floor is never followed by a section under the floor: those
\* two would have been merged, whatever the headings are (chunk.go flush).
THEOREM NoSmallNeighboursCorrect == SplitSpec => []NoSmallNeighbours
<1>1. SplitTyped /\ SizeInv => NoSmallNeighbours
  BY SizeInvMeans
<1> QED BY <1>1, SplitTypedAlways, SizeAlways, PTL

\* No chunk is longer than the limit and what it carries over, but for one long
\* line, as long as two sections under the floor and a heading are not: with the
\* code's 2400, 600 and 250 characters, for headings of up to 1452 (chunk.go).
THEOREM SizeIsBoundedCorrect ==
    ASSUME HeadingsAreShort
    PROVE  SplitSpec => []SizeIsBounded
<1>1. SplitTyped /\ SizeInv => SizeIsBounded
  BY SizeInvMeans DEF SizeIsBounded
<1> QED BY <1>1, SplitTypedAlways, SizeAlways, PTL

-----------------------------------------------------------------------------
(* The names: the breadcrumb of a chunk is the deepest its sections share. *)

Kin(p, first) == p # <<>> /\ first # <<>> /\ p[1] = first[1]

\* Two paths that are the same down to a depth.
SameTo(n, p, first) == n <= Len(p) /\ \A d \in 1..n : p[d] = first[d]

\* What h has to be to name the sections of these paths.
Shares(h, first, paths) ==
    IF first = <<>> THEN h = <<>>
    ELSE \E n \in 1..Len(first) :
             /\ h = SubSeq(first, 1, n)
             /\ \A p \in paths : Kin(p, first) => SameTo(n, p, first)
             /\ n < Len(first) => \E p \in paths : Kin(p, first) /\ ~SameTo(n + 1, p, first)

LEMMA Beginning ==
    ASSUME NEW p \in Trail, NEW n \in 1..Len(p)
    PROVE  /\ SubSeq(p, 1, n) \in Trail /\ Len(SubSeq(p, 1, n)) = n /\ SubSeq(p, 1, n) # <<>>
           /\ \A d \in 1..n : SubSeq(p, 1, n)[d] = p[d]
<1>1. p \in Seq(Name) /\ Len(p) \in Nat
  BY DEF Trail
<1>2. SubSeq(p, 1, n) \in Seq(Name) /\ Len(SubSeq(p, 1, n)) = n
      /\ \A d \in 1..n : SubSeq(p, 1, n)[d] = p[d]
  BY <1>1
<1> QED BY <1>1, <1>2 DEF Trail

LEMMA SameBeginning ==
    ASSUME NEW p \in Trail, NEW q \in Trail, NEW n \in 1..Len(q), SameTo(n, p, q)
    PROVE  SubSeq(p, 1, n) = SubSeq(q, 1, n)
<1> DEFINE a == SubSeq(p, 1, n)
           b == SubSeq(q, 1, n)
<1>1. n \in 1..Len(p) /\ \A d \in 1..n : p[d] = q[d]
  <2>1. Len(p) \in Nat /\ Len(q) \in Nat
    BY DEF Trail
  <2> QED BY <2>1 DEF SameTo
<1>2. /\ a \in Trail /\ Len(a) = n /\ \A d \in 1..n : a[d] = p[d]
      /\ b \in Trail /\ Len(b) = n /\ \A d \in 1..n : b[d] = q[d]
  BY <1>1, Beginning
<1>3. a \in Seq(Name) /\ b \in Seq(Name) /\ \A d \in 1..n : a[d] = b[d]
  BY <1>1, <1>2 DEF Trail
<1> HIDE DEF a, b
<1>4. a = b
  BY ONLY <1>2, <1>3, SeqEqual
<1> QED BY <1>4 DEF a, b

\* Such a name is the one HeadingIsShared asks for.
LEMMA SharesMeans ==
    ASSUME NEW first \in Trail, NEW paths \in SUBSET Trail, NEW h, Shares(h, first, paths)
    PROVE  LET kin == {p \in paths : p # <<>> /\ first # <<>> /\ p[1] = first[1]}
               shared == {a \in Ancestors(first) : \A p \in kin : a \in Ancestors(p)}
           IN h = IF first = <<>> THEN first
                  ELSE CHOOSE a \in shared : \A b \in shared : Len(b) <= Len(a)
<1> DEFINE kin == {p \in paths : p # <<>> /\ first # <<>> /\ p[1] = first[1]}
           shared == {a \in Ancestors(first) : \A p \in kin : a \in Ancestors(p)}
           Deepest(a) == a \in shared /\ \A b \in shared : Len(b) <= Len(a)
<1>1. CASE first = <<>>
  BY <1>1 DEF Shares
<1>2. CASE first # <<>>
  <2>1. PICK n \in 1..Len(first) :
            /\ h = SubSeq(first, 1, n)
            /\ \A p \in paths : Kin(p, first) => SameTo(n, p, first)
            /\ n < Len(first) => \E p \in paths : Kin(p, first) /\ ~SameTo(n + 1, p, first)
    BY <1>2 DEF Shares
  <2>2. \A p \in paths : p \in kin <=> Kin(p, first)
    BY DEF Kin
  <2>3. h \in Trail /\ Len(h) = n /\ \A d \in 1..n : h[d] = first[d]
    BY <2>1, Beginning
  <2>4. Len(first) \in Nat
    BY DEF Trail
  <2>5. h \in shared
    <3>1. h \in Ancestors(first)
      BY <2>1 DEF Ancestors
    <3>2. ASSUME NEW p \in kin PROVE h \in Ancestors(p)
      <4>1. p \in Trail /\ SameTo(n, p, first)
        BY <2>1, <2>2, <3>2
      <4>2. h = SubSeq(p, 1, n)
        BY <2>1, <4>1, SameBeginning
      <4>3. n \in 1..Len(p)
        <5>1. Len(p) \in Nat
          BY <4>1 DEF Trail
        <5> QED BY <2>4, <4>1, <5>1 DEF SameTo
      <4> QED BY <4>2, <4>3 DEF Ancestors
    <3> QED BY <3>1, <3>2
  <2>6. ASSUME NEW b \in shared
        PROVE  \E m \in 1..Len(first) : b = SubSeq(first, 1, m) /\ Len(b) = m /\ m <= n
    <3>1. PICK m \in 1..Len(first) : b = SubSeq(first, 1, m)
      BY DEF Ancestors
    <3>2. Len(b) = m /\ \A d \in 1..m : b[d] = first[d]
      BY <3>1, Beginning
    <3>3. CASE m <= n
      BY <3>1, <3>2, <3>3
    <3>4. CASE m > n
      <4>1. n < Len(first) /\ n + 1 \in 1..m
        BY <2>4, <3>4
      <4>2. PICK p \in paths : Kin(p, first) /\ ~SameTo(n + 1, p, first)
        BY <2>1, <4>1
      <4>3. p \in Trail /\ b \in Ancestors(p)
        BY <2>2, <4>2
      <4>4. PICK l \in 1..Len(p) : b = SubSeq(p, 1, l)
        BY <4>3 DEF Ancestors
      <4>5. Len(b) = l /\ \A d \in 1..l : b[d] = p[d]
        BY <4>3, <4>4, Beginning
      <4>6. l = m /\ Len(p) \in Nat
        BY <3>2, <4>3, <4>5 DEF Trail
      <4>7. \A d \in 1..m : p[d] = first[d]
        BY ONLY <3>2, <4>5, <4>6
      <4>8. n + 1 <= Len(p) /\ \A d \in 1..n + 1 : d \in 1..m
        BY <2>4, <4>1, <4>4, <4>6
      <4>9. SameTo(n + 1, p, first)
        BY <4>7, <4>8 DEF SameTo
      <4> QED BY <4>2, <4>9
    <3> QED BY <2>4, <3>3, <3>4
  <2> HIDE DEF shared
  <2>7. Deepest(h)
    <3>1. \A b \in shared : Len(b) <= Len(h)
      BY <2>3, <2>6
    <3> QED BY <2>5, <3>1
  <2>8. ASSUME NEW a, Deepest(a) PROVE a = h
    <3>1. PICK m \in 1..Len(first) : a = SubSeq(first, 1, m) /\ Len(a) = m /\ m <= n
      BY <2>6, <2>8
    <3>2. n <= m
      BY <2>3, <2>5, <2>8, <3>1
    <3>3. m = n
      BY <2>4, <3>1, <3>2
    <3> QED BY <2>1, <3>1, <3>3
  <2>9. h = CHOOSE a : Deepest(a)
    BY <2>7, <2>8
  <2>10. h = CHOOSE a \in shared : \A b \in shared : Len(b) <= Len(a)
    BY <2>7, <2>8
  <2> QED BY <1>2, <2>10 DEF shared
<1> QED BY <1>1, <1>2

\* How deep two breadcrumbs go together: to the end of the first, or to where
\* the second is another one.
LEMMA AlikeIs ==
    ASSUME NEW a \in Trail, NEW b \in Trail, Kin(b, a)
    PROVE  \E k \in 1..Len(a) :
               /\ Alike(a, b) = 1..k /\ SameTo(k, b, a)
               /\ k < Len(a) => ~SameTo(k + 1, b, a)
<1> DEFINE n == Len(a)
           Differ == {d \in DOMAIN a : d > Len(b) \/ a[d] # b[d]}
<1>1. n \in Nat /\ n > 0 /\ DOMAIN a = 1..n /\ Len(b) \in Nat /\ Len(b) > 0 /\ b[1] = a[1]
  BY DEF Trail, Kin
<1>2. Alike(a, b) = {k \in 1..n : \A d \in Differ : k < d}
  BY <1>1 DEF Alike
<1>3. \A d \in 1..n : d \notin Differ <=> (d <= Len(b) /\ a[d] = b[d])
  BY <1>1
<1>4. Differ \subseteq 1..n
  BY <1>1
<1> HIDE DEF n, Differ
<1>5. CASE Differ = {}
  <2>1. Alike(a, b) = 1..n /\ n \in 1..n
    BY <1>1, <1>2, <1>5
  <2>2. n <= Len(b) /\ \A d \in 1..n : b[d] = a[d]
    BY <1>1, <1>3, <1>5
  <2>3. SameTo(n, b, a)
    BY <2>2 DEF SameTo
  <2>4. ~(n < n)
    BY <1>1
  <2>5. \E k \in 1..n : Alike(a, b) = 1..k /\ SameTo(k, b, a) /\ (k < n => ~SameTo(k + 1, b, a))
    BY ONLY <2>1, <2>3, <2>4
  <2> QED BY <2>5 DEF n
<1>6. CASE Differ # {}
  <2> DEFINE m == Min(Differ)
  <2>1. m \in Differ /\ m \in 1..n /\ \A d \in Differ : m <= d
    BY <1>1, <1>4, <1>6, FirstPlace
  <2> HIDE DEF m
  <2>2. m # 1
    BY <1>1, <1>3, <2>1
  <2>3. m - 1 \in 1..n
    BY <1>1, <2>1, <2>2
  <2>4. Alike(a, b) = 1..m - 1
    BY <1>1, <1>2, <1>4, <2>1
  <2>5. \A d \in 1..m - 1 : d \notin Differ /\ d \in 1..n
    BY <1>1, <2>1
  <2>6. m - 1 \in 1..m - 1 /\ \A d \in 1..m - 1 : d <= Len(b) /\ b[d] = a[d]
    BY <1>3, <2>1, <2>3, <2>5
  <2>7. SameTo(m - 1, b, a)
    BY <2>6 DEF SameTo
  <2>8. ~SameTo(m, b, a)
    <3>1. ~(m <= Len(b) /\ a[m] = b[m]) /\ m \in 1..m
      BY <1>3, <2>1
    <3> QED BY <3>1 DEF SameTo
  <2>9. m - 1 + 1 = m
    BY <2>1
  <2> QED BY <2>3, <2>4, <2>7, <2>8, <2>9 DEF n
<1> QED BY <1>5, <1>6

LEMMA SharesSelf ==
    ASSUME NEW first \in Trail, NEW paths, \A p \in paths : p = first
    PROVE  Shares(first, first, paths)
<1>1. CASE first = <<>>
  BY <1>1 DEF Shares
<1>2. CASE first # <<>>
  <2> DEFINE n == Len(first)
  <2>1. first \in Seq(Name) /\ n \in Nat /\ n \in 1..n
    BY <1>2 DEF Trail
  <2>2. first = SubSeq(first, 1, n)
    BY <2>1
  <2>3. SameTo(n, first, first)
    BY <2>1 DEF SameTo
  <2>4. ~(n < n) /\ \A p \in paths : SameTo(n, p, first)
    BY <2>1, <2>3
  <2> HIDE DEF n
  <2>5. \E m \in 1..n :
            /\ first = SubSeq(first, 1, m)
            /\ \A p \in paths : Kin(p, first) => SameTo(m, p, first)
            /\ m < n => \E p \in paths : Kin(p, first) /\ ~SameTo(m + 1, p, first)
    BY ONLY <2>1, <2>2, <2>4
  <2> QED BY <1>2, <2>5 DEF Shares, n
<1> QED BY <1>1, <1>2

\* A breadcrumb stays the deepest shared one when a section is merged.
LEMMA SharesMore ==
    ASSUME NEW first \in Trail, NEW paths \in SUBSET Trail, NEW h \in Trail, Shares(h, first, paths),
           NEW b \in Trail
    PROVE  Shares(sharedCrumb(h, b), first, paths \cup {b})
<1> DEFINE s == sharedCrumb(h, b)
<1>1. s = IF Alike(h, b) = {} THEN h ELSE SubSeq(h, 1, Cardinality(Alike(h, b)))
  BY SharedIs
<1>2. Len(h) \in Nat /\ DOMAIN h = 1..Len(h) /\ Len(first) \in Nat /\ Len(b) \in Nat
  BY DEF Trail
<1> HIDE DEF s
<1>3. CASE first = <<>>
  <2>1. h = <<>>
    BY <1>3 DEF Shares
  <2>2. Alike(h, b) = {}
    BY <2>1 DEF Alike
  <2> QED BY <1>1, <1>3, <2>1, <2>2 DEF Shares, s
<1>4. CASE first # <<>>
  <2>1. PICK n \in 1..Len(first) :
            /\ h = SubSeq(first, 1, n)
            /\ \A p \in paths : Kin(p, first) => SameTo(n, p, first)
            /\ n < Len(first) => \E p \in paths : Kin(p, first) /\ ~SameTo(n + 1, p, first)
    BY <1>4 DEF Shares
  <2>2. Len(h) = n /\ h # <<>> /\ \A d \in 1..n : h[d] = first[d]
    BY <2>1, Beginning
  <2>3. Kin(b, h) <=> Kin(b, first)
    BY <1>2, <1>4, <2>1, <2>2 DEF Kin
  <2>4. CASE ~Kin(b, first)
    <3>1. 1 \in DOMAIN h /\ (1 > Len(b) \/ h[1] # b[1])
      BY <1>2, <2>1, <2>2, <2>3, <2>4 DEF Kin, Trail
    <3>2. \A k \in DOMAIN h : ~(k < 1)
      BY <1>2
    <3>3. Alike(h, b) = {}
      BY <3>1, <3>2 DEF Alike
    <3> QED BY <1>1, <1>4, <2>1, <2>4, <3>3 DEF Shares, s
  <2>5. CASE Kin(b, first)
    <3>1. PICK k \in 1..n :
              /\ Alike(h, b) = 1..k /\ SameTo(k, b, h)
              /\ k < n => ~SameTo(k + 1, b, h)
      BY <2>2, <2>3, <2>5, AlikeIs
    <3>2. k \in Nat /\ k > 0 /\ k <= n /\ n <= Len(first) /\ k \in 1..Len(first)
      BY <1>2, <2>1, <3>1
    <3>3. Cardinality(1..k) = k /\ 1..k # {}
      <4>1. 1 \in Int /\ k \in Int /\ k - 1 + 1 = k /\ ~(1 > k) /\ 1 \in 1..k
        BY <3>2
      <4>2. Cardinality(1..k) = IF 1 > k THEN 0 ELSE k - 1 + 1
        BY <4>1, FS_Interval
      <4> QED BY <4>1, <4>2
    <3>4. s = SubSeq(h, 1, k)
      BY <1>1, <3>1, <3>3
    <3>5. s = SubSeq(first, 1, k)
      <4> DEFINE t == SubSeq(first, 1, k)
      <4>1. s \in Trail /\ Len(s) = k /\ \A d \in 1..k : s[d] = h[d]
        BY <2>2, <3>1, <3>4, Beginning
      <4>2. t \in Trail /\ Len(t) = k /\ \A d \in 1..k : t[d] = first[d]
        BY <3>2, Beginning
      <4>3. \A d \in 1..k : d \in 1..n
        BY <2>1, <3>2
      <4>4. \A d \in 1..k : s[d] = t[d]
        BY <2>2, <4>1, <4>2, <4>3
      <4> HIDE DEF t
      <4>5. s \in Seq(Name) /\ t \in Seq(Name)
        BY <4>1, <4>2 DEF Trail
      <4>6. s = t
        BY ONLY <4>1, <4>2, <4>4, <4>5, SeqEqual
      <4> QED BY <4>6 DEF t
    <3>6. SameTo(k, b, first)
      <4>1. \A d \in 1..k : h[d] = first[d]
        BY <2>1, <2>2, <3>2
      <4> QED BY <3>1, <4>1 DEF SameTo
    <3>7. \A p \in paths : Kin(p, first) => SameTo(k, p, first)
      <4>1. ASSUME NEW p \in paths, Kin(p, first) PROVE SameTo(k, p, first)
        <5>1. SameTo(n, p, first) /\ Len(p) \in Nat
          BY <2>1, <4>1 DEF Trail
        <5>2. n <= Len(p) /\ \A d \in 1..n : p[d] = first[d]
          BY <5>1 DEF SameTo
        <5>3. k <= Len(p) /\ \A d \in 1..k : p[d] = first[d]
          BY <2>1, <3>2, <5>1, <5>2
        <5> QED BY <5>3 DEF SameTo
      <4> QED BY <4>1
    <3>8. ASSUME k < Len(first)
          PROVE  \E p \in paths \cup {b} : Kin(p, first) /\ ~SameTo(k + 1, p, first)
      <4>1. CASE k < n
        <5>1. ~SameTo(k + 1, b, h)
          BY <3>1, <4>1
        <5>2. \A d \in 1..k + 1 : h[d] = first[d]
          <6>1. \A d \in 1..k + 1 : d \in 1..n
            BY <2>1, <3>2, <4>1
          <6> QED BY <2>2, <6>1
        <5>3. ~SameTo(k + 1, b, first)
          BY <5>1, <5>2 DEF SameTo
        <5> QED BY <2>5, <5>3
      <4>2. CASE k = n
        BY <2>1, <3>8, <4>2
      <4> QED BY <2>1, <3>2, <4>1, <4>2
    <3>9. \A p \in paths \cup {b} : Kin(p, first) => SameTo(k, p, first)
      BY <3>6, <3>7
    <3> QED BY <1>4, <3>2, <3>5, <3>8, <3>9 DEF Shares, s
  <2> QED BY <2>4, <2>5
<1> QED BY <1>3, <1>4

SectionOf(c, k) == text[c.items[k].of].section

PathsOf(c) == {PathOfLines(c.items[k]) : k \in HasLines(c)}

FirstLine(c) == CHOOSE k \in HasLines(c) : \A j \in HasLines(c) : k <= j

FirstPath(c) == PathOfLines(c.items[FirstLine(c)])

\* Each line of a chunk is below the heading of its section.
HeadedEach(c) ==
    \A k \in HasLines(c) : \E j \in 1..k - 1 : c.items[j] = SubHeading(SectionOf(c, k))

IsNamed(c) ==
    \A k \in HasLines(c) :
        \/ c.heading = PathOf(SectionOf(c, k))
        \/ \E j \in 1..k - 1 : c.items[j] = SubHeading(SectionOf(c, k))

HeadIs(c) == Shares(c.heading, FirstPath(c), PathsOf(c))

\* The section being read is the last one begun, and its path the breadcrumb.
SectionsInv ==
    /\ \A i \in DOMAIN text : text[i].section <= Len(sections)
    /\ \A i \in ToSet(buf) : text[i].section = Len(sections)
    /\ curHead = PathOf(Len(sections))

NameInv ==
    /\ SectionsInv
    /\ \A c \in ToSet(out) : IsNamed(c) /\ HeadIs(c)
    /\ pend = NoChunk \/ (HeadedEach(pend) /\ HeadIs(pend))

LEMMA PathOfType ==
    ASSUME SplitTyped, NEW s \in 0..Len(sections)
    PROVE  PathOf(s) \in Trail
BY DEF SplitTyped, PathOf, Trail

LEMMA FirstLineIs ==
    ASSUME NEW c \in ChunkType, Sound(c)
    PROVE  /\ FirstLine(c) \in HasLines(c) /\ \A j \in HasLines(c) : FirstLine(c) <= j
           /\ \A k \in HasLines(c) : (\A j \in HasLines(c) : k <= j) => FirstLine(c) = k
<1> DEFINE has == HasLines(c)
           n == Len(c.items)
           m == Min(has)
<1>1. has # {} /\ has \subseteq 1..n /\ n \in Nat
  BY DEF Sound, HasLines, ChunkType
<1> HIDE DEF has, n
<1>2. m \in has /\ \A j \in has : m <= j
  BY <1>1, FirstPlace
<1> HIDE DEF m
<1>3. FirstLine(c) \in has /\ \A j \in has : FirstLine(c) <= j
  BY <1>2 DEF FirstLine, has
<1>4. \A k \in has : k \in Nat
  BY <1>1
<1>5. ASSUME NEW k \in has, \A j \in has : k <= j PROVE FirstLine(c) = k
  BY <1>3, <1>4, <1>5
<1> QED BY <1>3, <1>5 DEF has

LEMMA PathsType ==
    ASSUME SplitTyped, SectionsInv, NEW c \in ChunkType, Sound(c)
    PROVE  /\ PathsOf(c) \subseteq Trail /\ FirstPath(c) \in PathsOf(c)
           /\ \A k \in HasLines(c) : /\ SectionOf(c, k) \in 0..Len(sections)
                                     /\ PathOfLines(c.items[k]) = PathOf(SectionOf(c, k))
<1>1. \A k \in HasLines(c) : PathOfLines(c.items[k]) = PathOf(SectionOf(c, k))
  BY DEF PathOfLines, SectionOf
<1>2. ASSUME NEW k \in HasLines(c) PROVE SectionOf(c, k) \in 0..Len(sections)
  <2> DEFINE i == c.items[k].of
  <2>1. i \in DOMAIN text
    BY DEF Sound
  <2>2. text[i] \in Paras /\ Len(sections) \in Nat
    BY <2>1 DEF SplitTyped
  <2>3. text[i].section \in Nat /\ text[i].section <= Len(sections)
    BY <2>1, <2>2 DEF Paras, SectionsInv
  <2> QED BY <2>2, <2>3 DEF SectionOf
<1>3. \A k \in HasLines(c) : PathOfLines(c.items[k]) \in Trail
  BY <1>1, <1>2, PathOfType
<1>4. FirstLine(c) \in HasLines(c)
  BY FirstLineIs
<1> QED BY <1>1, <1>2, <1>3, <1>4 DEF PathsOf, FirstPath

\* A chunk of one section has its breadcrumb.
LEMMA NamedOne ==
    ASSUME SplitTyped, SectionsInv, NEW c \in ChunkType, Sound(c), c.heading = curHead,
           \A k \in HasLines(c) : SectionOf(c, k) = Len(sections)
    PROVE  IsNamed(c) /\ HeadIs(c)
<1>1. c.heading = PathOf(Len(sections))
  BY DEF SectionsInv
<1>2. \A p \in PathsOf(c) : p = c.heading
  BY <1>1, PathsType DEF PathsOf
<1>3. FirstPath(c) = c.heading /\ c.heading \in Trail
  BY <1>2, PathsType
<1>4. HeadIs(c)
  BY <1>2, <1>3, SharesSelf DEF HeadIs
<1> QED BY <1>1, <1>4 DEF IsNamed

\* The lines of a section below its heading.
LEMMA MadeHeaded ==
    ASSUME SplitTyped, NEW body \in Seq(DOMAIN text), body # <<>>, NEW a \in Seq(Item),
           NEW c, c.items = HeadedBy(a, body)
    PROVE  /\ Len(a) \in Nat /\ Len(body) \in Nat /\ Len(body) > 0
           /\ HasLines(c) = {k \in DOMAIN a : a[k].kind = "lines"}
                                \cup {Len(a) + 1 + k : k \in 1..Len(body)}
           /\ \A k \in DOMAIN a : c.items[k] = a[k]
           /\ c.items[Len(a) + 1] = SubHeading(Len(sections))
           /\ \A k \in 1..Len(body) : c.items[Len(a) + 1 + k].of = body[k]
<1> DEFINE m == c.items
           l == Len(a)
           n == Len(body)
<1>1. m = HeadedBy(a, body) /\ SplitTyped /\ body \in Seq(DOMAIN text) /\ a \in Seq(Item)
  OBVIOUS
<1>2. l \in Nat /\ DOMAIN a = 1..l /\ n \in Nat /\ n > 0
  OBVIOUS
<1> HIDE DEF m
<1>3. m \in Seq(Item) /\ Len(m) = Len(a) + 1 + Len(body)
  BY ONLY <1>1, HeadedItems
<1>4. \A k \in 1..Len(a) : m[k] = a[k]
  BY ONLY <1>1, HeadedItems
<1>5. m[Len(a) + 1] = SubHeading(Len(sections)) /\ m[Len(a) + 1].kind = "heading"
  BY ONLY <1>1, HeadedItems
<1>6. \A k \in 1..n : m[l + 1 + k].kind = "lines" /\ m[l + 1 + k].of = body[k]
  <2>1. ParagraphsAfter(m, Len(a), body)
    BY ONLY <1>1, HeadedItems
  <2> QED BY ONLY <2>1 DEF ParagraphsAfter
<1>7. m[l + 1].kind # "lines"
  BY <1>5
<1>8. \A k \in 1..l : m[k] = a[k]
  BY <1>4
<1> HIDE DEF l, n
<1>9. DOMAIN m = 1..l + 1 + n
  BY <1>2, <1>3 DEF l, n
<1>10. \A k \in DOMAIN m : k \in 1..l \/ k = l + 1 \/ (k - (l + 1) \in 1..n /\ k = l + 1 + (k - (l + 1)))
  BY <1>2, <1>9
<1>11. {k \in DOMAIN m : m[k].kind = "lines"}
           = {k \in 1..l : a[k].kind = "lines"} \cup {l + 1 + k : k \in 1..n}
  <2>1. ASSUME NEW k \in DOMAIN m, m[k].kind = "lines"
        PROVE  k \in {j \in 1..l : a[j].kind = "lines"} \cup {l + 1 + j : j \in 1..n}
    <3>1. CASE k \in 1..l
      BY <1>8, <2>1, <3>1
    <3>2. CASE k = l + 1
      BY <1>7, <2>1, <3>2
    <3>3. CASE k - (l + 1) \in 1..n /\ k = l + 1 + (k - (l + 1))
      BY <3>3
    <3> QED BY <1>10, <3>1, <3>2, <3>3
  <2>2. \A k \in 1..l : k \in DOMAIN m
    BY <1>2, <1>9
  <2>3. \A k \in 1..n : l + 1 + k \in DOMAIN m
    BY <1>2, <1>9
  <2> QED BY <1>6, <1>8, <2>1, <2>2, <2>3
<1> QED BY <1>2, <1>5, <1>6, <1>8, <1>11 DEF HasLines, m, l, n

LEMMA MergeItems ==
    ASSUME SplitTyped, NEW body \in Seq(DOMAIN text), NEW c \in ChunkType
    PROVE  /\ Begin(body).items = HeadedBy(<<>>, body) /\ Begin(body).heading = curHead
           /\ Merge(c, body).items = HeadedBy(c.items, body)
           /\ Merge(c, body).heading = sharedCrumb(c.heading, curHead)
<1> DEFINE a == c.items
           b == <<SubHeading(Len(sections))>>
           d == Body(body)
<1>1. a \in Seq(Item) /\ b \in Seq(Item) /\ d \in Seq(Item) /\ b \o d \in Seq(Item)
  <2>1. Len(sections) \in Nat /\ Body(body) \in Seq(Item)
    BY BodyLines DEF SplitTyped
  <2> QED BY <2>1, HeadingItem, HeadedLines DEF ChunkType
<1>2. Begin(body).items = b \o d /\ Begin(body).heading = curHead
  BY DEF Begin
<1>3. Merge(c, body).items = (a \o b) \o d
  BY DEF Merge
<1>4. Merge(c, body).heading = sharedCrumb(c.heading, curHead)
  BY DEF Merge
<1>5. HeadedBy(<<>>, body) = <<>> \o (b \o d) /\ HeadedBy(a, body) = a \o (b \o d)
  BY DEF HeadedBy
<1> HIDE DEF a, b, d
<1>6. Associates(a, b, d)
  BY <1>1, JoinAssociates
<1>7. <<>> \o (b \o d) = b \o d
  BY <1>1
<1> QED BY <1>2, <1>3, <1>4, <1>5, <1>6, <1>7 DEF Associates, a

\* Each line of a section that is merged is below its heading.
LEMMA HeadedMore ==
    ASSUME SplitTyped, NEW body \in Seq(DOMAIN text), body # <<>>,
           \A i \in ToSet(body) : text[i].section = Len(sections),
           NEW a \in Seq(Item), NEW c, c.items = HeadedBy(a, body),
           \A k \in DOMAIN a : a[k].kind = "lines" =>
               \E j \in 1..k - 1 : a[j] = SubHeading(text[a[k].of].section)
    PROVE  /\ HeadedEach(c)
           /\ \A k \in 1..Len(body) : SectionOf(c, Len(a) + 1 + k) = Len(sections)
<1> DEFINE l == Len(a)
           n == Len(body)
<1>1. /\ l \in Nat /\ n \in Nat /\ n > 0
      /\ HasLines(c) = {k \in DOMAIN a : a[k].kind = "lines"} \cup {l + 1 + k : k \in 1..n}
      /\ \A k \in DOMAIN a : c.items[k] = a[k]
      /\ c.items[l + 1] = SubHeading(Len(sections))
      /\ \A k \in 1..n : c.items[l + 1 + k].of = body[k]
  BY MadeHeaded
<1>2. DOMAIN a = 1..l /\ \A k \in 1..n : body[k] \in ToSet(body)
  BY SeqOver
<1> HIDE DEF l, n
<1>3. \A k \in 1..n : SectionOf(c, l + 1 + k) = Len(sections)
  BY <1>1, <1>2 DEF SectionOf
<1>4. ASSUME NEW k \in DOMAIN a, a[k].kind = "lines"
      PROVE  \E j \in 1..k - 1 : c.items[j] = SubHeading(SectionOf(c, k))
  <2>1. PICK j \in 1..k - 1 : a[j] = SubHeading(text[a[k].of].section)
    BY <1>4
  <2>2. SectionOf(c, k) = text[a[k].of].section
    BY <1>1 DEF SectionOf
  <2>3. j \in DOMAIN a
    BY <1>1, <1>2
  <2>4. c.items[j] = a[j]
    BY <1>1, <2>3
  <2> QED BY <2>1, <2>2, <2>4
<1>5. ASSUME NEW i \in 1..n, NEW k, k = l + 1 + i
      PROVE  \E j \in 1..k - 1 : c.items[j] = SubHeading(SectionOf(c, k))
  <2>1. l + 1 \in 1..k - 1
    BY <1>1, <1>5
  <2>2. c.items[l + 1] = SubHeading(SectionOf(c, k))
    BY <1>1, <1>3, <1>5
  <2> QED BY <2>1, <2>2
<1>6. HeadedEach(c)
  <2> SUFFICES ASSUME NEW k \in HasLines(c)
               PROVE  \E j \in 1..k - 1 : c.items[j] = SubHeading(SectionOf(c, k))
    BY DEF HeadedEach
  <2>1. CASE k \in {j \in DOMAIN a : a[j].kind = "lines"}
    BY <1>4, <2>1
  <2>2. CASE k \in {l + 1 + j : j \in 1..n}
    <3>1. PICK i \in 1..n : k = l + 1 + i
      BY <2>2
    <3> QED BY <1>5, <3>1
  <2> QED BY <1>1, <2>1, <2>2
<1> QED BY <1>3, <1>6 DEF l, n

LEMMA NamedBegin ==
    ASSUME SplitTyped, SectionsInv, NEW body \in Seq(DOMAIN text), body # <<>>,
           \A i \in ToSet(body) : text[i].section = Len(sections), BodySize(body) < minChars
    PROVE  HeadedEach(Begin(body)) /\ HeadIs(Begin(body))
<1> DEFINE c == Begin(body)
<1>1. c \in ChunkType /\ Sound(c)
  BY MadeChunks, SoundMerged
<1>2. c.items = HeadedBy(<<>>, body) /\ c.heading = curHead
  BY NoChunkType, MergeItems
<1>3. <<>> \in Seq(Item) /\ DOMAIN <<>> = {}
  OBVIOUS
<1> HIDE DEF c
<1>4. HeadedEach(c)
  BY <1>2, <1>3, HeadedMore
<1>5. \A k \in 1..Len(body) : SectionOf(c, Len(<<>>) + 1 + k) = Len(sections)
  BY <1>2, <1>3, HeadedMore
<1>6. HasLines(c) = {k \in DOMAIN <<>> : <<>>[k].kind = "lines"}
                        \cup {Len(<<>>) + 1 + k : k \in 1..Len(body)}
  BY <1>2, <1>3, MadeHeaded
<1>7. \A k \in HasLines(c) : SectionOf(c, k) = Len(sections)
  BY <1>3, <1>5, <1>6
<1>8. HeadIs(c)
  BY <1>1, <1>2, <1>7, NamedOne
<1> QED BY <1>4, <1>8 DEF c

LEMMA NamedMerge ==
    ASSUME SplitTyped, SectionsInv, NEW body \in Seq(DOMAIN text), body # <<>>,
           \A i \in ToSet(body) : text[i].section = Len(sections), BodySize(body) < minChars,
           NEW c \in ChunkType, Sound(c), c.size < minChars, HeadedEach(c), HeadIs(c)
    PROVE  HeadedEach(Merge(c, body)) /\ HeadIs(Merge(c, body))
<1> DEFINE m == Merge(c, body)
           a == c.items
           l == Len(a)
           n == Len(body)
<1>1. m \in ChunkType /\ Sound(m)
  BY MadeChunks, SoundMerged
<1>2. m.items = HeadedBy(a, body) /\ m.heading = sharedCrumb(c.heading, curHead)
  BY MergeItems
<1>3. a \in Seq(Item)
  BY DEF ChunkType
<1>4. \A k \in DOMAIN a : a[k].kind = "lines" =>
          \E j \in 1..k - 1 : a[j] = SubHeading(text[a[k].of].section)
  BY DEF HeadedEach, HasLines, SectionOf
<1>5. HasLines(c) = {k \in DOMAIN a : a[k].kind = "lines"}
  BY DEF HasLines
<1> HIDE DEF m, a
<1>6. HeadedEach(m) /\ \A k \in 1..n : SectionOf(m, l + 1 + k) = Len(sections)
  BY <1>2, <1>3, <1>4, HeadedMore
<1>7. /\ l \in Nat /\ n \in Nat /\ n > 0
      /\ HasLines(m) = {k \in DOMAIN a : a[k].kind = "lines"} \cup {l + 1 + k : k \in 1..n}
      /\ \A k \in DOMAIN a : m.items[k] = a[k]
  BY <1>2, <1>3, MadeHeaded
<1>8. DOMAIN a = 1..l
  BY <1>3
<1> HIDE DEF l, n
<1>9. \A k \in HasLines(c) : k \in HasLines(m) /\ PathOfLines(m.items[k]) = PathOfLines(a[k])
  BY <1>5, <1>7
<1>10. \A k \in 1..n : l + 1 + k \in HasLines(m) /\ PathOfLines(m.items[l + 1 + k]) = curHead
  BY <1>6, <1>7 DEF PathOfLines, SectionOf, SectionsInv
<1>11. PathsOf(m) = PathsOf(c) \cup {curHead}
  <2>1. PathsOf(c) \subseteq PathsOf(m)
    BY <1>9 DEF PathsOf, a
  <2>2. curHead \in PathsOf(m)
    <3>1. 1 \in 1..n
      BY <1>7
    <3> QED BY <1>10, <3>1 DEF PathsOf
  <2>3. ASSUME NEW k \in HasLines(m) PROVE PathOfLines(m.items[k]) \in PathsOf(c) \cup {curHead}
    <3>1. CASE k \in {j \in DOMAIN a : a[j].kind = "lines"}
      BY <1>5, <1>9, <3>1 DEF PathsOf, a
    <3>2. CASE k \in {l + 1 + j : j \in 1..n}
      BY <1>10, <3>2
    <3> QED BY <1>7, <3>1, <3>2
  <2>4. PathsOf(m) \subseteq PathsOf(c) \cup {curHead}
    BY <2>3 DEF PathsOf
  <2> QED BY <2>1, <2>2, <2>4
<1>12. FirstPath(m) = FirstPath(c)
  <2> DEFINE k == FirstLine(c)
  <2>1. k \in HasLines(c) /\ \A j \in HasLines(c) : k <= j
    BY FirstLineIs
  <2> HIDE DEF k
  <2>2. k \in 1..l
    BY <1>5, <1>8, <2>1
  <2>3. \A j \in 1..n : k <= l + 1 + j
    BY <1>7, <2>2
  <2>4. k \in HasLines(m) /\ \A j \in HasLines(m) : k <= j
    BY <1>5, <1>7, <2>1, <2>3
  <2>5. FirstLine(m) = k
    BY <1>1, <2>4, FirstLineIs
  <2>6. PathOfLines(m.items[k]) = PathOfLines(c.items[k])
    BY <1>9, <2>1 DEF a
  <2> QED BY <2>5, <2>6 DEF FirstPath, k
<1>13. HeadIs(m)
  <2> DEFINE first == FirstPath(c)
             paths == PathsOf(c)
             h == c.heading
             b == curHead
  <2>1. h \in Trail /\ paths \in SUBSET Trail /\ first \in Trail
    BY PathsType DEF ChunkType
  <2>2. b \in Trail
    BY NonEmptyType DEF curHead, SplitTyped
  <2>3. Shares(h, first, paths)
    BY DEF HeadIs
  <2> HIDE DEF first, paths, h, b
  <2>4. Shares(sharedCrumb(h, b), first, paths \cup {b})
    BY ONLY <2>1, <2>2, <2>3, SharesMore
  <2> QED BY <1>2, <1>11, <1>12, <2>4 DEF HeadIs, first, paths, h, b
<1> QED BY <1>6, <1>13 DEF m

NamedAll(list) == \A c \in ToSet(list) : IsNamed(c) /\ HeadIs(c)

LEMMA NamedChunks ==
    ASSUME SplitTyped, NameInv
    PROVE  NamedAll(Chunks)
<1>1. /\ Chunks = IF pend = NoChunk THEN out ELSE Append(out, pend)
      /\ out \in Seq(ChunkType) /\ pend \in ChunkType
  BY ChunksLines DEF SplitTyped
<1>2. NamedAll(out) /\ (pend = NoChunk \/ (HeadedEach(pend) /\ HeadIs(pend)))
  BY DEF NameInv, NamedAll
<1>3. HeadedEach(pend) => IsNamed(pend)
  BY DEF HeadedEach, IsNamed
<1>4. ToSet(Append(out, pend)) = ToSet(out) \cup {pend}
  BY <1>1, ToSetOfAppend
<1> QED BY <1>1, <1>2, <1>3, <1>4 DEF NamedAll

LEMMA FlushedNamed ==
    ASSUME SplitTyped, SizeInv, NameInv, ~ended, NEW body \in Seq(DOMAIN text),
           \A i \in ToSet(body) : text[i].section = Len(sections), NEW f, f = Flushed(body)
    PROVE  NamedAll(f.out) /\ (f.pend = NoChunk \/ (HeadedEach(f.pend) /\ HeadIs(f.pend)))
<1>1. out \in Seq(ChunkType) /\ pend \in ChunkType /\ pend.size < minChars /\ SectionsInv
  BY DEF SplitTyped, NameInv
<1>2. /\ NamedAll(out) /\ (pend = NoChunk \/ (HeadedEach(pend) /\ HeadIs(pend)))
      /\ (pend = NoChunk \/ Sound(pend))
  BY DEF NameInv, NamedAll, SizeInv
<1>3. Chunks \in Seq(ChunkType) /\ NamedAll(Chunks)
  BY ChunksLines, NamedChunks
<1>4. CASE f = [out |-> out, pend |-> pend]
  BY <1>2, <1>4
<1>5. CASE body # <<>> /\ f = [out |-> Chunks \o Parts(body), pend |-> NoChunk]
  <2> DEFINE parts == Parts(body)
             n == Len(parts)
  <2>1. parts \in Seq(ChunkType) /\ n = Len(packParagraphs(body))
        /\ \A k \in 1..n : parts[k].heading = curHead
    BY <1>5, PartsLines
  <2>2. \A k \in 1..n : /\ Sound(parts[k])
                        /\ \A j \in HasLines(parts[k]) : parts[k].items[j].of \in ToSet(body)
    BY <1>5, SoundParts
  <2> HIDE DEF parts
  <2>3. \A c \in ToSet(parts) : \E k \in 1..n : c = parts[k]
    BY <2>1 DEF ToSet
  <2> HIDE DEF n
  <2>4. ASSUME NEW c \in ToSet(parts) PROVE IsNamed(c) /\ HeadIs(c)
    <3>1. c \in ChunkType
      BY <2>1 DEF ToSet
    <3>2. Sound(c) /\ c.heading = curHead /\ \A j \in HasLines(c) : c.items[j].of \in ToSet(body)
      BY <2>1, <2>2, <2>3
    <3>3. \A j \in HasLines(c) : SectionOf(c, j) = Len(sections)
      BY <3>2 DEF SectionOf
    <3> QED BY <1>1, <3>1, <3>2, <3>3, NamedOne
  <2>5. ToSet(Chunks \o parts) = ToSet(Chunks) \cup ToSet(parts)
    BY <1>3, <2>1, ToSetJoined
  <2>6. f.out = Chunks \o parts /\ f.pend = NoChunk
    BY <1>5 DEF parts
  <2> QED BY <1>3, <2>4, <2>5, <2>6 DEF NamedAll
<1>6. CASE /\ body # <<>> /\ BodySize(body) \in minChars..maxChars
           /\ f = [out |-> Append(Chunks, Alone(body)), pend |-> NoChunk]
  <2> DEFINE c == Alone(body)
  <2>1. c \in ChunkType /\ Sound(c)
    BY <1>6, SoundAlone, MadeChunks
  <2>2. c.heading = curHead /\ c.items = Body(body)
    BY DEF Alone
  <2>3. f.out = Append(Chunks, c) /\ f.pend = NoChunk
    BY <1>6
  <2> HIDE DEF c
  <2>4. \A j \in HasLines(c) : SectionOf(c, j) = Len(sections)
    <3>1. /\ Body(body) \in Seq(Item) /\ Len(Body(body)) = Len(body)
          /\ \A k \in DOMAIN body : Body(body)[k].of = body[k]
      BY BodyLines DEF SplitTyped
    <3>2. DOMAIN Body(body) = DOMAIN body /\ \A k \in DOMAIN body : body[k] \in ToSet(body)
      BY <3>1 DEF ToSet
    <3> QED BY <2>2, <3>1, <3>2 DEF SectionOf, HasLines
  <2>5. IsNamed(c) /\ HeadIs(c)
    BY <1>1, <2>1, <2>2, <2>4, NamedOne
  <2>6. ToSet(Append(Chunks, c)) = ToSet(Chunks) \cup {c}
    BY <1>3, <2>1, ToSetOfAppend
  <2> QED BY <1>3, <2>3, <2>5, <2>6 DEF NamedAll
<1>7. ASSUME NEW c \in ChunkType, HeadedEach(c), HeadIs(c), f = Emit(out, c)
      PROVE  NamedAll(f.out) /\ (f.pend = NoChunk \/ (HeadedEach(f.pend) /\ HeadIs(f.pend)))
  <2>1. \/ c.size >= minChars /\ f.out = Append(out, c) /\ f.pend = NoChunk
        \/ c.size < minChars /\ f.out = out /\ f.pend = c
    BY <1>1, <1>7, EmitLines
  <2>2. CASE f.out = Append(out, c) /\ f.pend = NoChunk
    <3>1. ToSet(Append(out, c)) = ToSet(out) \cup {c}
      BY <1>1, <1>7, ToSetOfAppend
    <3>2. IsNamed(c)
      BY <1>7 DEF HeadedEach, IsNamed
    <3> QED BY <1>2, <1>7, <2>2, <3>1, <3>2 DEF NamedAll
  <2>3. CASE f.out = out /\ f.pend = c
    BY <1>2, <1>7, <2>3
  <2> QED BY <2>1, <2>2, <2>3
<1>8. CASE /\ body # <<>> /\ BodySize(body) < minChars /\ pend # NoChunk
           /\ f = Emit(out, Merge(pend, body))
  <2>1. Sound(pend) /\ HeadedEach(pend) /\ HeadIs(pend)
    BY <1>2, <1>8
  <2>2. Merge(pend, body) \in ChunkType
    BY <1>1, MadeChunks
  <2>3. HeadedEach(Merge(pend, body)) /\ HeadIs(Merge(pend, body))
    BY <1>1, <1>8, <2>1, NamedMerge
  <2> QED BY <1>7, <1>8, <2>2, <2>3
<1>9. CASE /\ body # <<>> /\ BodySize(body) < minChars /\ pend = NoChunk
           /\ f = Emit(out, Begin(body))
  <2>1. Begin(body) \in ChunkType
    BY MadeChunks
  <2>2. HeadedEach(Begin(body)) /\ HeadIs(Begin(body))
    BY <1>1, <1>9, NamedBegin
  <2> QED BY <1>7, <1>9, <2>1, <2>2
<1> QED BY <1>4, <1>5, <1>6, <1>8, <1>9, FlushedIs

\* What a chunk is named stays so when the text goes on.
LEMMA NamedKept ==
    ASSUME SplitTyped, SectionsInv, DOMAIN text \subseteq DOMAIN text',
           \A i \in DOMAIN text : text'[i] = text[i],
           \A s \in 1..Len(sections) : sections'[s] = sections[s],
           NEW c \in ChunkType, Sound(c)
    PROVE  /\ HeadedEach(c) => HeadedEach(c)'
           /\ IsNamed(c) => IsNamed(c)'
           /\ HeadIs(c) => HeadIs(c)'
<1>1. HasLines(c)' = HasLines(c)
  BY DEF HasLines
<1>2. \A k \in HasLines(c) : SectionOf(c, k)' = SectionOf(c, k)
  BY DEF SectionOf, Sound
<1>3. \A s \in 0..Len(sections) : PathOf(s)' = PathOf(s)
  <2>1. Len(sections) \in Nat
    BY DEF SplitTyped
  <2> QED BY <2>1 DEF PathOf
<1>4. \A k \in HasLines(c) : SectionOf(c, k) \in 0..Len(sections)
  BY PathsType
<1>5. \A k \in HasLines(c) : PathOf(SectionOf(c, k))' = PathOf(SectionOf(c, k))
  BY <1>2, <1>3, <1>4
<1>6. \A k \in HasLines(c) : PathOfLines(c.items[k])' = PathOfLines(c.items[k])
  BY <1>5 DEF PathOfLines, SectionOf
<1>7. HeadedEach(c) => HeadedEach(c)'
  BY <1>1, <1>2 DEF HeadedEach, SubHeading
<1>8. IsNamed(c) => IsNamed(c)'
  BY <1>1, <1>2, <1>5 DEF IsNamed, SubHeading
<1>9. FirstPath(c)' = FirstPath(c)
  <2>1. FirstLine(c)' = FirstLine(c) /\ FirstLine(c) \in HasLines(c)
    BY <1>1, FirstLineIs DEF FirstLine
  <2> QED BY <1>6, <2>1 DEF FirstPath
<1>10. PathsOf(c)' = PathsOf(c)
  BY <1>1, <1>6 DEF PathsOf
<1>11. HeadIs(c) => HeadIs(c)'
  BY ONLY <1>9, <1>10 DEF HeadIs, Shares, Kin, SameTo
<1> QED BY <1>7, <1>8, <1>11

LEMMA NamedAllKept ==
    ASSUME SplitTyped, SectionsInv, DOMAIN text \subseteq DOMAIN text',
           \A i \in DOMAIN text : text'[i] = text[i],
           \A s \in 1..Len(sections) : sections'[s] = sections[s],
           NEW list \in Seq(ChunkType), NamedAll(list), \A c \in ToSet(list) : Sound(c),
           NEW w \in ChunkType, w = NoChunk \/ (Sound(w) /\ HeadedEach(w) /\ HeadIs(w)),
           out' = list, pend' = w, SectionsInv'
    PROVE  NameInv'
<1>1. \A c \in ToSet(list) : c \in ChunkType
  BY DEF ToSet
<1>2. \A c \in ToSet(list) : IsNamed(c)' /\ HeadIs(c)'
  BY <1>1, NamedKept DEF NamedAll
<1>3. w = NoChunk \/ (HeadedEach(w)' /\ HeadIs(w)')
  BY NamedKept
<1>4. (pend = NoChunk)' <=> w = NoChunk
  BY DEF NoChunk
<1>5. (HeadedEach(pend) /\ HeadIs(pend))' <=> (HeadedEach(w)' /\ HeadIs(w)')
  BY ONLY pend' = w DEF HeadedEach, HeadIs, Shares, Kin, SameTo, FirstPath, FirstLine, PathsOf,
          HasLines, SectionOf, SubHeading, PathOfLines, PathOf
<1>6. (\A c \in ToSet(out) : IsNamed(c) /\ HeadIs(c))'
  BY ONLY out' = list, <1>2
<1> QED BY <1>3, <1>4, <1>5, <1>6 DEF NameInv

LEMMA SectionsNext ==
    ASSUME SplitTyped, SplitTyped', SectionsInv, [SplitNext]_splitVars
    PROVE  /\ SectionsInv'
           /\ DOMAIN text \subseteq DOMAIN text' /\ \A i \in DOMAIN text : text'[i] = text[i]
           /\ \A s \in 1..Len(sections) : sections'[s] = sections[s]
<1>1. /\ text \in Seq(Paras) /\ buf \in Seq(DOMAIN text) /\ sections \in Seq(Trail)
      /\ Len(sections) \in Nat
  BY DEF SplitTyped
<1>2. /\ \A i \in DOMAIN text : text[i].section <= Len(sections)
      /\ \A i \in ToSet(buf) : text[i].section = Len(sections)
      /\ curHead = PathOf(Len(sections))
  BY DEF SectionsInv
<1>3. ASSUME NEW level \in Level, NEW name \in Name, ReadHeading(level, name)
      PROVE  /\ SectionsInv' /\ text' = text
             /\ \A s \in 1..Len(sections) : sections'[s] = sections[s]
  <2>1. /\ text' = text /\ buf' = <<>>
        /\ sections' = Append(sections, nonEmpty(crumb'))
    BY <1>3 DEF ReadHeading
  <2>2. nonEmpty(crumb') \in Trail
    BY NonEmptyType DEF SplitTyped
  <2>3. /\ Len(sections') = Len(sections) + 1
        /\ sections'[Len(sections) + 1] = nonEmpty(crumb')
        /\ \A s \in 1..Len(sections) : sections'[s] = sections[s]
    BY <1>1, <2>1, <2>2
  <2>4. curHead' = PathOf(Len(sections))'
    <3>1. curHead' = nonEmpty(crumb')
      BY DEF curHead, nonEmpty
    <3>2. Len(sections') # 0
      BY <1>1, <2>3
    <3> QED BY <2>3, <3>1, <3>2 DEF PathOf
  <2>5. \A i \in DOMAIN text : text[i].section \in Nat
    BY <1>1 DEF Paras
  <2>6. \A i \in DOMAIN text : text[i].section <= Len(sections)'
    BY <1>1, <1>2, <2>3, <2>5
  <2>7. ToSet(buf') = {}
    BY <2>1 DEF ToSet
  <2> QED BY <2>1, <2>3, <2>4, <2>6, <2>7 DEF SectionsInv
<1>4. ASSUME NEW p \in Paragraph, ReadParagraph(p)
      PROVE  /\ SectionsInv' /\ sections' = sections
             /\ DOMAIN text \subseteq DOMAIN text' /\ \A i \in DOMAIN text : text'[i] = text[i]
  <2> DEFINE n == Len(text) + 1
             new == [lines |-> p.lines, table |-> p.table, section |-> Len(sections)]
  <2>1. /\ text' = Append(text, new) /\ buf' = Append(buf, n)
        /\ sections' = sections /\ crumb' = crumb /\ new.section = Len(sections)
    BY <1>4 DEF ReadParagraph
  <2> HIDE DEF new
  <2>2. /\ DOMAIN text' = 1..n /\ DOMAIN text = 1..n - 1 /\ n \in Nat /\ n > 0
        /\ text'[n] = new /\ \A i \in DOMAIN text : text'[i] = text[i]
    BY <1>1, <2>1
  <2> HIDE DEF n
  <2>3. \A i \in DOMAIN text' : i \in DOMAIN text \/ i = n
    BY <2>2
  <2>4. \A i \in DOMAIN text' : text'[i].section <= Len(sections')
    BY <1>1, <1>2, <2>1, <2>2, <2>3
  <2>5. ToSet(buf') \subseteq ToSet(buf) \cup {n} /\ ToSet(buf) \subseteq DOMAIN text
    <3>1. buf \in Seq(Nat) /\ ToSet(buf) \subseteq DOMAIN text
      <4>1. DOMAIN text \subseteq Nat
        BY <2>2
      <4> QED BY <1>1, <4>1, WiderSeq, SeqOver
    <3>2. ToSet(Append(buf, n)) = ToSet(buf) \cup {n}
      BY <2>2, <3>1, ToSetOfAppend
    <3> QED BY <2>1, <3>1, <3>2
  <2>6. \A i \in ToSet(buf') : text'[i].section = Len(sections')
    BY <1>2, <2>1, <2>2, <2>5
  <2>7. curHead' = curHead /\ PathOf(Len(sections))' = PathOf(Len(sections))
    BY <2>1 DEF curHead, PathOf, nonEmpty
  <2>8. curHead' = PathOf(Len(sections))'
    BY <1>2, <2>7
  <2>9. SectionsInv'
    BY ONLY <2>4, <2>6, <2>8 DEF SectionsInv
  <2>10. DOMAIN text \subseteq DOMAIN text'
    BY <2>2
  <2> QED BY <2>1, <2>2, <2>9, <2>10
<1>5. CASE End
  <2>1. text' = text /\ sections' = sections /\ crumb' = crumb /\ buf' = <<>>
    BY <1>5 DEF End
  <2>2. ToSet(buf') = {}
    BY <2>1 DEF ToSet
  <2>3. curHead' = curHead /\ PathOf(Len(sections))' = PathOf(Len(sections))
    BY <2>1 DEF curHead, PathOf, nonEmpty
  <2> QED BY <1>2, <2>1, <2>2, <2>3 DEF SectionsInv
<1>6. CASE UNCHANGED splitVars
  <2>1. text' = text /\ sections' = sections /\ crumb' = crumb /\ buf' = buf
    BY <1>6 DEF splitVars
  <2>2. curHead' = curHead /\ PathOf(Len(sections))' = PathOf(Len(sections))
    BY <2>1 DEF curHead, PathOf, nonEmpty
  <2> QED BY <1>2, <2>1, <2>2 DEF SectionsInv
<1> QED BY <1>3, <1>4, <1>5, <1>6 DEF SplitNext

LEMMA NameNext ==
    ASSUME SplitTyped, SplitTyped', SizeInv, NameInv, [SplitNext]_splitVars
    PROVE  NameInv'
<1>1. out \in Seq(ChunkType) /\ pend \in ChunkType /\ buf \in Seq(DOMAIN text)
  BY DEF SplitTyped
<1>2. /\ SectionsInv /\ NamedAll(out)
      /\ pend = NoChunk \/ (Sound(pend) /\ HeadedEach(pend) /\ HeadIs(pend))
      /\ \A c \in ToSet(out) : Sound(c)
      /\ \A i \in ToSet(buf) : text[i].section = Len(sections)
  BY DEF NameInv, NamedAll, SizeInv, Sized, SectionsInv
<1>3. /\ SectionsInv'
      /\ DOMAIN text \subseteq DOMAIN text' /\ \A i \in DOMAIN text : text'[i] = text[i]
      /\ \A s \in 1..Len(sections) : sections'[s] = sections[s]
  BY <1>2, SectionsNext
<1>4. ASSUME out' = out, pend' = pend PROVE NameInv'
  BY <1>1, <1>2, <1>3, <1>4, NamedAllKept
\* What a flush makes is sound and named.
<1>5. ASSUME ~ended, NEW f, f = Flushed(buf)
      PROVE  /\ f.out \in Seq(ChunkType) /\ f.pend \in ChunkType
             /\ NamedAll(f.out) /\ \A c \in ToSet(f.out) : Sound(c)
             /\ f.pend = NoChunk \/ (Sound(f.pend) /\ HeadedEach(f.pend) /\ HeadIs(f.pend))
  <2>1. f.out \in Seq(ChunkType) /\ f.pend \in ChunkType
    BY <1>1, <1>5, FlushedLines
  <2>2. Sized(f.out) /\ (f.pend = NoChunk \/ Sound(f.pend))
    BY <1>1, <1>5, FlushedSized
  <2>3. NamedAll(f.out) /\ (f.pend = NoChunk \/ (HeadedEach(f.pend) /\ HeadIs(f.pend)))
    BY <1>1, <1>2, <1>5, FlushedNamed
  <2> QED BY <2>1, <2>2, <2>3 DEF Sized
<1>6. ASSUME NEW level \in Level, NEW name \in Name, ReadHeading(level, name) PROVE NameInv'
  <2> DEFINE f == Flushed(buf)
  <2>1. ~ended /\ out' = f.out /\ pend' = f.pend
    BY <1>6 DEF ReadHeading, Flush
  <2>2. /\ f.out \in Seq(ChunkType) /\ f.pend \in ChunkType
        /\ NamedAll(f.out) /\ \A c \in ToSet(f.out) : Sound(c)
        /\ f.pend = NoChunk \/ (Sound(f.pend) /\ HeadedEach(f.pend) /\ HeadIs(f.pend))
    BY <1>5, <2>1
  <2> HIDE DEF f
  <2> QED BY <1>2, <1>3, <2>1, <2>2, NamedAllKept
<1>7. ASSUME NEW p \in Paragraph, ReadParagraph(p) PROVE NameInv'
  BY <1>4, <1>7 DEF ReadParagraph
<1>8. CASE End
  <2> DEFINE f == Flushed(buf)
             all == IF f.pend = NoChunk THEN f.out ELSE Append(f.out, f.pend)
  <2>1. ~ended /\ out' = all /\ pend' = NoChunk
    BY <1>8 DEF End
  <2>2. /\ f.out \in Seq(ChunkType) /\ f.pend \in ChunkType
        /\ NamedAll(f.out) /\ \A c \in ToSet(f.out) : Sound(c)
        /\ f.pend = NoChunk \/ (Sound(f.pend) /\ HeadedEach(f.pend) /\ HeadIs(f.pend))
    BY <1>5, <2>1
  <2> HIDE DEF f
  <2>3. all \in Seq(ChunkType) /\ NamedAll(all) /\ \A c \in ToSet(all) : Sound(c)
    <3>1. CASE f.pend = NoChunk
      BY <2>2, <3>1
    <3>2. CASE f.pend # NoChunk
      <4>1. ToSet(Append(f.out, f.pend)) = ToSet(f.out) \cup {f.pend}
        BY <2>2, ToSetOfAppend
      <4>2. IsNamed(f.pend)
        BY <2>2, <3>2 DEF HeadedEach, IsNamed
      <4> QED BY <2>2, <3>2, <4>1, <4>2 DEF NamedAll
    <3> QED BY <3>1, <3>2
  <2> HIDE DEF all
  <2> QED BY <1>2, <1>3, <2>1, <2>3, NoChunkType, NamedAllKept
<1>9. CASE UNCHANGED splitVars
  BY <1>4, <1>9 DEF splitVars
<1> QED BY <1>6, <1>7, <1>8, <1>9 DEF SplitNext

LEMMA NameInit == SplitInit => NameInv
<1> SUFFICES ASSUME SplitInit PROVE NameInv
  OBVIOUS
<1>1. /\ text = <<>> /\ sections = <<>> /\ crumb = <<>> /\ buf = <<>> /\ out = <<>>
      /\ pend = NoChunk
  BY DEF SplitInit
<1>2. ToSet(buf) = {} /\ ToSet(out) = {} /\ DOMAIN text = {}
  BY <1>1 DEF ToSet
<1>3. curHead = PathOf(Len(sections))
  <2>1. crumb \in Seq(CrumbName) /\ Len(crumb) = 0
    BY <1>1
  <2>2. curHead \in Trail
    BY <2>1, NonEmptyType DEF curHead
  <2>3. ToSet(crumb) = {}
    BY <1>1 DEF ToSet
  <2>4. curHead = <<>>
    <3> DEFINE some == ToSet(crumb) \ {""}
    <3>1. curHead = Only(crumb, some)
      BY DEF curHead, nonEmpty
    <3> HIDE DEF some
    <3>2. Only(crumb, some) \in Seq(CrumbName) /\ Len(Only(crumb, some)) <= Len(crumb)
      BY <2>1, OnlyType
    <3>3. Len(Only(crumb, some)) = 0
      BY <2>1, <3>2
    <3> QED BY <3>1, <3>2, <3>3
  <2>5. Len(sections) = 0
    BY <1>1
  <2> QED BY <2>4, <2>5 DEF PathOf
<1> QED BY <1>1, <1>2, <1>3 DEF NameInv, SectionsInv

LEMMA NameAlways == SplitSpec => []NameInv
<1>1. SplitTyped /\ SplitTyped' /\ SizeInv /\ NameInv /\ [SplitNext]_splitVars => NameInv'
  BY NameNext
<1> QED BY <1>1, NameInit, SplitTypedAlways, SizeAlways, PTL DEF SplitSpec

LEMMA NameInvMeans ==
    ASSUME SplitTyped, SizeInv, NameInv
    PROVE  ChunksAreNamed
<1>1. Chunks \in Seq(ChunkType) /\ NamedAll(Chunks)
  BY ChunksLines, NamedChunks
<1>2. \A c \in ToSet(Chunks) : c \in ChunkType /\ Sound(c)
  <2>1. \A c \in ToSet(Chunks) : c \in ChunkType
    BY <1>1 DEF ToSet
  <2>2. /\ Chunks = IF pend = NoChunk THEN out ELSE Append(out, pend)
        /\ out \in Seq(ChunkType) /\ pend \in ChunkType
    BY ChunksLines DEF SplitTyped
  <2>3. ToSet(Append(out, pend)) = ToSet(out) \cup {pend}
    BY <2>2, ToSetOfAppend
  <2> QED BY <2>1, <2>2, <2>3 DEF SizeInv, Sized
<1>3. LinesAreNamed
  BY <1>1 DEF LinesAreNamed, NamedAll, IsNamed, SectionOf
<1>4. HeadingIsShared
  <2> SUFFICES ASSUME NEW c \in ToSet(Chunks)
               PROVE  LET paths == PathsOf(c)
                          first == FirstPath(c)
                          kin == {p \in paths : p # <<>> /\ first # <<>> /\ p[1] = first[1]}
                          shared == {a \in Ancestors(first) : \A p \in kin : a \in Ancestors(p)}
                      IN c.heading = IF first = <<>> THEN first
                                     ELSE CHOOSE a \in shared : \A b \in shared : Len(b) <= Len(a)
    BY DEF HeadingIsShared, PathsOf, FirstPath, FirstLine
  <2>1. HeadIs(c)
    BY <1>1 DEF NamedAll
  <2>2. PathsOf(c) \in SUBSET Trail /\ FirstPath(c) \in Trail
    BY <1>2, PathsType DEF NameInv
  <2>3. Shares(c.heading, FirstPath(c), PathsOf(c))
    BY <2>1 DEF HeadIs
  <2> QED BY <2>2, <2>3, SharesMeans
<1> QED BY <1>3, <1>4 DEF ChunksAreNamed

\* A chunk names the sections it holds and no other: each of its lines has its
\* section's path for a breadcrumb or its heading above it, and the breadcrumb
\* is the deepest one shared (chunk.go flush, sharedCrumb).
THEOREM ChunksAreNamedCorrect == SplitSpec => []ChunksAreNamed
<1>1. SplitTyped /\ SizeInv /\ NameInv => ChunksAreNamed
  BY NameInvMeans
<1> QED BY <1>1, SplitTypedAlways, SizeAlways, NameAlways, PTL

\* The stack is as deep as the last heading.
CrumbInv == Len(crumb) \in Level \cup {0}

LEMMA CrumbAlways == SplitSpec => []CrumbInv
<1>1. SplitInit => CrumbInv
  <2>1. Len(<<>>) = 0
    OBVIOUS
  <2> QED BY <2>1 DEF SplitInit, CrumbInv
<1>2. CrumbInv /\ [SplitNext]_splitVars => CrumbInv'
  <2> SUFFICES ASSUME CrumbInv, [SplitNext]_splitVars PROVE CrumbInv'
    OBVIOUS
  <2>1. ASSUME NEW level \in Level, NEW name \in Name, ReadHeading(level, name) PROVE CrumbInv'
    <3>1. level \in Nat
      <4>1. Level \subseteq 1..6
        BY HeadingAssumption, Zenon
      <4> QED BY <4>1
    <3>2. DOMAIN crumb' = 1..level
      BY <2>1 DEF ReadHeading, crumbAt
    <3>3. crumb' = [k \in 1..level |-> crumb'[k]]
      BY <2>1 DEF ReadHeading, crumbAt
    <3>4. Len(crumb') = level
      BY <3>1, <3>2, <3>3
    <3> QED BY <3>4 DEF CrumbInv
  <2>2. CASE crumb' = crumb
    BY <2>2 DEF CrumbInv
  <2> QED BY <2>1, <2>2 DEF SplitNext, ReadParagraph, End, splitVars
<1> QED BY <1>1, <1>2, PTL DEF SplitSpec

\* The types of a text on its way to chunks: each paragraph is in a section that
\* was begun, and each chunk has something in it and a size (chunk.go).
THEOREM SplitTypeCorrect == SplitSpec => []SplitTypeOK
<1>1. SplitTyped /\ SizeInv /\ NameInv /\ CrumbInv => SplitTypeOK
  <2> SUFFICES ASSUME SplitTyped, SizeInv, NameInv, CrumbInv PROVE SplitTypeOK
    OBVIOUS
  <2>1. \A i \in DOMAIN text : text[i].section \in 0..Len(sections)
    <3>1. Len(sections) \in Nat /\ \A i \in DOMAIN text : text[i] \in Paras
      BY DEF SplitTyped
    <3>2. \A i \in DOMAIN text : text[i].section \in Nat /\ text[i].section <= Len(sections)
      BY <3>1 DEF Paras, NameInv, SectionsInv
    <3> QED BY <3>1, <3>2
  <2>2. ToSet(crumb) \subseteq Name \cup {""}
    <3>1. ToSet(crumb) \subseteq CrumbName
      BY SeqOver DEF SplitTyped
    <3> QED BY <3>1 DEF CrumbName
  <2>3. ToSet(buf) \subseteq DOMAIN text
    BY SeqOver DEF SplitTyped
  <2>4. \A c \in ToSet(out) : ToSet(c.heading) \subseteq Name /\ c.items # <<>> /\ c.size > 0
    <3> SUFFICES ASSUME NEW c \in ToSet(out)
                 PROVE  ToSet(c.heading) \subseteq Name /\ c.items # <<>> /\ c.size > 0
      OBVIOUS
    <3>1. c \in ChunkType
      BY SeqOver DEF SplitTyped
    <3>2. c.heading \in Seq(Name)
      BY <3>1 DEF ChunkType, Trail
    <3>3. ToSet(c.heading) \subseteq Name
      BY <3>2, SeqOver
    <3> QED BY <3>3 DEF SizeInv, Sized, Sound
  <2> QED BY <2>1, <2>2, <2>3, <2>4 DEF SplitTypeOK, SplitTyped, CrumbInv
<1> QED BY <1>1, SplitTypedAlways, SizeAlways, NameAlways, CrumbAlways, PTL
===============================================================================
