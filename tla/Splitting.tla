------------------------------- MODULE Splitting ------------------------------
(***************************************************************************)
(* How a document becomes chunks (SplitMarkdown in src/internal/rag/       *)
(* chunk.go): the loop over the lines of a text, heading after heading and *)
(* paragraph after paragraph. Text is lengths: a paragraph is the lengths  *)
(* of its lines, and a chunk is a list of what stands in it and its own    *)
(* length. What clean() removes has been removed.                          *)
(***************************************************************************)
EXTENDS ListFolds, FiniteSets

CONSTANTS
    maxChars,       \* a section longer than this is split
    minChars,       \* a section shorter than this is merged
    overlap,        \* how much of a part the next one begins with
    subHeadingSize, \* length of a heading written into a text, with its newline
    Paragraph,      \* the paragraphs a text may have
    Name, Level,    \* the headings it may have
    MaxParagraphs,  \* bound on the paragraphs of a text
    MaxHeadings     \* bound on its headings

ASSUME SizesAssumption ==
    /\ {maxChars, minChars, overlap, subHeadingSize} \subseteq Nat
    /\ overlap < minChars /\ 2 * minChars < maxChars
\* A paragraph stands between two blank lines, so it has lines and none is empty.
ASSUME ParagraphAssumption ==
    /\ Paragraph \subseteq [lines: Seq(Nat \ {0}), table: BOOLEAN]
    /\ \A p \in Paragraph : p.lines # <<>>
ASSUME HeadingAssumption == Level \subseteq 1..6 /\ "" \notin Name

VARIABLES
    text,       \* the paragraphs read so far, each with its section
    sections,   \* the paths of the sections begun so far
    crumb,      \* the stack of headings, "" for a level that was skipped
    buf,        \* the paragraphs of the section being read
    pend,       \* an undersized section waiting for the next one, or NoChunk
    out,        \* the chunks made so far
    ended       \* whether the whole text has been read

splitVars == <<text, sections, crumb, buf, pend, out, ended>>

\* What stands in a chunk: lines of a paragraph; the header lines of a table
\* again; the end of the part before; the heading of a section.
Lines(i, lines) == [kind |-> "lines", of |-> i, lines |-> lines]
Columns(i) == [kind |-> "columns", of |-> i, lines |-> <<1, 2>>]
CarriedOver == [kind |-> "tail", of |-> 0, lines |-> <<>>]
SubHeading(s) == [kind |-> "heading", of |-> s, lines |-> <<>>]

NoChunk == [heading |-> <<>>, items |-> <<>>, size |-> 0]

Chunks == out \o (IF pend = NoChunk THEN <<>> ELSE <<pend>>)

SplitTypeOK ==
    /\ \A i \in DOMAIN text : text[i].section \in 0..Len(sections)
    /\ Len(crumb) \in Level \cup {0} /\ ToSet(crumb) \subseteq Name \cup {""}
    /\ ToSet(buf) \subseteq DOMAIN text
    /\ pend = NoChunk \/ pend.size < minChars
    /\ \A c \in ToSet(out) : ToSet(c.heading) \subseteq Name /\ c.items # <<>> /\ c.size > 0
    /\ ended \in BOOLEAN

SplitInit ==
    /\ text = <<>> /\ sections = <<>>
    /\ crumb = <<>> /\ buf = <<>>
    /\ pend = NoChunk /\ out = <<>>
    /\ ended = FALSE

-------------------------------------------------------------------------------
\* Pieces joined by a separator.
Joined(sizes, separator) ==
    IF sizes = <<>> THEN 0 ELSE Total(sizes) + separator * (Len(sizes) - 1)

ParagraphSize(i) == Joined(text[i].lines, 1)

BodySize(body) == Joined([k \in DOMAIN body |-> ParagraphSize(body[k])], 2)

LinesSize(i, lines) == Joined([k \in DOMAIN lines |-> text[i].lines[lines[k]]], 1)

AllLines(i) == [k \in DOMAIN text[i].lines |-> k]

(***************************************************************************)
(* splitLines: one oversized paragraph, cut between lines. A table keeps   *)
(* its first two lines in every part.                                      *)
(***************************************************************************)
Header(i) == IF Len(text[i].lines) > 2 /\ text[i].table THEN <<1, 2>> ELSE <<>>

Rows(i) == SubSeq(AllLines(i), Len(Header(i)) + 1, Len(text[i].lines))

Put(i, cut, line) ==
    IF /\ LinesSize(i, cut.cur) + 1 + text[i].lines[line] > maxChars
       /\ Len(cut.cur) > Len(Header(i))
    THEN [parts |-> Append(cut.parts, cut.cur), cur |-> Append(Header(i), line)]
    ELSE [parts |-> cut.parts, cur |-> Append(cut.cur, line)]

Cut(i) ==
    LET cut == FoldLeft(LAMBDA acc, line : Put(i, acc, line),
                        [parts |-> <<>>, cur |-> Header(i)], Rows(i))
    IN IF Len(cut.cur) > Len(Header(i)) THEN Append(cut.parts, cut.cur) ELSE cut.parts

splitLines(i) ==
    [k \in DOMAIN Cut(i) |->
        [items |-> IF k = 1 \/ Header(i) = <<>> THEN <<Lines(i, Cut(i)[k])>>
                   ELSE <<Columns(i), Lines(i, SubSeq(Cut(i)[k], 3, Len(Cut(i)[k])))>>,
         size |-> LinesSize(i, Cut(i)[k])]]

(***************************************************************************)
(* packParagraphs: an oversized section, cut between paragraphs. size      *)
(* counts the blank line that follows each paragraph until the part is     *)
(* written. The next part begins with the end of the last.                 *)
(***************************************************************************)
Written(pack) ==
    IF pack.cur = <<>> THEN pack.parts
    ELSE Append(pack.parts, [items |-> pack.cur, size |-> pack.size - 2])

\* A part that begins with the whole of the part before.
CarryOnAll(pack) ==
    [parts |-> Written(pack), cur |-> <<CarriedOver>>, size |-> pack.size + 2]

CarryOn(pack) ==
    [parts |-> Written(pack), cur |-> <<CarriedOver>>,
     size |-> (IF pack.size > overlap THEN overlap ELSE pack.size) + 2]

Pack(pack, i) ==
    IF ParagraphSize(i) > maxChars
    THEN [parts |-> Written(pack) \o splitLines(i), cur |-> <<>>, size |-> 0]
    ELSE LET room == pack.size = 0 \/ pack.size + ParagraphSize(i) <= maxChars
             next == IF room THEN pack ELSE CarryOn(pack)
         IN [next EXCEPT !.cur = Append(@, Lines(i, AllLines(i))),
                         !.size = @ + ParagraphSize(i) + 2]

packParagraphs(body) ==
    Written(FoldLeft(Pack, [parts |-> <<>>, cur |-> <<>>, size |-> 0], body))

-------------------------------------------------------------------------------
nonEmpty(path) == Only(path, ToSet(path) \ {""})

\* The breadcrumb of the section being read.
curHead == nonEmpty(crumb)

\* The merged breadcrumb that stays that of the first section.
firstCrumb(a, b) == a

\* The deepest breadcrumb two have in common; the first when there is none.
sharedCrumb(a, b) ==
    LET differ == {k \in DOMAIN a : k > Len(b) \/ a[k] # b[k]}
        shared == {k \in DOMAIN a : \A d \in differ : k < d}
    IN IF shared = {} THEN a ELSE SubSeq(a, 1, Cardinality(shared))

Body(body) == [k \in DOMAIN body |-> Lines(body[k], AllLines(body[k]))]

\* A section of its own in a chunk, with its heading as the breadcrumb only.
Alone(body) ==
    [heading |-> curHead, items |-> Body(body), size |-> BodySize(body)]

Begin(body) ==
    [heading |-> curHead,
     items |-> <<SubHeading(Len(sections))>> \o Body(body),
     size |-> subHeadingSize + BodySize(body)]

Merge(chunk, body) ==
    [heading |-> sharedCrumb(chunk.heading, curHead),
     items |-> chunk.items \o <<SubHeading(Len(sections))>> \o Body(body),
     size |-> chunk.size + 2 + subHeadingSize + BodySize(body)]

Parts(body) ==
    LET parts == packParagraphs(body) IN
    [k \in DOMAIN parts |->
        [heading |-> curHead, items |-> parts[k].items, size |-> parts[k].size]]

\* An oversized section, put before the one that waits.
SplitFirst(body) == [out |-> out \o Parts(body), pend |-> pend]

Split(body) == [out |-> Chunks \o Parts(body), pend |-> NoChunk]

\* A chunk waits for the next section until it is worth retrieving.
Emit(before, chunk) ==
    IF chunk.size >= minChars THEN [out |-> Append(before, chunk), pend |-> NoChunk]
    ELSE [out |-> before, pend |-> chunk]

Hold(body) ==
    IF pend # NoChunk /\ pend.size + BodySize(body) <= maxChars
    THEN Emit(out, Merge(pend, body))
    ELSE Emit(Chunks, Begin(body))

(***************************************************************************)
(* flush: the section that has been read becomes chunks. An oversized one  *)
(* is split, a big one stands alone, and an undersized one is merged with  *)
(* the next.                                                               *)
(***************************************************************************)
Flushed(body) ==
    CASE body = <<>> -> [out |-> out, pend |-> pend]
      [] body # <<>> /\ BodySize(body) > maxChars -> Split(body)
      [] BodySize(body) \in minChars..maxChars ->
            [out |-> Append(Chunks, Alone(body)), pend |-> NoChunk]
      [] body # <<>> /\ BodySize(body) < minChars -> Hold(body)

Flush(body) == out' = Flushed(body).out /\ pend' = Flushed(body).pend

-------------------------------------------------------------------------------
\* The stack that forgets to drop the deeper headings.
crumbPushed(level, name) == Append(crumb, name)

crumbAt(level, name) ==
    [k \in 1..level |-> IF k = level THEN name
                        ELSE IF k \in DOMAIN crumb THEN crumb[k] ELSE ""]

ReadHeading(level, name) ==
    /\ ~ended /\ Len(sections) < MaxHeadings
    /\ Flush(buf)
    /\ buf' = <<>>
    /\ crumb' = crumbAt(level, name)
    /\ sections' = Append(sections, nonEmpty(crumb'))
    /\ UNCHANGED <<text, ended>>

ReadParagraph(p) ==
    /\ ~ended /\ Len(text) < MaxParagraphs
    /\ text' = Append(text, [lines |-> p.lines, table |-> p.table, section |-> Len(sections)])
    /\ buf' = Append(buf, Len(text) + 1)
    /\ UNCHANGED <<sections, crumb, pend, out, ended>>

\* The last flush, and whatever is still waiting.
End ==
    /\ ~ended /\ ended' = TRUE
    /\ out' = LET last == Flushed(buf) IN
              IF last.pend = NoChunk THEN last.out ELSE Append(last.out, last.pend)
    /\ pend' = NoChunk /\ buf' = <<>>
    /\ UNCHANGED <<text, sections, crumb>>

SplitNext ==
    \/ \E level \in Level, name \in Name : ReadHeading(level, name)
    \/ \E p \in Paragraph : ReadParagraph(p)
    \/ End

SplitSpec == SplitInit /\ [][SplitNext]_splitVars

-------------------------------------------------------------------------------
PathOf(s) == IF s = 0 THEN <<>> ELSE sections[s]

PathOfLines(item) == PathOf(text[item.of].section)

HasLines(c) == {k \in DOMAIN c.items : c.items[k].kind = "lines"}

LinesOf(i, lines) == [k \in DOMAIN lines |-> <<i, lines[k]>>]

LinesIn(c) ==
    Flat([k \in DOMAIN c.items |->
                  IF k \in HasLines(c) THEN LinesOf(c.items[k].of, c.items[k].lines) ELSE <<>>])

\* Every line of every paragraph is in a chunk, once and in the order of the
\* text, however it was split and merged: a line in no chunk is a line no
\* question can find (chunk.go SplitMarkdown).
NothingIsLost ==
    Flat([k \in DOMAIN Chunks |-> LinesIn(Chunks[k])])
        \o Flat([k \in DOMAIN buf |-> LinesOf(buf[k], AllLines(buf[k]))])
    = Flat([i \in DOMAIN text |-> LinesOf(i, AllLines(i))])

\* A chunk says of each line in it what section it is from: by its breadcrumb,
\* or by the heading that stands before the line in the text.
LinesAreNamed ==
    \A c \in ToSet(Chunks) : \A k \in HasLines(c) :
        LET section == text[c.items[k].of].section IN
        \/ c.heading = PathOf(section)
        \/ \E j \in 1..k - 1 : c.items[j] = SubHeading(section)

Ancestors(path) == {SubSeq(path, 1, n) : n \in 1..Len(path)}

\* The breadcrumb of a chunk is the deepest one shared by those of its sections
\* that are under the same top heading as its first.
HeadingIsShared ==
    \A c \in ToSet(Chunks) :
        LET paths == {PathOfLines(c.items[k]) : k \in HasLines(c)}
            first == PathOfLines(c.items[CHOOSE k \in HasLines(c) : \A j \in HasLines(c) : k <= j])
            kin == {p \in paths : p # <<>> /\ first # <<>> /\ p[1] = first[1]}
            shared == {a \in Ancestors(first) : \A p \in kin : a \in Ancestors(p)}
        IN c.heading = IF first = <<>> THEN first
                       ELSE CHOOSE a \in shared : \A b \in shared : Len(b) <= Len(a)

\* A chunk names the sections it holds and no other, whatever was merged into it
\* and whatever came between two sections of one heading (chunk.go:35-38,
\* 122-124): its breadcrumb is what a reader is shown as the source.
ChunksAreNamed == LinesAreNamed /\ HeadingIsShared

\* The lines of a chunk, without the two a table repeats.
OwnLines(c) == {line \in ToSet(LinesIn(c)) : line[2] > Len(Header(line[1]))}

\* No chunk is longer than the limit by more than what it carries over from the
\* part before it, unless it is one line that alone is longer.
NoneTooLong ==
    \A c \in ToSet(Chunks) :
        \/ c.size <= maxChars + overlap + 2
        \/ Cardinality(OwnLines(c)) = 1 /\ CarriedOver \notin ToSet(c.items)

IsMerged(c) == c.items[1].kind = "heading"

\* Small sections do not stay small beside one another: a merged chunk that is
\* still under the floor is followed by a section that stands alone or was
\* split, or by nothing.
NoSmallNeighbours ==
    \A k \in 1..Len(Chunks) - 1 :
        IsMerged(Chunks[k]) /\ Chunks[k].size < minChars => ~IsMerged(Chunks[k + 1])

\* Chunks keep to the sizes retrieval was tuned for, above and below
\* (chunk.go:15-23, packParagraphs, splitLines). chunk_test.go:60 speaks of a
\* guarantee of maxChars; the code lets a packed chunk exceed it by what it carries
\* over and the blank line after it, overlap + 2, and that is what is stated here.
SizeIsBounded == NoneTooLong /\ NoSmallNeighbours
===============================================================================
