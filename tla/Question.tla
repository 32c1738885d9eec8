------------------------------- MODULE Question -------------------------------
(***************************************************************************)
(* One question from the request to the last frame: chatHandler and        *)
(* readQuestion (src/internal/server/chat.go, sse.go), Answer and what it  *)
(* calls (src/internal/rag/rag.go, memory.go, smalltalk.go, websearch.go,  *)
(* retrieve.go), the searches of the store (src/internal/db/store.go) and  *)
(* the provider's answers (src/internal/ai/client.go).  Beside it the      *)
(* library may change once and the reader may leave. How concurrent        *)
(* questions and writers meet in the cache is module AnswerCache; here it  *)
(* holds what one earlier question left.                                   *)
(***************************************************************************)
EXTENDS Retrieval

CONSTANTS
    Asks,           \* the requests that may come
    Models,         \* what a reader may pick: a sequence of [name, window]
    CanSearch,      \* whether the instance has a key for public search
    maxHistoryTurns, \* the longest thread a request may carry
    threadShare,    \* per cent of the window the thread may take, 0: unset
    recentLimit,    \* how many documents a listing shows
    ByPath,         \* the documents in the order of their paths
    Named,          \* the documents whose name holds the term asked about
    Libraries,      \* the libraries to begin with, newest document first
    Earlier,        \* what an earlier question may have left in the cache
    MaxTokens       \* bound on the tokens of a completion

\* What stands in a completion: words, the markers [1], [2], [w1], and the
\* sentence that says the documents do not hold it.
Token == {"words", "[1]", "[2]", "[w1]", "NoAnswer"}
citeMarker == [t \in {"[1]", "[2]"} |-> IF t = "[1]" THEN 1 ELSE 2]
webCiteMarker == [t \in {"[w1]"} |-> 1]

\* The wordings that take different ways. howMany asks for all documents and
\* howManyOf for a term; "how" has no content of its own.
Wording == {"", "hello", "how", "whatsNew", "confirmed", "howMany", "howManyOf", "topic"}

\* A turn is the length of its question and of its answer, 0 for a blank one.
\* A model is named or left open.
Turn == [q: Nat, a: Nat]
Ask == [question: Wording, scope: SUBSET Document, fresh: BOOLEAN, model: STRING \cup {""},
        websearch: BOOLEAN, history: Seq(Turn)]

ASSUME AsksAssumption == Asks \subseteq Ask
ASSUME ModelsAssumption == Models \in Seq([name: STRING \ {""}, window: Nat])
ASSUME LimitsAssumption ==
    /\ maxHistoryTurns \in Nat /\ threadShare \in 0..100 /\ recentLimit \in Nat \ {0}
    /\ MaxTokens \in Nat /\ CanSearch \in BOOLEAN
ASSUME LibraryAssumption ==
    /\ Libraries \subseteq {s \in Seq(Document) : IsInjective(s)} /\ Named \subseteq Document
    /\ ByPath \in Seq(Document) /\ IsInjective(ByPath) /\ ToSet(ByPath) = Document

VARIABLES
    ask,        \* the request
    pc,         \* what is done next
    live,       \* the documents of the library, newest first
    changed,    \* whether the library has changed
    rows,       \* the rows of the cache
    cacheable,  \* whether the answer may be read from the cache and stored
    sig,        \* the signature read for it: the library it was read from
    total,      \* the number of documents counted
    near,       \* the ranking by distance
    matching,   \* the ranking by keywords
    hits,       \* the chunks that won
    context,    \* the sections the answer is built from
    web,        \* how many public results are beside them
    heard,      \* the stream of the completion being heard
    usage,      \* the tokens this question will report
    frames,     \* the frames the reader received
    here,       \* whether the reader is still there
    billed,     \* what the provider charged; only properties read it
    calls,      \* what was bought or sent out; only properties read it
    seen        \* the libraries since the request came; only properties read it

request == <<ask, here>>
library == <<live, changed, seen>>
cache == <<rows, cacheable, sig>>
search == <<near, matching, hits, context>>
spent == <<usage, billed, calls>>
askVars == <<ask, pc, live, changed, rows, cacheable, sig, total, near, matching, hits,
             context, web, heard, usage, frames, here, billed, calls, seen>>
-----------------------------------------------------------------------------
(* What the client asked for.                                              *)

\* pick: the first model when none is named, none when the instance lists none.
Offered(name) == Models = <<>> \/ name = "" \/ \E i \in DOMAIN Models : Models[i].name = name
pick(name) == IF Models = <<>> THEN "" ELSE IF name = "" THEN Models[1].name ELSE name

readable(a) ==
    /\ a.question # "" /\ Len(a.history) <= maxHistoryTurns /\ Offered(a.model)

readQuestion(a) == [a EXCEPT !.model = pick(a.model), !.websearch = @ /\ CanSearch]

window(model) ==
    IF \E i \in DOMAIN Models : Models[i].name = model
    THEN Models[CHOOSE i \in DOMAIN Models :
                  /\ Models[i].name = model
                  /\ \A j \in 1..i - 1 : Models[j].name # model].window
    ELSE 0

\* The turns a model of this window reads: the newest that fit, and no blank one.
defaultThreadShare == 35
maxTurnChars == 1048576
whole(history) == Only(history, {t \in ToSet(history) : t.q > 0 /\ t.a > 0})
threadBudget(history, w) ==
    IF w = 0 THEN Len(whole(history)) * maxTurnChars
    ELSE ((w * (IF threadShare = 0 THEN defaultThreadShare ELSE threadShare)) \div 100) * perToken

\* A replay that passes over a turn too long instead of stopping at it.
replaySkipping(history, w) ==
    LET Recall(t, acc) ==
            IF acc.budget - (t.q + t.a) < 0 THEN acc
            ELSE [budget |-> acc.budget - (t.q + t.a), kept |-> <<t>> \o acc.kept]
    IN FoldRight(Recall, whole(history), [budget |-> threadBudget(history, w), kept |-> <<>>]).kept

replay(history, w) ==
    LET Recall(t, acc) ==
            IF acc.full \/ acc.budget - (t.q + t.a) < 0 THEN [acc EXCEPT !.full = TRUE]
            ELSE [acc EXCEPT !.budget = @ - (t.q + t.a), !.kept = <<t>> \o @]
    IN FoldRight(Recall, whole(history),
                 [budget |-> threadBudget(history, w), kept |-> <<>>, full |-> FALSE]).kept

turns == replay(ask.history, window(ask.model))
inThread == turns # <<>>

KeyOf(a) == [question |-> a.question, scope |-> a.scope, model |-> a.model, web |-> a.websearch]

\* smallTalk: a constant reply, unless it is vague and a thread stands behind it.
smallTalkKindOf(q) ==
    IF q = "hello" THEN "greeting" ELSE IF q = "how" THEN "tooVague" ELSE "notSmallTalk"
smallTalk(q, threaded) ==
    ~ (smallTalkKindOf(q) = "notSmallTalk" \/ (smallTalkKindOf(q) = "tooVague" /\ threaded))

corpusAskOf(q) ==
    CASE q = "whatsNew" -> "recentDocs" [] q = "confirmed" -> "recentQA"
      [] q \in {"howMany", "howManyOf"} -> "countDocs" [] OTHER -> "notCorpusAsk"
prefix(corpusAsk) == IF corpusAsk = "recentQA" THEN Approved ELSE Document
Matching(q) == IF q = "howManyOf" THEN Named ELSE Document

\* The rows two listings read of the library.
RecentDocuments(folder, limit) == FirstOf(Only(live, folder), limit)
CountMatching(docs, named) == Cardinality(ToSet(docs) \cap named)

\* A listing cut to half of what it may show.
ListHalf(named, limit) ==
    FirstOf(Only(ByPath, ToSet(live) \cap named), limit \div 2)

ListMatching(named, limit) ==
    FirstOf(Only(ByPath, ToSet(live) \cap named), limit)
-----------------------------------------------------------------------------
(* What reaches the reader, and what a completion said.                    *)

NothingHeard == [text |-> <<>>, usage |-> 0, end |-> ""]

Says(t) == [f |-> "token", t |-> t]
Lists(n, docs) == [f |-> "listing", total |-> n, docs |-> docs]
Cites(citations) == [f |-> "citations", of |-> citations]
Done(cached, tokens) == [f |-> "done", cached |-> cached, tokens |-> tokens]
Error == [f |-> "error"]

\* Nothing arrives once the reader is gone.
send(fs) == frames' = IF here THEN frames \o fs ELSE frames

Reply(text, citations, cached, tokens) ==
    /\ send([i \in DOMAIN text |-> Says(text[i])] \o <<Cites(citations), Done(cached, tokens)>>)
    /\ pc' = "done"

\* An error is told in the stream, unless the reader has left.
Fail == send(<<Error>>) /\ pc' = "failed"

Markers(marker, text) == {marker[t] : t \in ToSet(text) \cap DOMAIN marker}

isMiss(text) == text # <<>> /\ Last(text) = "NoAnswer" /\ Markers(citeMarker, text) = {}

\* A source: a section by its number, or a result of the public search.
Citation == [n: Nat \ {0}, of: Chunk] \cup [n: {1}, kind: {"web"}]

\* A row is an answer an earlier question gave: not empty and not a miss.
ASSUME EarlierAssumption ==
    \A kept \in Earlier : \A r \in kept :
        /\ r.text \in Seq(Token) /\ r.text # <<>> /\ ~ isMiss(r.text)
        /\ r.cites \in Seq(Citation)

DocCites == [i \in DOMAIN context |-> [n |-> i, of |-> context[i].of]]
WebCites == [i \in 1..web |-> [n |-> i, kind |-> "web"]]

\* A filter that keeps as many sources as were used, from the top.
referencedFromTheTop(all, text) ==
    LET used == Markers(citeMarker, text)
    IN IF used = {} THEN all ELSE FirstOf(all, Cardinality(used))

referenced(all, text) ==
    LET used == Markers(citeMarker, text)
        kept == Only(all, {c \in ToSet(all) : c.n \in used})
    IN IF kept = <<>> THEN all ELSE kept
referencedWeb(all, text) == Only(all, {c \in ToSet(all) : c.n \in Markers(webCiteMarker, text)})
-----------------------------------------------------------------------------
AskInit ==
    /\ ask \in Asks /\ live \in Libraries /\ rows \in Earlier
    /\ pc = "new" /\ changed = FALSE /\ cacheable = FALSE /\ sig = <<>> /\ total = 0
    /\ near = <<>> /\ matching = <<>> /\ hits = <<>> /\ context = <<>> /\ web = 0
    /\ heard = NothingHeard /\ usage = 0 /\ frames = <<>> /\ here = TRUE
    /\ billed = 0 /\ calls = {} /\ seen = {live}

\* standalone: a question without a thread is asked as it stands.
GoOn == pc' = IF inThread THEN "rewrite" ELSE "sig"

\* chatHandler: a request that cannot be read is refused before any frame.
Receive ==
    /\ pc = "new"
    /\ IF readable(ask) THEN ask' = readQuestion(ask) /\ pc' = "early"
       ELSE pc' = "refused" /\ UNCHANGED ask
    /\ UNCHANGED <<here, library, cache, total, search, web, heard, spent, frames>>

\* answeredEarly, recent, count: what needs no retrieval is answered here. A
\* store that cannot be read leaves the question to retrieval.
SmallTalk ==
    /\ pc = "early" /\ smallTalk(ask.question, inThread)
    /\ Reply(<<"reply">>, <<>>, FALSE, 0)
    /\ UNCHANGED <<request, library, cache, total, search, web, heard, spent>>

Recent ==
    /\ pc = "early" /\ corpusAskOf(ask.question) \in {"recentDocs", "recentQA"}
    /\ \/ LET docs == RecentDocuments(prefix(corpusAskOf(ask.question)), recentLimit)
          IN /\ send(<<Lists(Len(docs), docs), Cites(<<>>), Done(FALSE, 0)>>)
             /\ pc' = "done"
       \/ GoOn /\ UNCHANGED frames
    /\ UNCHANGED <<request, library, cache, total, search, web, heard, spent>>

Count ==
    /\ pc = "early" /\ corpusAskOf(ask.question) = "countDocs"
    /\ \/ /\ total' = CountMatching(live, Matching(ask.question))
          /\ IF total' = 0 /\ ask.question = "howManyOf" THEN GoOn ELSE pc' = "list"
       \/ GoOn /\ UNCHANGED total
    /\ UNCHANGED <<request, library, cache, search, web, heard, spent, frames>>

ListCounted ==
    /\ pc = "list"
    /\ \/ /\ send(<<Lists(total, ListMatching(Matching(ask.question), 2 * recentLimit)),
                    Cites(<<>>), Done(FALSE, 0)>>)
          /\ pc' = "done"
       \/ GoOn /\ UNCHANGED frames
    /\ UNCHANGED <<request, library, cache, total, search, web, heard, spent>>

NotEarly ==
    /\ pc = "early" /\ ~ smallTalk(ask.question, inThread)
    /\ corpusAskOf(ask.question) = "notCorpusAsk"
    /\ GoOn
    /\ UNCHANGED <<request, library, cache, total, search, web, heard, spent, frames>>

\* ChatStream: the last usage frame counts; a stream that ends, with [DONE] or
\* without, is an answer; an error frame or a broken connection is none.
UsageFrame ==
    /\ pc \in {"rewrite", "answer"} /\ heard.end = ""
    /\ heard' = [heard EXCEPT !.usage = 1]
    /\ billed' = billed + 1 - heard.usage
    /\ UNCHANGED <<request, pc, library, cache, total, search, web, usage, calls, frames>>

\* A rewrite whose cost is not added up.
RewrittenForFree ==
    /\ pc = "rewrite"
    /\ calls' = calls \cup {"rewrite"} /\ heard' = NothingHeard /\ pc' = "embed"
    /\ UNCHANGED <<request, library, cache, total, search, web, usage, billed, frames>>

\* A rewrite whose question is then looked up.
RewrittenIntoTheCache ==
    /\ pc = "rewrite"
    /\ calls' = calls \cup {"rewrite"} /\ usage' = usage + heard.usage
    /\ heard' = NothingHeard /\ pc' = "sig"
    /\ UNCHANGED <<request, library, cache, total, search, web, billed, frames>>

\* standalone: the rewrite is paid for whether or not it is of use.
Rewritten ==
    /\ pc = "rewrite"
    /\ calls' = calls \cup {"rewrite"} /\ usage' = usage + heard.usage
    /\ heard' = NothingHeard /\ pc' = "embed"
    /\ UNCHANGED <<request, library, cache, total, search, web, billed, frames>>

ReadSig ==
    /\ pc = "sig"
    /\ \/ sig' = live /\ cacheable' = TRUE
       \/ UNCHANGED <<sig, cacheable>>
    /\ pc' = IF cacheable' /\ ~ ask.fresh THEN "lookup" ELSE "embed"
    /\ UNCHANGED <<request, library, rows, total, search, web, heard, spent, frames>>

\* serveCached: a row that cannot be read is a miss.
LookUp ==
    /\ pc = "lookup"
    /\ \/ \E r \in rows :
              /\ r.sig = sig /\ r.key = KeyOf(ask)
              /\ Reply(r.text, r.cites, TRUE, 0)
       \/ pc' = "embed" /\ UNCHANGED frames
    /\ UNCHANGED <<request, library, cache, total, search, web, heard, spent>>

Embed ==
    /\ pc = "embed"
    /\ calls' = calls \cup {"embed"}
    /\ \/ here /\ pc' = "near" /\ UNCHANGED frames
       \/ Fail
    /\ UNCHANGED <<request, library, cache, total, search, web, heard, usage, billed>>

InScope == ChunksOf(ToSet(live) \cap ask.scope)

VectorCandidates ==
    /\ pc = "near"
    /\ \/ /\ \E order \in SetToSeqs(InScope) : near' = FirstOf(order, CandidatePool)
          /\ pc' = "matching" /\ UNCHANGED frames
       \/ Fail /\ UNCHANGED near
    /\ UNCHANGED <<request, library, cache, total, matching, hits, context, web, heard, spent>>

\* A query without terms, or one the index refuses, matches nothing.
KeywordCandidates ==
    /\ pc = "matching"
    /\ \E found \in SUBSET InScope : \E order \in SetToSeqs(found) :
           matching' = FirstOf(order, CandidatePool)
    /\ pc' = IF near = <<>> /\ matching' = <<>> THEN "fit" ELSE "load"
    /\ UNCHANGED <<request, library, cache, total, near, hits, context, web, heard, spent, frames>>

\* retrieve: a model of known window takes all the pool offers, and what fits.
budget == contextBudget(window(ask.model))
k == IF budget > 0 THEN CandidatePool ELSE topK

Load ==
    /\ pc = "load"
    /\ \/ /\ hits' \in loadHits(near, matching, ChunksOf(ToSet(live)), k)
          /\ pc' = "fit" /\ UNCHANGED frames
       \/ Fail /\ UNCHANGED hits
    /\ UNCHANGED <<request, library, cache, total, near, matching, context, web, heard, spent>>

Fitted ==
    IF budget > 0
    THEN trimToBudget(stitchNeighbours(hits, ChunksOf(ToSet(live))), budget)
    ELSE [i \in DOMAIN hits |-> Section(hits[i])]

\* Without a section nothing is asked of the model, and nothing of the web.
Fit ==
    /\ pc = "fit"
    /\ \/ /\ context' = Fitted
          /\ IF context' = <<>> THEN Reply(<<"NoAnswer">>, <<>>, FALSE, usage)
             ELSE pc' = (IF ask.websearch THEN "web" ELSE "answer") /\ UNCHANGED frames
       \/ budget > 0 /\ hits # <<>> /\ Fail /\ UNCHANGED context
    /\ near' = <<>> /\ matching' = <<>> /\ hits' = <<>>
    /\ UNCHANGED <<request, library, cache, total, web, heard, spent>>

\* supplement: a search that fails is one that found nothing.
Supplement ==
    /\ pc = "web"
    /\ calls' = calls \cup {"search"} /\ web' \in 0..1 /\ pc' = "answer"
    /\ UNCHANGED <<request, library, cache, total, search, heard, usage, billed, frames>>

TokenFrame ==
    /\ pc = "answer" /\ heard.end = "" /\ Len(heard.text) < MaxTokens
    /\ \E t \in Token : heard' = [heard EXCEPT !.text = Append(@, t)] /\ send(<<Says(t)>>)
    /\ UNCHANGED <<request, pc, library, cache, total, search, web, spent>>

StreamEnds ==
    /\ pc = "answer" /\ heard.end = ""
    /\ calls' = calls \cup {"chat"} /\ usage' = usage + heard.usage
    /\ \/ \E end \in {"DONE", "EOF"} : heard' = [heard EXCEPT !.end = end]
          /\ UNCHANGED <<pc, frames>>
       \/ Fail /\ UNCHANGED heard
    /\ UNCHANGED <<request, library, cache, total, search, web, billed>>

\* The answer is kept unless it is empty or a miss, and a miss shows no source.
Citations == referenced(DocCites, heard.text) \o referencedWeb(WebCites, heard.text)

\* A row that keeps every source retrieval considered.
StoreAllSources ==
    IF cacheable /\ heard.text # <<>> /\ ~ isMiss(heard.text)
    THEN \/ rows' = {r \in rows : r.key # KeyOf(ask)}
                      \cup {[key |-> KeyOf(ask), sig |-> sig, text |-> heard.text,
                             cites |-> DocCites \o WebCites]}
         \/ UNCHANGED rows
    ELSE UNCHANGED rows

Store ==
    IF cacheable /\ heard.text # <<>> /\ ~ isMiss(heard.text)
    THEN \/ rows' = {r \in rows : r.key # KeyOf(ask)}
                      \cup {[key |-> KeyOf(ask), sig |-> sig, text |-> heard.text, cites |-> Citations]}
         \/ UNCHANGED rows
    ELSE UNCHANGED rows

Settle ==
    /\ pc = "answer" /\ heard.end # ""
    /\ Store
    /\ Reply(<<>>, IF isMiss(heard.text) THEN <<>> ELSE Citations, FALSE, usage)
    /\ heard' = NothingHeard
    /\ UNCHANGED <<request, library, cacheable, sig, total, search, web, spent>>

\* The reader leaves: the request's context is cancelled and no frame arrives.
Ended == {"refused", "done", "failed"}

Leave ==
    /\ here /\ pc \notin Ended
    /\ here' = FALSE
    /\ UNCHANGED <<ask, pc, library, cache, total, search, web, heard, spent, frames>>

\* A document is imported or removed while the library is being read: at the
\* next read of it, whenever before that it happened.
Change ==
    /\ ~ changed /\ pc \in {"early", "list", "sig", "near", "matching", "load", "fit"}
    /\ \/ \E d \in Document \ ToSet(live) : live' = <<d>> \o live
       \/ \E d \in ToSet(live) : live' = Only(live, ToSet(live) \ {d})
    /\ changed' = TRUE /\ seen' = seen \cup {live'}
    /\ UNCHANGED <<request, pc, cache, total, search, web, heard, spent, frames>>

AskNext ==
    \/ Receive \/ SmallTalk \/ Recent \/ Count \/ ListCounted \/ NotEarly
    \/ UsageFrame \/ Rewritten \/ ReadSig \/ LookUp \/ Embed
    \/ VectorCandidates \/ KeywordCandidates \/ Load \/ Fit \/ Supplement
    \/ TokenFrame \/ StreamEnds \/ Settle \/ Leave \/ Change

AskSpec == AskInit /\ [][AskNext]_askVars
-----------------------------------------------------------------------------
Stages == {"new", "early", "list", "rewrite", "sig", "lookup", "embed", "near", "matching",
           "load", "fit", "web", "answer"} \cup Ended

\* The types of the request, the library, the cache, the search and the stream.
AskTypeOK ==
    /\ ask \in Ask /\ pc \in Stages /\ {changed, cacheable, here} \subseteq BOOLEAN
    /\ live \in Seq(Document) /\ IsInjective(live) /\ seen \subseteq Seq(Document)
    /\ \A r \in rows : r.text \in Seq(Token) /\ r.cites \in Seq(Citation)
    /\ total \in 0..Cardinality(Document) /\ web \in 0..1
    /\ \A s \in {near, matching, hits} : s \in Seq(Chunk) /\ IsInjective(s)
    /\ Len(near) <= CandidatePool /\ Len(matching) <= CandidatePool /\ Len(hits) <= k
    /\ Len(context) <= k /\ \A i \in DOMAIN context : context[i].of \in Chunk
    /\ heard \in [text : Seq(Token), usage : 0..1, end : {"", "DONE", "EOF"}]
    /\ {usage, billed} \subseteq 0..2 /\ calls \subseteq {"rewrite", "embed", "search", "chat"}

\* What the reader was shown.
FramesOf(kind) == {f \in ToSet(frames) : f.f = kind}
Shown == LET tokens == Only(frames, FramesOf("token"))
         IN [i \in DOMAIN tokens |-> tokens[i].t]

\* Whatever way Answer returns, its cost is what the provider charged for the
\* rewrite and the completion, and the last frame says so (rag.go, Answer).
UsageIsCarried ==
    pc \in Ended =>
        /\ usage = billed
        /\ \A f \in FramesOf("done") : f.tokens = billed

\* A question whose thread the model reads neither takes an answer from the
\* cache nor leaves one there (rag.go, Answer).
ThreadStaysOut ==
    [][rows' # rows \/ (pc = "lookup" /\ pc' = "done") => ~ inThread]_askVars

\* The answer a row is kept with, or served from, is the one the reader saw,
\* with the same sources, and is neither empty nor a miss (rag.go, Answer).
ReplayIsTheSame ==
    [][(rows' # rows \/ (pc = "lookup" /\ pc' = "done")) /\ here =>
          \E r \in rows' :
              /\ r.key = KeyOf(ask) /\ r.sig = sig
              /\ Shown' = r.text /\ r.text # <<>> /\ ~ isMiss(r.text)
              /\ FramesOf("citations")' = {Cites(r.cites)}]_askVars

\* A marker in an answer that stands for a section lands on it; a public result
\* is listed only where it was used; an answer shows some section; and a miss
\* shows no source at all (rag.go, referenced, referencedWeb, isMiss).
SourcesAreTheUsed ==
    pc = "done" /\ context # <<>> =>
        \A f \in FramesOf("citations") :
            LET docs == {c \in ToSet(f.of) : "of" \in DOMAIN c}
            IN IF isMiss(Shown) THEN f.of = <<>>
               ELSE /\ docs # {} /\ docs \subseteq ToSet(DocCites)
                    /\ \A n \in Markers(citeMarker, Shown) \cap DOMAIN context :
                           DocCites[n] \in docs
                    /\ {c.n : c \in ToSet(f.of) \ docs} \subseteq Markers(webCiteMarker, Shown)

\* A question about the library is answered from its rows since it was asked:
\* the total is one the library had, and when nothing changed the list holds
\* as many of them as it may show (smalltalk.go, renderCount, renderRecent).
CountIsReal ==
    \A f \in FramesOf("listing") :
        LET counting == corpusAskOf(ask.question) = "countDocs"
            named == Matching(ask.question)
        IN IF counting
           THEN /\ \E then \in seen : f.total = Cardinality(ToSet(then) \cap named)
                /\ \E then \in seen : ToSet(f.docs) \subseteq ToSet(then) \cap named
                /\ Len(f.docs) <= 2 * recentLimit
                /\ ~ changed => Len(f.docs) \in {f.total, 2 * recentLimit}
           ELSE \E then \in seen :
                   /\ IsPrefix(f.docs, Only(then, prefix(corpusAskOf(ask.question))))
                   /\ f.total = Len(f.docs)

\* The thread the model reads is the newest of its whole turns, in their order,
\* and as many as its share of the window holds (memory.go, replay).
CostOf(thread) == Total([i \in DOMAIN thread |-> thread[i].q + thread[i].a])
ThreadFits ==
    pc = "early" =>
        LET all == whole(ask.history)
            allowed == threadBudget(ask.history, window(ask.model))
        IN /\ IsSuffix(turns, all) /\ CostOf(turns) <= allowed
           /\ Len(turns) < Len(all) =>
                  CostOf(SubSeq(all, Len(all) - Len(turns), Len(all))) > allowed

\* A chunk both retrievers found comes before one that only one of them found,
\* vouched for or not (store.go, fuse, hits).
BothBeatOne ==
    LET both == ToSet(near) \cap ToSet(matching)
    IN \A i, j \in DOMAIN hits :
           pc = "fit" /\ hits[i] \in both /\ hits[j] \notin both => i < j

\* A chunk that was found and is still there is left out only for k better
\* ones, or for maxPerDoc better ones of its document when another has some
\* (store.go, hits, capPerDoc).
OnlyTheWorseAreDropped ==
    [][pc = "load" /\ pc' = "fit" =>
          LET found == (ToSet(near) \cup ToSet(matching)) \cap ChunksOf(ToSet(live))
              notBelow(c) == {h \in ToSet(hits') :
                                  ~ Below(Score(near, matching, h), Score(near, matching, c))}
          IN \A c \in found \ ToSet(hits') :
                 \/ Len(hits') = k /\ notBelow(c) = ToSet(hits')
                 \/ /\ Cardinality(DocsOf(found)) > 1
                    /\ Cardinality({h \in notBelow(c) : h[1] = c[1]}) = maxPerDoc]_askVars

\* The sections are the winners, in their order; each is its chunk within its
\* own document; and no section prints a chunk that is another one's own
\* (store.go, stitchNeighbours).
NumbersKeepTheirText ==
    [][context' # context =>
          LET parts(i) == context'[i].parts
          IN \A i \in DOMAIN context' :
                 /\ context'[i].of = hits[i]
                 /\ ToSet(parts(i)) \cap ToSet(hits) = {hits[i]}
                 /\ \A j \in 1..Len(parts(i)) - 1 :
                        parts(i)[j + 1] = <<parts(i)[j][1], parts(i)[j][2] + 1>>]_askVars

\* The sections fill the model's share for them and no more, except that one
\* too long by itself is kept (retrieve.go, trimToBudget).
SizeOf(some) == Total([i \in DOMAIN some |-> SectionSize(some[i])])
ContextFits ==
    [][context' # context /\ budget > 0 =>
          LET all == stitchNeighbours(hits, ChunksOf(ToSet(live)))
          IN /\ IsPrefix(context', all)
             /\ Len(context') = 1 \/ SizeOf(context') <= budget
             /\ Len(context') < Len(all) =>
                    SizeOf(SubSeq(all, 1, Len(context') + 1)) > budget]_askVars

\* Comment, rag.go:501: "Only cache a grounded, complete answer. A cut-off stream
\* or an ungrounded reply is exactly what someone will retry".
OnlyWholeIsKept == [][rows' # rows => heard.end = "DONE"]_askVars
===============================================================================
