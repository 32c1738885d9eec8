------------------------------ MODULE AnswerCache -----------------------------
(***************************************************************************)
(* The answer cache and the questions that read and fill it                *)
(* (src/internal/db/cache.go, Answer in src/internal/rag/rag.go), beside   *)
(* the writers of the library. A question reads the corpus signature once, *)
(* looks for a stored answer under it, and otherwise embeds, retrieves,    *)
(* streams a completion and stores it under the signature it started with. *)
(* Every read and write is a transaction of its own.                       *)
(***************************************************************************)
EXTENDS Library

CONSTANTS
    Asker,      \* questions being asked; each asks once
    Option,     \* what else is in the key: scope, model, web search
    Question,   \* questions, up to normalise
    Sources,    \* Sources[o]: the paths in the scope of option o
    Keep        \* how many answers the cache may hold

ASSUME SourcesAssumption == Sources \in [Option -> SUBSET Path]
ASSUME KeepAssumption == Keep \in Nat \ {0}

VARIABLES
    cache,      \* [Key -> the stored answer, or NoAnswer]
    asks        \* [Asker -> NoAsk, or the question and how far it is]

cacheVars == <<docs, chunks, vecs, approved, now, jobs, cache, asks>>

Key == Option \X Question

\* The key that leaves the scope out.
KeyOfWords(o, q) == <<CHOOSE any \in Option : TRUE, q>>

cacheKey(o, q) == <<o, q>>

(***************************************************************************)
(* The signature: how many document rows there are, removed ones too, how  *)
(* many chunks, and the latest updated_at (no time at all in an empty      *)
(* corpus). The settings it ends with never change while the server runs.  *)
(***************************************************************************)
Sig ==
    LET rows == {p \in Path : docs[p] # NoRow}
        times == {docs[p].at : p \in rows} IN
    [docs |-> Cardinality(rows),
     chunks |-> Cardinality(chunks),
     newest |-> {t \in times : \A u \in times : u <= t}]

\* What a question holds before it has read one.
NoSig == [docs |-> 0, chunks |-> 0, newest |-> {}]

\* What a signature stands for. The code never stores one; rows and questions
\* carry it for the properties.
Corpus == <<docs, chunks>>

\* A stored answer holds from, the chunks the model was shown; sig; used, when
\* it was last used; and under, the corpus when the writer read sig.
NoAnswer == [used |-> "never"]

NoAsk == [pc |-> "none"]

Ends == {"served", "answered", "unpruned", "missed", "failed", "crashed"}

(***************************************************************************)
(* sig: about to read the signature.  look: about to look the key up.      *)
(* embed, chat: waiting for the provider.  rank, match: the two candidate  *)
(* queries.  read, stitch: the rows of the candidates and of their         *)
(* neighbours.  write, prune: the two statements of Cache.  The rest are   *)
(* ends; unpruned is a Cache whose second statement never ran.             *)
(* cacheable is the code's; seen (the corpus when sig was read) and lately *)
(* (every chunk there has been since, kept until the lookup) are for the   *)
(* properties. A question that has ended keeps nothing but its end.        *)
(***************************************************************************)
Asking == {"sig", "look", "embed", "rank", "match", "read", "stitch", "chat", "write", "prune"}

CacheInit ==
    /\ Init
    /\ cache = [k \in Key |-> NoAnswer]
    /\ asks = [a \in Asker |-> NoAsk]

Held == {k \in Key : cache[k] # NoAnswer}

KeyOf(a) == cacheKey(asks[a].option, asks[a].question)

-------------------------------------------------------------------------------
GoOn(a, pc) == asks' = [asks EXCEPT ![a].pc = pc]

End(a, pc) == asks' = [asks EXCEPT ![a] = [pc |-> pc]]

\* A question is asked. Inside a thread the signature is never read and
\* nothing about the answer may be cached.
Ask(a, o, q, inThread) ==
    /\ asks[a] = NoAsk
    /\ asks' = [asks EXCEPT ![a] =
                  [pc |-> IF inThread THEN "embed" ELSE "sig",
                   option |-> o, question |-> q, cacheable |-> ~inThread,
                   sig |-> NoSig, seen |-> <<>>, lately |-> {}, got |-> {}]]
    /\ UNCHANGED <<vars, cache>>

\* A signature that cannot be read means "don't cache". A Regenerate (fresh)
\* skips the lookup and nothing else.
ReadSig(a) ==
    /\ asks[a].pc = "sig"
    /\ UNCHANGED <<vars, cache>>
    /\ \/ \E fresh \in BOOLEAN :
             asks' = [asks EXCEPT ![a].pc = IF fresh THEN "embed" ELSE "look",
                        ![a].sig = Sig, ![a].seen = Corpus,
                        ![a].lately = IF fresh THEN {} ELSE chunks]
       \/ /\ "store" \in Faults
          /\ asks' = [asks EXCEPT ![a].pc = "embed", ![a].cacheable = FALSE]

Fits(a) == cache[KeyOf(a)] # NoAnswer /\ cache[KeyOf(a)].sig = asks[a].sig

\* serveCached. Counting the hit is a second statement that only moves
\* used_at; it is best-effort and folded into the read. A read error is a
\* miss.
LookUp(a) ==
    /\ asks[a].pc = "look"
    /\ UNCHANGED vars
    /\ \/ /\ Fits(a)
          /\ End(a, "served")
          /\ \/ cache' = [cache EXCEPT ![KeyOf(a)].used = now]
             \/ "store" \in Faults /\ UNCHANGED cache
       \/ /\ ~Fits(a) \/ "store" \in Faults
          /\ asks' = [asks EXCEPT ![a].pc = "embed", ![a].lately = {}]
          /\ UNCHANGED cache

EmbedQuestion(a) ==
    /\ asks[a].pc = "embed"
    /\ UNCHANGED <<vars, cache>>
    /\ \/ GoOn(a, "rank")
       \/ "provider" \in Faults /\ End(a, "failed")

InScope(a, rows) == {c \in rows : c.doc \in Sources[asks[a].option]}

\* The vector candidates. Which of the rows in scope rank is left out: every
\* one does, so an answer is made from at least what the code makes it from.
Rank(a) ==
    /\ asks[a].pc = "rank"
    /\ UNCHANGED <<vars, cache>>
    /\ \/ asks' = [asks EXCEPT ![a].pc = "match", ![a].got = InScope(a, vecs)]
       \/ "store" \in Faults /\ End(a, "failed")

\* The keyword candidates; a refused query is no candidate and no error.
Match(a) ==
    /\ asks[a].pc = "match"
    /\ UNCHANGED <<vars, cache>>
    /\ \/ asks' = [asks EXCEPT ![a].pc = "read", ![a].got = @ \cup InScope(a, chunks)]
       \/ GoOn(a, "read")

\* hits: the rows of the candidates that are still there. No hit, no answer.
\* A model whose window is known has the hits stitched to their neighbours.
Read(a) ==
    LET found == asks[a].got \cap chunks IN
    /\ asks[a].pc = "read"
    /\ UNCHANGED <<vars, cache>>
    /\ \/ found = {} /\ End(a, "missed")
       \/ /\ found # {}
          /\ \E next \in {"stitch", "chat"} :
                asks' = [asks EXCEPT ![a].pc = next, ![a].got = found]
       \/ "store" \in Faults /\ End(a, "failed")

\* stitchNeighbours: what is before and after each hit by now, whichever text
\* that comes from, unless it is at the place of a hit.
Stitch(a) ==
    LET hit == {<<c.doc, c.ord>> : c \in asks[a].got}
        near == {c \in chunks : /\ <<c.doc, c.ord>> \notin hit
                                /\ \E h \in hit : h[1] = c.doc /\ h[2] \in {c.ord - 1, c.ord + 1}}
    IN
    /\ asks[a].pc = "stitch"
    /\ UNCHANGED <<vars, cache>>
    /\ \/ asks' = [asks EXCEPT ![a].pc = "chat", ![a].got = @ \cup near]
       \/ "store" \in Faults /\ End(a, "failed")

\* The completion: an answer, the sentence that says there is none, or an
\* error. A stream that breaks off without an error passes for an answer.
Chat(a) ==
    /\ asks[a].pc = "chat"
    /\ UNCHANGED <<vars, cache>>
    /\ \/ asks[a].cacheable /\ GoOn(a, "write")
       \/ ~asks[a].cacheable /\ End(a, "answered")
       \/ End(a, "missed")
       \/ "provider" \in Faults /\ End(a, "failed")

\* The write under the signature of the corpus at its end.
WriteUnderLatest(a) ==
    /\ asks[a].pc = "write"
    /\ cache' = [cache EXCEPT ![KeyOf(a)] =
                   [from |-> asks[a].got, sig |-> Sig, used |-> now, under |-> Corpus]]
    /\ GoOn(a, "prune")
    /\ UNCHANGED vars

\* Cache's first statement, under the signature the question started with. An
\* error is ignored, and then nothing is pruned.
Write(a) ==
    /\ asks[a].pc = "write"
    /\ UNCHANGED vars
    /\ \/ /\ cache' = [cache EXCEPT ![KeyOf(a)] =
                         [from |-> asks[a].got, sig |-> asks[a].sig, used |-> now,
                          under |-> asks[a].seen]]
          /\ GoOn(a, "prune")
       \/ "store" \in Faults /\ End(a, "answered") /\ UNCHANGED cache

\* The n most recently used rows; used_at has whole seconds, so ties are cut
\* anywhere.
Newest(n) ==
    {top \in SUBSET Held :
        /\ Cardinality(top) = IF Cardinality(Held) < n THEN Cardinality(Held) ELSE n
        /\ \A k \in top, l \in Held \ top : cache[k].used >= cache[l].used}

\* The pruning that forgets the cap.
PruneBySig(a) ==
    /\ asks[a].pc = "prune"
    /\ End(a, "answered")
    /\ cache' = [k \in Key |-> IF k \in Held /\ cache[k].sig = asks[a].sig
                               THEN cache[k] ELSE NoAnswer]
    /\ UNCHANGED vars

\* Cache's second statement: every row under another signature goes, and every
\* row beyond the cap.
Prune(a) ==
    /\ asks[a].pc = "prune"
    /\ UNCHANGED vars
    /\ \/ /\ End(a, "answered")
          /\ \E top \in Newest(Keep) :
                cache' = [k \in Key |-> IF k \in top /\ cache[k].sig = asks[a].sig
                                        THEN cache[k] ELSE NoAnswer]
       \/ "store" \in Faults /\ End(a, "unpruned") /\ UNCHANGED cache

\* The server dies with its questions and its saves.
CacheCrash ==
    /\ \E a \in Asker : asks[a].pc \in Asking
    /\ Die(Server)
    /\ asks' = [a \in Asker |->
                  IF asks[a].pc \in Asking THEN [pc |-> IF asks[a].pc = "prune" THEN "unpruned" ELSE "crashed"]
                  ELSE asks[a]]
    /\ UNCHANGED cache

-------------------------------------------------------------------------------
BeginAsk(a) ==
    \E o \in Option, q \in Question, inThread \in BOOLEAN : Ask(a, o, q, inThread)

AskWork(a) ==
    \/ ReadSig(a) \/ LookUp(a) \/ EmbedQuestion(a) \/ Rank(a) \/ Match(a)
    \/ Read(a) \/ Stitch(a) \/ Chat(a) \/ Write(a) \/ Prune(a)

\* Saves as far as a question can tell them apart: an upload runs the
\* statements of an update in place.
Save(w) ==
    \/ \E p \in Path, b \in Body : Ingest(w, p, b) \/ \E src \in Path : Update(w, src, p, b)
    \/ Work(w)

\* What the library does meanwhile; a server that dies takes its questions
\* down too.
LibraryMoves ==
    /\ \/ \E w \in Request : Save(w)
       \/ \E p \in Path : Remove(p)
       \/ Crash(CommandLine)
       \/ (\A a \in Asker : asks[a].pc \notin Asking) /\ Crash(Server)
       \/ Tick /\ UNCHANGED jobs
    /\ asks' = [a \in Asker |->
                  IF asks[a].pc = "look"
                  THEN [asks[a] EXCEPT !.lately = @ \cup chunks'] ELSE asks[a]]
    /\ UNCHANGED cache

CacheNext ==
    \/ \E a \in Asker : BeginAsk(a) \/ AskWork(a)
    \/ CacheCrash
    \/ LibraryMoves

CacheSpec == CacheInit /\ [][CacheNext]_cacheVars

-------------------------------------------------------------------------------
\* The step in which question a is answered from the cache.
Serves(a) == asks[a].pc = "look" /\ asks'[a].pc = "served"

\* A free answer was made from documents in the reader's own scope, whoever
\* paid for it: otherwise it "would cite documents the asker deliberately left
\* out" (cache.go:72-74). And unless two states of the corpus share a signature,
\* every chunk it was made from was in the library while its reader waited,
\* although signature, candidates, rows and answer are read and written at
\* different moments by different questions (Answer in rag.go).
ServedIsDue ==
    [][\A a \in Asker : Serves(a) =>
          LET answer == cache[KeyOf(a)] IN
          /\ \A c \in answer.from : c.doc \in Sources[asks[a].option]
          /\ answer.under = asks[a].seen => answer.from \subseteq asks[a].lately]_cacheVars

\* The cache holds Keep answers and one more for every question that has
\* written and not pruned, yet or for good (cache.go keep, Cache).
CacheIsBounded ==
    Cardinality(Held) <=
        Keep + Cardinality({a \in Asker : asks[a].pc \in {"prune", "unpruned"}})

-------------------------------------------------------------------------------
\* "A cached answer can never outlive the documents it cited" (cache.go:51-53).
ServedNeverOutlives ==
    [][\A a \in Asker :
          Serves(a) => cache[KeyOf(a)].from \subseteq asks[a].lately]_cacheVars
===============================================================================
