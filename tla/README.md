# Verification of the knowledge engine

TLA+ models of mega-docs, a document question-answering server: a Go program
over one SQLite database, an external embedding and chat provider, and a Vue
page. The models are written from the code under `src/`, module by module; TLC
checks them on small instances and TLAPS proves what matters most for every
instance. `PROJECT.json` maps each definition to the lines it models.

## 1. The system

| Part | Code | State it keeps | Operations |
| --- | --- | --- | --- |
| Document store | `internal/db/store.go`, `schema.sql` | `documents`, `chunks`, `vec_chunks`, the full-text index | upsert, insert a chunk, remove, approve; the reads of retrieval |
| Library write path | `internal/rag/upload.go`, `remove.go`, `rag.go` (ingest), `server/documents.go`, `cmd/ingest` | none of its own: a save lives in a handler | import, ingest, edit, move, remove |
| QA loop | `internal/rag/qa.go`, `internal/db/tickets.go`, `server/qa.go` | `tickets` | file, draft, confirm, retract, reject, delete |
| Answer cache and question path | `internal/db/cache.go`, `rag.go` (Answer), `retrieve.go`, `server/chat.go` | `answers` | look up, retrieve, generate, store, prune |
| Retrieval algorithms | `store.go` (fuse, hits, capPerDoc, stitchNeighbours), `retrieve.go` | none | rank, cap, grow, trim |
| Memory, small talk, web search | `rag/memory.go`, `smalltalk.go`, `websearch.go` | none | cut a thread, rewrite a follow-up, answer without retrieval, supplement |
| Markdown splitting | `rag/chunk.go` | none | cut a text |
| Schema migrations | `internal/db/migrate.go` | `schema_version` | apply what is missing |
| Provider client | `internal/ai/client.go` | none | embed, stream a completion |
| HTTP server, configuration | `internal/server`, `internal/config`, `cmd/server` | settings read at start | route, gate, frame |
| Browser conversation | `composables/conversation.js`, `lib/session.js`, `lib/chat.js` | the thread, its saved copy | ask, stop, regenerate, reset |
| Browser ticket panel | `composables/tickets.js`, `qaloop.js`, `gate.js`, `TicketCard.vue` | the list fetched last, what is in the boxes, which card is at work | type, edit, arm, move, refresh |
| Browser library | `composables/library.js`, `importer.js`, `corpus.js`, `lib/upload.js` | the list fetched last, ticks, the form, the requests of two cards | tick, edit, save, remove, clear, import |

How they interact. Every HTTP request is a goroutine; `cmd/ingest` is another
process on the same database. They share nothing but the database, and each
SQL statement or explicit transaction is atomic there. A save embeds its whole
text first (a network wait of seconds), then writes the row in one transaction
and each chunk in one more. A ticket call reads its ticket, works on the
library, and updates the ticket in a last statement. A question reads a
signature of the corpus, looks for a stored answer, and otherwise runs four
reads and a completion before it stores its answer under the signature it
started with. Nothing locks a document, a ticket or a question across these
steps: what holds is what the order of the steps and the database's own
constraints make hold, and that is what the models check.

What is hard, per part, and what makes it correct:

- **Library.** Overlapping saves and removals of one path; provider, store and
  process failures between steps; a move over two paths. Correct when a finished
  save that still owns its place is wholly there, a refused one wrote nothing, a
  move never loses the document, and vectors and chunks stay in step.
- **QA loop.** A confirm of seconds beside a reject, retract, delete or
  re-file of the same ticket. Correct when tickets move along their lifecycle
  only, the document comes first and the ticket last, and one question is
  pending once.
- **Answer cache.** Signature, candidates, rows and answer are read and written
  at different moments by different questions. Correct when a free answer is one
  its reader could have been given: of their scope, from texts that were there.
- **One question.** Ten early returns, two completions and a search, a reader who
  leaves, a library that changes between two reads. Correct when what it cost is
  what it says, what it shows is what it used, what it may not remember it does
  not, and what it sends to the model fits.
- **Retrieval.** Two rankings, a boost, a cap per document, neighbours and a
  budget meet in one list. Correct when a chunk found twice stays above one found
  once, only the worse are dropped, and a number keeps its text.
- **Migrations.** The server and `cmd/ingest` open one file at once, fail or die
  half-way, and start again. Correct when `schema_version` tells the truth at
  every moment and whoever gets through `Open` finds everything there.
- **Browser conversation.** Streams whose turn has been stopped, asked again or
  reset away; a debounce timer and a page that hides or dies. Correct when one
  stream runs at a time, what is reset stays gone and half an answer says so.
- **Ticket panel.** Lists and answers to moves come late, beside typing, other
  cards and another BA. Correct when nothing typed is lost to a list and one
  ticket is confirmed once at a time.
- **Browser library.** A clearing is many requests and so is an import, and each
  may fail half-way, with or without effect, while the other card works. Correct
  when what could not be removed stays ticked and what landed is reported.
- **Splitting.** Sections of any size in any order. Correct when every line is in
  one chunk under its own name, and no chunk is too long or needlessly small.

The full list of hazards, each at its line, is `hazards` in `PROJECT.json`.

## 2. The modules

```
KnowledgeStore   tables of the library, one operator per transaction
  Library        saves, moves, removals, crashes over them    implements Shelf
    QALoop       tickets and the calls on them, beside it     implements Desk
    AnswerCache  questions and stored answers, beside it
  LibraryProofs  theorems about Library
    QALoopProofs, AnswerCacheProofs  theorems about the two beside it
ListFolds        the loops over lists, as folds
  ListProofs     what they compute
Retrieval        two rankings become sections: operators, no state
  Question       one question from the request to the last frame
  QuestionProofs theorems about Question, over ListProofs
Splitting        a document becomes chunks
  SplittingProofs  theorems about Splitting, over ListProofs
TicketPanel      the BA's screen of a browser page
LibraryPanel     the library and the importer of a browser page
  PanelProofs    theorems about the two panels, and about MCTextToAnswer as a whole
Conversation     the thread of a browser page and its saved copy
Migrations       opening the database
  ServingProofs  theorems about the two, over MCServing
MC<module>       small instances for TLC
```

Three instances hold several machines in one state space, because what they
are about shares no state: `MCServing` opens a database and then uses a page
(`serving`), `MCTextToAnswer` cuts a text, or answers a question, or works on
the queue, or on the library (`part`), and `MCAnswerCache` has three shapes of one machine
(`scene`): saves with nobody asking, questions beside saves that race, and questions beside
things that fail. `MCQALoop` gives the queue a past: a third request, `r3`, publishes an
answer before the other two begin, or never comes.

**KnowledgeStore** is state and transactions only. `docs` is `documents` (a row
is never deleted, so the path stands for the integer id), `chunks` and `vecs`
are `chunks` and `vec_chunks`, `approved` is the status column, `now` is
`datetime('now')` in whole seconds. A chunk is named by document, save and
position, which is what its autoincrement id tells apart. `UpsertDocument`
includes the two DELETEs whose errors the code throws away (fault `"delete"`).
The full-text index follows `chunks` by trigger and is left out.

**Library** makes a save a process: `Begin` (the early returns), `Embed`,
`Upsert`, `Insert` once per chunk, `DropSource` for a move. `jobs[w].pc` is the
place in `ingest`/`Update` where request `w` stands. `Upload` has the duplicate
check of an import, `Ingest` is the command line, `Update` is the edit form,
`Remove` is the DELETE route. `Crash(process)` ends the saves of the server or
of `cmd/ingest`. Texts are members of `Body`, and the number of chunks
`SplitMarkdown` makes of one is the constant `Pieces`. Paths are valid ones:
sanitising happens before any state is touched.

**Shelf** is what a reader is promised: a place is empty, being indexed,
answering or withdrawn; a text that answers goes on answering until another
save takes the place over or a removal withdraws it; no save takes over twice.
`Library` refines it with `place` computed from the tables.

**QALoop** adds `tickets` and the calls on them. A confirm is `Confirm` (reads
the ticket), `Unlist` (a rename removes the old document, then the ingest
begins - the job of the same request in `Library`), `ApproveAnswer`, `Close`.
A way out is `Leave`, `Look`, `Unpublish`, `Settle`. Each `WHERE status IN ...`
of `tickets.go` is a guard, `tickets_open_q` is `Covered`, and a call that
finds its ticket elsewhere ends `refused` as `update` does. `saw` is history: the
save whose text was published under the ticket when a way out read it. Notes, misses and
timestamps of tickets are left out. `OpenTicket` is one action: lookup, insert
and the fallback lookup can only end in a new row when nothing covers the
question at the insert, which the index decides.

**Desk** is the queue without database or calls: the lifecycle's edges, and
one pending item per question. The model follows the code in allowing a
confirm of a ticket that was never drafted, which the diagram at
`tickets.go:28-34` does not draw.

**AnswerCache** adds `answers` and the questions. `Ask` to `Prune` are the
steps of `Answer`, `retrieve`, `Search` and `Cache`, each query an action of
its own. The key is a pair of an option (scope, model, web switch) and a
question up to `normalise`; the signature is the three numbers of `Sig` (the
settings it ends with are constant while the server runs). A question retrieves
every row in scope rather than the best: the properties bound what an answer is
made from, so making it from more only makes them harder. Rows and questions
carry what the properties need to name (`under`, `seen`, `lately`); no action
reads those. Here several questions meet in the cache; everything one question
does by itself is `Question`. `History` and `Queue` only read.

Crashes are whole-process deaths with every committed transaction kept, which
is what SQLite's WAL gives. A store failure rolls its transaction back.

**Retrieval** has `fuse`, `hits`, `capPerDoc`, `stitchNeighbours`, `contextBudget` and
`trimToBudget` as operators over sequences of chunks. A chunk is a document and a
place in it, its text a length. Scores are exact fractions, and `Sorted` keeps no
order among equal ones, as `sort.Slice` does not. `Approved` is a set of documents where
the code has a status per chunk: `Approve` marks all a document has, and one whose
chunks are partly approved is left out.

**ListFolds** has the loops the code keeps writing, as folds: `Only` keeps the items of
a list that are in a set, in their order, `Total` adds sizes up and `Flat` joins lists.
They stand where `SelectSeq`, a recursive sum and `FlattenSeq` would, of which the
provers know nothing.

**Question** is `chatHandler` and `Answer`: `Receive` (`readQuestion`, what is
refused), `SmallTalk`, `Recent`, `Count` and `ListCounted` (the listings, whose
total and rows are two statements), `Rewritten` (the standalone question and what
it costs), `ReadSig`, `LookUp`, `Embed`, `VectorCandidates`, `KeywordCandidates`,
`Load`, `Fit`, `Supplement`, then a frame at a time until `Settle`. `heard` is the
stream of the provider as it has come in, `frames` what has been sent, `usage` what
the code has added up and `billed` what the provider charged. A ranking is any
order of the chunks in scope, for that is the index's choice; a question is the way
its wording takes (`Wording`), a completion words and markers. `Change` is one other
writer, between any two steps; `Leave` the reader who goes.

**TicketPanel** is the BA's screen. `queue` is the list the shell holds, `drafts`,
`working`, `editing` and `armed` the variables of `useTickets`, and `Pressable` what the
template of a card lets be pressed. `Press` is `move` and `remove` up to the request,
`Serve` the statement of `tickets.go`, `SettleMove` the rest of `move`; `Read` and
`Arrive` are the two ends of a fetch of the list, with whatever happens between
them. `GoAway` unmounts the screen, and the moves it sent answer to nobody.
`Another` is another BA. An instance that may write (`BA_PASS` set) is assumed;
the name of the document, which has a box of the same kind, is left out.

**LibraryPanel** is the other half of that screen. The list has one request at a
time (`busy`), kept in `task`: an edit that reads a document anew, a save, a
removal, or a clearing, which is one removal after another. The card above it has
its own (`errands`): imports, a request per file, and single removals; its drop zone
does not wait for an import before. `ServeTask` and `ServeErrand` are the routes of
`server/documents.go`, and what they answer may be lost after they acted; `edited`,
`settled`, `cleared`, `fileDone`, `removeDone` and `thrown` are the rest of each
handler. `Lock` is the gate: the card is unmounted and what it sent goes on without
it. A refusal is not JSON to the page (`IsJson`), and throws. `answering` is which documents answer; `Others` is everybody else. `sure` stands
for `armed` and `armedAll`, of which at most one is set. Files refused for their
extension are sorted out before anything is sent, and are left out.

**Migrations** is `Open`: `Create` runs `schema.sql` and the two tables made in
Go, a statement at a time; `ReadApplied` reads `schema_version` once; `Apply` is
the transaction of the next migration that was not in it, with the failure SQL
gives when another opener was first. A row is reduced to what migrations can
tell apart: whether its text is absent, saved by a person or rebuilt, and
whether its chunks carry their document's name. A file may be new, from before
the migrations, or written by a binary that knew the first only.

**Conversation** is one page. JavaScript runs a callback at a time, so a callback
and the watcher that follows it are one action. `live` holds the requests in
flight, so that a stream can outlive its turn; `run`, `busy`, `pending`, `timer`
are the variables of the code. A stream resolves with a done frame or by an abort: a body that
just ends, which `chat.js:106-107` would take for the end, is not what this server sends to
a reader who is there. Text is `"none"`, `"part"` or `"whole"`. `Hide` is
`visibilitychange` or `pagehide`; `Load` is a new page, after any end of the old
one. `era` and `redone` are history read by properties only. Tickets shown on
turns are left out.

**Splitting** reads a text heading by heading and paragraph by paragraph;
`Flush` is the switch of `flush` with its four outcomes and `packParagraphs`
and `splitLines` are folds as in the code. Text is lengths: a chunk is the list
of what stands in it (lines, the header a table repeats, what was carried over,
a heading) and its length; a heading written inline has one length, `subHeadingSize`. A paragraph stands between two blank lines, so it has lines
and none is empty (`ParagraphAssumption`). `clean` and the recognition of a heading in a line
are abstracted, and with them that a `#` line in a code fence counts as a heading.

## 3. The runs

All constants are small sets of model values. Requests (and askers) are
interchangeable, so the runs over them use symmetry, unless they check liveness. Deadlock checking is off where requests are finite: when all have ended and
nothing is left to remove, the system has nothing to do. It is on for `serving`.

| Run | Instance | Shows |
| --- | --- | --- |
| `saves_and_answers` | saves: 2 saves, paths in and out of `qa/`, texts of 0, 1, 2 chunks, all four faults, 2 clock values. races: 1 document, 2 saves, 2 questions, a clock. failures: 2 documents, 1 save, a reader of all and one of a folder, all four faults. Cap 1 | `TypeOK`, `SavedIsIndexed`, `RefusedWroteNothing`, `MoveDropsLast`, `ImplementsShelf`; `CacheIsBounded`, `ServedIsDue` |
| `qaloop_queue` | 2 tickets sharing a question, 2 names, texts of 0 and 1 chunk, provider, store and crash faults; 2 requests from an empty queue, or a way out beside any other request once an answer is published | `QATypeOK`, `DocIffConfirmed`, `TicketClosesLast`, `UnpublishedFirst`, `VectorsMatchChunks`, `ImplementsDesk`, `LoopProgress` |
| `serving` | 2 openers, 1 document, 3 ages of file, 2 failures or crashes; then 3 questions, 1 reset, 1 turn remembered, 1 saved | `ServingTypeOK`, `VersionTellsTheShape`, `ReadyIsCurrent`, `SavedTextsAreKept`, `EveryoneOpens`, `OneStream`, `ResetForgets`, `HalfIsMarked`, `HideKeepsTheThread`, `BusyEnds` |
| `text_to_answer` | text: 3 headings of 2 levels, 3 paragraphs of 5 sizes, the code's limits. question: 3 documents, 2 models, a cache that is empty or holds the answer, a change. queue: 2 tickets, 2 moves in flight, 1 event. library: 2 documents, 2 requests | `TextTypeOK`; `NothingIsLost`, `ChunksAreNamed`, `SizeIsBounded`; `UsageIsCarried`, `SourcesAreTheUsed`, `ReplayIsTheSame`, `ThreadStaysOut`, `ThreadFits`, `CountIsReal`, `BothBeatOne`, `OnlyTheWorseAreDropped`, `NumbersKeepTheirText`, `ContextFits`; `TypedIsKept`; `FailuresStayTicked` |
| `library_one_text` | 2 saves and removals of one path | refutes `SettledHasOneText` |
| `qaloop_disagree` | a confirm overtaken by a way out | refutes `LiveMeansConfirmed` |
| `qaloop_backed` | 2 tickets, 2 names, 3 calls; only the provider fails and nobody else touches the library | refutes `ConfirmedIsBacked` |
| `cache_collision` | a question across a save, then a removal | refutes `ServedNeverOutlives` |
| `conversation_half` | 3 questions, 1 turn remembered | refutes `HistoryIsWhole` |
| `question_cutoff` | one question whose stream ends in every way | refutes `OnlyWholeIsKept` |
| `panel_twice` | 2 tickets, 3 moves | refutes `ConfirmedOnce` |
| `import_partial` | an import of 2 files | refutes `PartialIsReported` |

Why the bounds are enough. Every property is about at most two actors and a
place or ticket they share: two requests give every order of two saves, of a
save and a call, or of two calls, and removals are unlimited. `UnpublishedFirst` is
about three: the confirm that published, the way out, and a rename, a republish, an
edit or another way out between its reading and its settling; hence `r3`. Two chunks are
the least that can be half written; one chunk and none are the other branches.
Two paths make a move and a rename; two tickets with one question make the
index and a shared name bite. A clock that ticks once makes two saves in the
same second and in different ones. A cap of one answer with two keys exceeds
the cap. Two openers race for a migration, and two failures end one and then the
other at any two points. Three turns are a regenerate above a turn and a
question after both. The paragraphs are one of each size that takes a branch of
its own: small, big, full, longer than the limit, a table, a line over the limit.
For a question: documents of three chunks (with neighbours between them), of none
and one a person vouched for; rankings of up to three and two chunks per document,
so that the cap, the cut to `k` and a chunk found twice all occur; a model whose
window leaves room for less than was found and one whose window is unknown; threads
of up to four turns where three may be sent, with blank turns and one too long;
completions of up to two tokens, each of which may be a marker, words or the
sentence of a miss. A reader may leave at any moment, but for the two questions over
several documents (`MCStays`). Two tickets make moves overlap on the panel, and one event
elsewhere is a list that has aged, a screen left or an import. Two documents are a
clearing that goes on after its first removal and an import with a file to come;
two requests are one of the list beside one of the card.
The proofs (section 4) do not depend on these bounds. Bounded for TLC only:
`MaxClock`, `MaxFaults`, `MaxSeq`, `MaxResets`, `MaxParagraphs`, `MaxHeadings`,
`MaxTokens`, `MaxPresses`, `MaxEvents`, `MaxReads`, `MaxRequests`, `MaxLists`; a request saves once, an asker asks
once, the library changes once beside a question, and the clauses `Races`,
`DeletesWork` and `Failures` of `MCAnswerCache` and `MCFirst` and `MCThen` of `MCQALoop`
say what a scene leaves to the others.

Fairness. `FairSpec` and `QAFairSpec` (by `LoopFairness`) ask that a handler that has started goes
on: Go schedules it, and its only unbounded wait, the provider, is cut by the
client's timeouts (`ai/client.go`). Nothing is assumed of requests arriving, of
removals, or of crashes, and nothing resumes a save or a call after one:
`LoopProgress` says that a call ends, by dying if so, and excepts a place whose last
save met a failed transaction or a crash from what must be wholly indexed. `MigFairness` asks the same of an opener, and that a
process that has ended is started again: by a supervisor for the server, by
its user for `cmd/ingest`. `ConvFairness` asks that a stream ends: the server ends
every response it sends, and an abort rejects the fetch at once. No user action
and no event of the page is assumed to happen.

Each property has a mutant: a changed copy of one definition, next to it in
its module, that the property's run must reject.

### What the refuted properties say

- `SettledHasOneText`: `UpsertDocument` replaces the document, the inserts come
  later, and nothing keeps a removal or another save of the path from
  committing in between. After a removal the rest of the chunks are inserted
  under a removed row, and `hits` does not look at `deleted_at`, so they answer;
  after a second upsert both saves go on inserting, and the document answers
  from two texts.
- `LiveMeansConfirmed`: `Confirm` never checks the status it read; a ticket
  rejected, deleted or retracted meanwhile (or before) leaves its document
  live and no ticket that could take it out.
- `ConfirmedIsBacked`: an answer that is only a heading is not empty (`qa.go:136-139`),
  and no chunk comes of it. `ingest` then returns 0 and no error, `Confirm` looks at the
  error alone, and the ticket is recorded confirmed with no document behind it; on a
  republish the old text stays and goes on answering. `tickets.go:43` calls a confirmed
  ticket "indexed + approved; the next DEV gets a citation". `TicketClosesLast` therefore
  excepts answers of no chunk. The same instance holds the longer
  ways to violate it: two tickets are confirmed under one name and one of them takes the
  document out, a renaming confirm has removed the old document and its ingest
  fails, a retract has removed the document and `tickets_open_q` refuses to
  settle it: each leaves a confirmed ticket naming a document that is removed.
- `ServedNeverOutlives`: the corpus between a document's upsert and its first
  chunk has the same counts and the same latest timestamp as the corpus after
  that document is removed, because a removal keeps the row and does not touch
  `updated_at`. A question that read its signature in that window stores an
  answer that is served, however much later, once the document is gone.
- `HistoryIsWhole`: `stop` marks the last turn, but a regenerate streams any turn
  on screen. Stopped above later turns, its half answer is marked by nothing,
  and the next question sends it to the model as a whole one. `HalfIsMarked`
  therefore excepts such turns.
- `OnlyWholeIsKept`: `ChatStream` takes the end of the body for the end of the
  answer whether or not `[DONE]` came, so half an answer is cached and served until
  the corpus changes, although `rag.go:501-502` rules a cut-off stream out.
- `ConfirmedOnce`: `working` holds one id. Pressing another card overwrites it,
  and the end of either move clears it, so the first card's button is live while
  its move is under way, and a second tap confirms the ticket twice at a time.
- `PartialIsReported`: the list of what was refused is sent with status 400, and
  `documents.go:148` writes the status before `writeJSON` sets the Content-Type, so
  it leaves as text. `sendOne` takes only JSON for a list and throws the rest, and
  what throws takes along the outcomes before it, the files after it, the report
  and the refresh. The tests of the route decode the body and do not look at the
  header. The network and the gate end an import the same way.

Also seen while modelling and not kept as runs, because the code has no
mechanism a property could be about, or nothing says it should be otherwise:

- Library and queue: two overlapping imports store one text twice; a move that
  fails half-way leaves both addresses; an approval marks whatever chunks its document
  has by then, those of a library edit too; a removal leaves the ticket that named the
  document confirmed; two confirms under two names leave two documents. `store.go:98-99` says
  a fresh database finds nothing to do in the migration list; it runs all three.
- Cache: a late question prunes newer answers.
- Question: a thread of which nothing fits the window makes a follow-up a first
  question, which is cached as one; a neighbour that did not rank is printed
  twice when two hits stand on both sides of it; a chunk left out of its
  neighbour's section because it ranked may then be trimmed away by the budget.
- Splitting: a packed chunk may be longer than `maxChars` by what it carries over
  (`SizeIsBounded` says how much), where `chunk_test.go:60` speaks of a guarantee,
  and what it carries over is cut by bytes; a text before the first heading, merged
  with the sections after it, leaves a chunk without a breadcrumb.
- Page: `settle` (`session.js`) drops the name of the model that
  `conversation.js:65-69` keeps "for tomorrow", and two tabs write one storage key.
- Panel: what is typed while a move of the same ticket is under way is replaced
  by its answer; `BaScreen` is unmounted when the page shows the chat, so the drafts
  that `TicketCard.vue:8-9` says a BA "switching tabs and coming back expects" are
  gone; lists may overtake each other, and the older one then stays on screen.
- Library card: a tick outlives its document, and comes back with it when it is
  imported anew; EDIT of a document others removed opens it, and SAVE brings it back;
  a new document saved where there is one replaces it without a question; an import
  dropped onto one under way makes the card say it is done when the first is.

## 4. The proofs

`LibraryProofs` proves, for any paths, texts, requests and faults:

- `TypeCorrect`: `Spec => []TypeOK`.
- `SavedIsIndexedCorrect`, `RefusedWroteNothingCorrect`.
- `VectorsMatchChunksCorrect`, under the assumption that no DELETE fails
  unnoticed (`"delete" \notin Faults`): with it the property is false.
- `LibraryImplementsShelf`: `Spec => ImplementsShelf`, every step of `Next` to
  a step of the shelf or a stutter.
- `MoveDropsLastCorrect`, the action property.

The argument. `SavedIsIndexed` is about saves that have finished; it is not
inductive, because it says nothing of those under way. The invariant adds how
far each save is (`OrdFollowsPc`: what `ord` is at each `pc`), who owns a row
(`RowHasOwner`: the save in `by` has taken over, and the row has its path and
text) and that an owner has written exactly the pieces below its `ord`.
`UpsertDocument` hands the ownership over, and with it the only obligation;
`Insert` extends the owner's pieces by one or touches a row it does not own;
no other step removes chunks of a live row. The refinement needs the same
facts: a step changes a place only by a takeover, by completing the owner's
last piece, or by a removal. The move property needs that a job at `"drop"`
has run its ingest.

The only assumptions are those on the constants, named in `KnowledgeStore`
(`QAPath` among the paths, `Pieces` natural numbers, `Faults` among the kinds,
`MaxClock` a number); TLC evaluates them in every run.

`ServingProofs` proves of the migrations, for any processes, documents and number of failures,
`MigTypeCorrect`, `VersionTellsTheShapeCorrect`, `ReadyIsCurrentCorrect` and the
action property `SavedTextsAreKeptCorrect`. What a migration does depends on a
set its opener read long ago, so the truth of `schema_version` is not inductive:
the invariant adds that what an opener left out of its plan is applied
(`PlanIsCurrent`: ids are never taken back, so an old read can only have missed
some) and that the statements behind an opener have been made (`BehindIsMade`).
Then the transaction of the least planned migration finds every earlier one
applied, and either finds itself new and keeps the shape or fails as a whole.

`QuestionProofs` proves, for any requests, documents, windows, rankings and caches:

- `BothBeatOneCorrect`. Where two rankings of at most 40 chunks meet, the least
  score of a chunk found twice, 2/99, is above the greatest of one found once
  and boosted, 1/60 and a fifth more (`BothScoreAbove`); 40 is the pool the code
  uses. That the cap and the cut keep the order is `CapKeepsOrder`, and the
  invariant `RankTypes` carries that the rankings are without repetition through
  the changes of the library between them.
- `ThreadStaysOutCorrect`. What is cacheable is decided once and acted on much
  later, so the invariant (`ThreadInv`) says at every stage in between what it knows
  of the thread.
- `UsageIsCarriedCorrect`. `CostInv` balances the books at every step - what was
  charged is what has been added up and what a stream still owes - and `FrameInv`
  that the one last frame tells the sum.
- `ThreadFitsCorrect`. The loop of `Replay` is a walk down from the newest turn:
  at every place it holds the whole turns above it, or has met one that does not fit.
- `ContextFitsCorrect`. The loop of `trimToBudget` is a walk up: at every place it
  holds the sections below it and their size, or has met the one that is too much.
- `NumbersKeepTheirTextCorrect`. Stitching gives each hit a section in its place,
  and a section grows by chunks that are no hit only.
- `OnlyTheWorseAreDroppedCorrect`. The cap is a walk down the fused list that passes
  every chunk (`WalkHasAll`) but those with `maxPerDoc` of their document before them
  (`CountedOff`). So what the cap or the cut to `k` left out was left out for better ones
  (`DroppedForBetter`).
- `CountIsRealCorrect`. The total and the rows are two statements, so `CountInv` keeps
  the total that of a library there has been since the question (`seen`), and of the present
  one if nothing changed, until the list is sent; `WordsOnly` says that only words are
  sent before the end.
- `ReplayIsTheSameCorrect`. `ToldInv`: while an answer comes, a reader who is still
  there has been sent all that was heard, so that what is kept at the end is what was
  shown; a reader who left is shown less and nothing is kept for him.
- `SourcesAreTheUsedCorrect`. `SourceInv` follows the sections from `Load` to the frame
  that names them, through `Fit` and `Supplement`.
- `AskTypeCorrect`. `AskTypeOK` says more than types: no document of a list, no chunk of a
  ranking and no hit twice, at most `k` hits, a total the library can have, and never more
  than two completions paid for. `AskTypes` therefore takes in what is known of the sections
  (`SourceInv`, `FitInv`) and of the cost (`CostInv`: the rewrite is one, the answer the
  other), and says of each part which steps write it. It needs that a library does not hold
  a document twice (`documents` is keyed by path, `LibraryAssumption`) and that a stored answer
  has sources (`EarlierAssumption`).

These rest on `ListProofs`, which is about data and not about this system. The
library's induction theorems take an operator and cannot be used here, so
`SetInduction` states induction over the naturals with a set, proved from the
smallest number outside it, which `WFMin` of WellFoundedInduction supplies.
With it a fold over a finite set has a witness (`FoldExists`), a fold over a sequence
is the last place of a walk along it (`LeftWalk`, `RightWalk`), and `Only`, `Total` and
`Flat` unfold by one item (`OnlyUnfolds`, `TotalUnfolds`, `FlatUnfolds`). Every loop above
is proved from its walk.

`QALoopProofs` proves, for any tickets, questions, names and requests, `QATypeCorrect`,
`DocIffConfirmedCorrect`, `TicketClosesLastCorrect`, `UnpublishedFirstCorrect`,
`LoopImplementsDesk`, and carries what `LibraryProofs` has of saves alone to saves
with the queue beside them: `LoopImplementsShelf`, `LoopKeepsSaves`, `LoopKeepsMoves`,
`LoopKeepsVectors`. A ticket call acts on what it read steps ago, so `QAInv` adds to
the library's invariant what each place of a call knows: that a confirm which closes
has a save that is over and chunks that are approved; that the text a way out found
published is of a save that writes no more (`Over`), which until the removal has chunks only
while the document is live; and that a way out which settles has left neither a row nor a
chunk of it. That the save is over is what `UnpublishedFirst` rests on: a text still being
written is not yet published, and its rest may come after the removal, which is
`SettledHasOneText`. Whatever anybody else does leaves all that true (`Undisturbed`): a
save under way goes on or ends (`JobsGoOn`), a text that was taken out does not come
back under the same save and a document that stops being live has no chunk left
(`TextsStayGone`), a chunk comes only from a save that is inserting, and an approval goes
only with its chunk (`ApprovalsStay`). `TicketClosesLast` is the clause of `"close"` with
`SavedIsIndexed`; its hypothesis is that the answer has a chunk (`ConfirmedIsBacked`). The refinement of `Desk` has one case for each statement of
`tickets.go`: a ticket moves along one edge (`EdgeOf`) and nothing else moves one.

`AnswerCacheProofs` proves, for any askers, options, texts and any cap:

- `ServedIsDueCorrect`. A signature may stand for two states of the corpus; when it
  does not, the answer served must be from chunks that were there while its reader
  waited. That needs the corpus never to come back (`Superseded`): no row returns
  to what it was, since a removed one waits for a save and no save takes over twice,
  and while no row changes chunks are only added. `Made` pairs each answer, stored or
  being written, with the corpus it was made under: that corpus is the present one and
  has all the answer's chunks still, or lies behind for good (`MadeOK`), and a question
  about to look up has seen the chunks of every answer made under its own (`ReadersOK`).
- `CacheIsBoundedCorrect`. `Bounded` gives each question that has stored its answer and
  not pruned yet one answer above the cap.

`ServingProofs` proves of the page, for threads of any length and any number of requests,
resets and reloads, `OneStreamCorrect`, `ResetForgetsCorrect`, `HalfIsMarkedCorrect`
and the action property `HideKeepsTheThreadCorrect`, all from one invariant:

- `Requests`: nothing is in flight or one request is, and it goes by `run`;
- `Streams`: exactly the turn of that request streams. An `aborted` request has left
  its turn stopped or `redone`, a `done` one has left it a text that is not partial,
  so that `Ended` can settle the turn without looking at why the stream ended. For
  the abort this needs one fact more: a turn that streams and is not the last was
  asked again, since `stop` marks the last turn only;
- `Ids`, and in `Lists` that ids ascend: a turn's id names it, so what a stream brings
  changes one turn, and `GreatestId` gives a loaded page ids above all it has loaded;
- `Copy`: what is waiting to be written, or else what is stored, is the snapshot of
  the thread on screen, which `flush` then needs only to write. `SavedIsKept` (a saved
  thread is its own snapshot) carries it over a `Load`.

`ServingTypeCorrect` has the types of both machines at once. Those of the page need a
little of that invariant: an id is at most the last one given, and the last one at most
`MaxSeq`, and the history of a request is a sequence of turns because `Only` of one is.

`PanelProofs` proves, for any tickets and texts, `TypedIsKeptCorrect`: a case for
every step of the screen, with the invariant that there is one box for each ticket.
`PanelTypeCorrect` has the types of the screen; `TicketTypes` adds that a move answered
without a ticket was a deletion, or an answer that is no ticket could be written into a
box, and that each move in flight has been counted.
It proves, for any documents and requests, `LibraryPanelTypeCorrect`, which is inductive once
said of each card by itself, and from it `FailuresStayTickedCorrect`: of all the steps
of both cards only the answer to a removal takes a tick while a clearing is under way.

Last it has the run `text_to_answer` as a whole: `RunIsItsParts`, that a behaviour of the four
machines side by side is a behaviour of each, so that what is proved of `Splitting`,
`Question` and the panels holds of every behaviour TLC explores there and of those it does
not reach; and `TextTypeCorrect`, the types of all four at once.

`SplittingProofs` proves, for any limits, paragraphs, headings and texts of any length,
`SplitTypeCorrect`, `NothingIsLostCorrect`, `NoSmallNeighboursCorrect`,
`SizeIsBoundedCorrect` and `ChunksAreNamedCorrect`. A text goes through three loops, so
each is proved from the inside out, by its walk:

- `splitLines` cuts one paragraph. `CutTo` says of the lines read so far that they are in
  the parts and the one being filled, once and in order, each part with the header of its
  table before it, and that a part is over the limit only when one line is (`IsPart`).
- `packParagraphs` fills parts with paragraphs. `PackLines` is what the parts and the one
  being filled hold, and a paragraph adds its own lines to that (`PackTyped`), whether it
  fits, is carried over to or is cut; `PackGood` bounds the part being filled by the limit,
  what was carried over and a blank line.
- `flush`. `FlushedIs` gives its five ways, the sixth of the code being out of reach: two
  sections under the floor always fit one chunk, as 2 `minChars` is below `maxChars`, so what
  waits is merged and never put out before the next begins. `LinesInv` - the lines of the
  chunks, of the one that waits and of the section being read are those of the text - is
  then inductive, and is `NothingIsLost`.

`SizeInv` adds that the last chunk made is not one merged and still under the floor
(`LastIsBig`), for such a one waits until the end; this is what the next section needs to
be put behind it (`ApartJoined`). `NameInv` adds that the sections a text was read in are
never changed (`SectionsInv`), that in a chunk that waits each line is below its own heading
(`HeadedEach`), which a merge may rely on when it takes the breadcrumb away, and that a
breadcrumb is the deepest one its sections share (`Shares`): a section under another top
heading leaves it, and one under the same cuts it where the two part (`AlikeIs`,
`SharesMore`).

Model-checked only: `LoopProgress`, `EveryoneOpens` and `BusyEnds`, which are liveness
under fairness and out of the prover's reach. So are the refuted properties, for which the
counterexample is the evidence.

Every invariant and every action property that a passing run checks is a theorem. Two have
a hypothesis: `VectorsMatchChunks` that no DELETE fails unnoticed, which is also what the run's
faults leave out, and `SizeIsBounded` that headings are no longer than two sections under the
floor leave room for in one chunk (`HeadingsAreShort`; the code counts a heading in no limit).
Its other half, `NoSmallNeighbours`, needs no such hypothesis.

## 5. Not modelled

Routing, passphrase gates, settings, configuration, path sanitising, request
formatting, views and styles: no state that steps of two actors can disagree about.
The regular expressions of small talk are a choice of wordings, and which chunks a
ranking finds is any choice. Of the browser's lists, the pages, the finding and the
grouping of rows are not modelled, nor the free answers beside the queue. The
provider and the search service are external: they answer, fail or stop early.

## 6. Plan

1. `TicketPanel` over `QALoop` instead of the statements of `tickets.go`, with both
   names of a document, and `LibraryPanel` over `Library` in place of the set of
   documents that answer.
2. The whole screen: `TicketPanel` and `LibraryPanel` under one gate, left and come
   back to.
