------------------------------- MODULE Library --------------------------------
(***************************************************************************)
(* The write path of the engine (src/internal/rag: upload.go, remove.go,   *)
(* ingest in rag.go): imports, command-line ingests, edits, moves and      *)
(* removals, run by concurrent HTTP handlers and by the separate           *)
(* cmd/ingest process over one database. A save is a process: it reads,    *)
(* waits for the embedding provider, upserts the row, then inserts its     *)
(* chunks one transaction at a time. Nothing in the code locks a document  *)
(* across those steps.                                                     *)
(***************************************************************************)
EXTENDS KnowledgeStore

VARIABLE jobs   \* [Request -> Idle, or the save the request is running]

vars == <<docs, chunks, vecs, approved, now, jobs>>

Idle == [pc |-> "idle"]

\* confirm is the save of a BA's answer: module QALoop starts those.
Kind == {"upload", "ingest", "update", "confirm"}

\* Where a save stands. embed: waiting for the provider.  upsert: the vectors
\* are back, nothing is written.  insert: the row is written, ord chunks are.
\* drop: a move with its destination written.  The rest are ends: done;
\* refused, an error or a crash before the first write; failed, an error
\* after it; crashed, a crash after it.
InFlight == {"embed", "upsert", "insert", "drop"}
Ended == {"done", "refused", "failed", "crashed"}

Job == [pc: InFlight \cup Ended, kind: Kind, src: Path, dst: Path,
        body: Body, ord: Nat]

TypeOK ==
    /\ StoreTypeOK
    /\ jobs \in [Request -> Job \cup {Idle}]
    /\ \A w \in Request : jobs[w] # Idle => jobs[w].ord <= Pieces[jobs[w].body]

Init == StoreInit /\ jobs = [w \in Request |-> Idle]

\* The process a save runs in: what one crash takes down.
CommandLine == {"ingest"}
Server == Kind \ CommandLine
Process == {CommandLine, Server}

-------------------------------------------------------------------------------
GoTo(w, pc) == jobs' = [jobs EXCEPT ![w].pc = pc]

NewJob(pc, kind, src, dst, b) ==
    [pc |-> pc, kind |-> kind, src |-> src, dst |-> dst, body |-> b, ord |-> 0]

\* A text with no chunk in it is never embedded and never written: save and
\* ingest return before the first write.
Begin(w, kind, src, dst, b) ==
    /\ jobs[w] = Idle
    /\ jobs' = [jobs EXCEPT ![w] =
                  NewJob(IF Pieces[b] = 0 THEN "refused" ELSE "embed", kind, src, dst, b)]
    /\ UNCHANGED storeVars

\* Upload: an import may not write under qa/, and a text that another live
\* document already holds is refused.
Upload(w, p, b) ==
    /\ p \notin QAPath
    /\ ~PathWithBody(b, p)
    /\ Begin(w, "upload", p, p, b)

UploadRefused(w, p, b) ==
    /\ p \notin QAPath
    /\ PathWithBody(b, p)
    /\ jobs[w] = Idle
    /\ jobs' = [jobs EXCEPT ![w] = NewJob("refused", "upload", p, p, b)]
    /\ UNCHANGED storeVars

\* A read error in the duplicate check lets the import through.
UploadUnchecked(w, p, b) ==
    /\ p \notin QAPath
    /\ "store" \in Faults
    /\ Begin(w, "upload", p, p, b)

\* cmd/ingest: the same write with no duplicate check.
Ingest(w, p, b) ==
    /\ p \notin QAPath
    /\ Begin(w, "ingest", p, p, b)

\* The edit form: new text at the same path, or at another one outside qa/.
\* Nothing asks whether the source exists or the destination is taken.
Update(w, src, dst, b) ==
    /\ dst = src \/ dst \notin QAPath
    /\ Begin(w, "update", src, dst, b)

-------------------------------------------------------------------------------
\* The move that drops its source before it writes its destination.
EmbedThenDrop(w) ==
    LET j == jobs[w] IN
    /\ j.pc = "embed"
    /\ \/ /\ GoTo(w, "upsert")
          /\ IF j.src # j.dst THEN RemoveDocument(j.src) ELSE UNCHANGED storeVars
       \/ "provider" \in Faults /\ GoTo(w, "refused") /\ UNCHANGED storeVars

\* The save that writes its row before it asks the provider.
EmbedAfterWrite(w) ==
    /\ jobs[w].pc = "embed"
    /\ \/ GoTo(w, "upsert") /\ UNCHANGED storeVars
       \/ /\ "provider" \in Faults
          /\ UpsertDocument(jobs[w].dst, jobs[w].body, w)
          /\ GoTo(w, "refused")

\* Every batch of the text is embedded before anything is written.
Embed(w) ==
    /\ jobs[w].pc = "embed"
    /\ \/ GoTo(w, "upsert")
       \/ "provider" \in Faults /\ GoTo(w, "refused")
    /\ UNCHANGED storeVars

Upsert(w) ==
    /\ jobs[w].pc = "upsert"
    /\ \/ /\ UpsertDocument(jobs[w].dst, jobs[w].body, w)
          /\ GoTo(w, "insert")
       \/ /\ "store" \in Faults
          /\ GoTo(w, "refused")
          /\ UNCHANGED storeVars

\* What a save does once its last chunk is in.
AfterIngest(j) ==
    IF j.kind = "update" /\ j.src # j.dst THEN "drop" ELSE "done"

\* The loop over the chunks with its last turn missing.
InsertAllButLast(w) ==
    LET j == jobs[w] IN
    /\ j.pc = "insert"
    /\ IF j.ord + 1 < Pieces[j.body]
       THEN InsertChunk(j.dst, w, j.ord) /\ jobs' = [jobs EXCEPT ![w].ord = j.ord + 1]
       ELSE GoTo(w, AfterIngest(j)) /\ UNCHANGED storeVars

\* The loop over the chunks with one turn too many.
InsertOneTooMany(w) ==
    LET j == jobs[w] IN
    /\ j.pc = "insert"
    /\ jobs' = [jobs EXCEPT
                  ![w].ord = j.ord + 1,
                  ![w].pc = IF j.ord = Pieces[j.body] THEN AfterIngest(j)
                            ELSE "insert"]
    /\ InsertChunk(j.dst, w, j.ord)

\* One turn of the loop over the chunks: one transaction.
Insert(w) ==
    LET j == jobs[w] IN
    /\ j.pc = "insert"
    /\ \/ /\ InsertChunk(j.dst, w, j.ord)
          /\ jobs' = [jobs EXCEPT
                        ![w].ord = j.ord + 1,
                        ![w].pc = IF j.ord + 1 = Pieces[j.body]
                                  THEN AfterIngest(j) ELSE "insert"]
       \/ /\ "store" \in Faults
          /\ GoTo(w, "failed")
          /\ UNCHANGED storeVars

\* The last step of a move. A source that is not live is not an error.
DropSource(w) ==
    /\ jobs[w].pc = "drop"
    /\ \/ /\ RemoveDocument(jobs[w].src)
          /\ GoTo(w, "done")
       \/ /\ "store" \in Faults
          /\ GoTo(w, "failed")
          /\ UNCHANGED storeVars

\* Removing a document from the library; qa/ documents too.
Remove(p) ==
    /\ Live(p)
    /\ RemoveDocument(p)
    /\ UNCHANGED jobs

RunsIn(w, process) == jobs[w].pc \in InFlight /\ jobs[w].kind \in process

\* A process dies, and every save it was running with it. Committed
\* transactions stay; nothing resumes a save on restart.
Die(process) ==
    /\ "crash" \in Faults
    /\ jobs' = [w \in Request |->
                  IF RunsIn(w, process)
                  THEN [jobs[w] EXCEPT
                          !.pc = IF @ \in {"embed", "upsert"} THEN "refused"
                                 ELSE "crashed"]
                  ELSE jobs[w]]
    /\ UNCHANGED storeVars

Crash(process) == (\E w \in Request : RunsIn(w, process)) /\ Die(process)

-------------------------------------------------------------------------------
Arrive(w) ==
    \E p \in Path, b \in Body :
        \/ Upload(w, p, b)
        \/ UploadRefused(w, p, b)
        \/ UploadUnchecked(w, p, b)
        \/ Ingest(w, p, b)
        \/ \E src \in Path : Update(w, src, p, b)

Work(w) == Embed(w) \/ Upsert(w) \/ Insert(w) \/ DropSource(w)

Next ==
    \/ \E w \in Request : Arrive(w) \/ Work(w)
    \/ \E p \in Path : Remove(p)
    \/ \E process \in Process : Crash(process)
    \/ Tick /\ UNCHANGED jobs

Spec == Init /\ [][Next]_vars

\* A handler that has started runs on: Go schedules it, and the provider call
\* is bounded by the client's timeout.
FairSpec == Spec /\ \A w \in Request : WF_vars(Work(w))

-------------------------------------------------------------------------------
\* The chunks request w wrote at path p that are still there.
Written(p, w) == {c \in chunks : c.doc = p /\ c.by = w}

\* Every piece of the text the row of p holds is a chunk, with its vector.
Indexed(p) ==
    \A i \in 0..Pieces[docs[p].body]-1 :
        [doc |-> p, by |-> docs[p].by, ord |-> i] \in chunks \cap vecs

\* The saves that have run their whole ingest.
Ingested == {w \in Request : jobs[w].pc \in {"drop", "done"}}

\* A save has taken its place over once it has written its row.
TookOver(w) ==
    jobs[w].pc \in {"insert", "drop", "done", "failed", "crashed"}

\* A save that got through its ingest, and that no later save or removal has
\* replaced, answers with its whole text: whatever else was being written at
\* the same path at the same time took nothing from it (rag.go ingest).
SavedIsIndexed ==
    \A p \in Path : Live(p) /\ docs[p].by \in Ingested => Indexed(p)

\* A save that was refused - a provider that failed, a duplicate, a text with
\* no chunk, a process that died while it waited for the provider - has no row
\* and no chunk: "a provider failure leaves the library exactly as it was"
\* (upload.go:68-70).
RefusedWroteNothing ==
    \A w \in Request : jobs[w].pc = "refused" =>
        /\ \A p \in Path : docs[p] # NoRow => docs[p].by # w
        /\ \A c \in chunks : c.by # w

\* A move drops its source last: no step of a save makes the source of the
\* save disappear unless the save has written its destination, and there the
\* whole text answers or somebody else has taken the place over since
\* (upload.go:164-172).
MoveDropsLast ==
    [][\A w \in Request, src, dst \in Path :
          /\ jobs[w] # Idle /\ jobs[w].src = src /\ jobs[w].dst = dst /\ src # dst
          /\ Live(src) /\ ~Live(src)'
          /\ jobs'[w] # jobs[w]
          => /\ TookOver(w)
             /\ Live(dst) /\ docs[dst].by = w => Indexed(dst)]_vars

\* The library seen as a shelf: a place is indexing while its row is live and
\* its text is not wholly there.
PlaceOf(p) ==
    IF docs[p] = NoRow THEN [state |-> "empty"]
    ELSE [state |-> IF ~Live(p) THEN "withdrawn"
                    ELSE IF Indexed(p) THEN "answering" ELSE "indexing",
          by |-> docs[p].by]

ShelfPlace == [p \in Path |-> PlaceOf(p)]

\* The library implements the shelf: in particular a text that answers goes
\* on answering until another save takes over its place or a removal
\* withdraws it, and no save takes a place over twice.
TheShelf == INSTANCE Shelf WITH
                Save <- Request,
                place <- ShelfPlace,
                begun <- {w \in Request : TookOver(w)}

ImplementsShelf == TheShelf!ShelfSpec

-------------------------------------------------------------------------------
(***************************************************************************)
(* What the comments of the source say of a library that several requests  *)
(* write at once. A run finds the behaviour that contradicts it.           *)
(***************************************************************************)
Settled == \A w \in Request : jobs[w].pc \notin InFlight

\* Once no save is running, every chunk there is belongs to a document that is
\* live, and comes from the text its row holds: "UpsertDocument replaces a
\* document and all its chunks" (store.go:125), and "a removed document must
\* stop answering questions the moment it is removed" (store.go:714).
SettledHasOneText ==
    Settled => \A c \in chunks : Live(c.doc) /\ c.by = docs[c.doc].by

-------------------------------------------------------------------------------
\* A place being indexed does not stay so, unless the save that took it over last
\* met a failed transaction or a dying process: whatever it was interleaved with,
\* and whatever the provider does, it finishes (rag.go:212-256).
HalfIndexed(p) == Live(p) /\ ~Indexed(p)

IndexingEnds ==
    \A p \in Path :
        HalfIndexed(p) ~> ~HalfIndexed(p) \/ jobs[docs[p].by].pc \in {"failed", "crashed"}
===============================================================================
