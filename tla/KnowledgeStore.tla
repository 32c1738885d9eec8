---------------------------- MODULE KnowledgeStore ----------------------------
(***************************************************************************)
(* The document half of the SQLite store (src/internal/db/store.go,        *)
(* schema.sql): the documents, chunks and vec_chunks tables and the        *)
(* transactions that write them. Every operator of this module that primes *)
(* a variable is ONE database transaction, so it is atomic; the processes  *)
(* that string transactions together are in the modules that extend this   *)
(* one. The full-text index follows the chunks table by trigger and is     *)
(* left out.                                                               *)
(***************************************************************************)
EXTENDS Naturals, FiniteSets

CONSTANTS
    Path,       \* document paths: the identity of a document
    QAPath,     \* the paths under qa/, where confirmed answers live
    Body,       \* document texts
    Pieces,     \* Pieces[b]: how many chunks SplitMarkdown cuts b into
    Request,    \* save requests; each one saves at most one document
    Faults,     \* which failures may happen, see FaultKind
    MaxClock    \* bound on the wall clock, in seconds

\* "provider": the embedding call fails.  "store": a transaction fails and
\* rolls back.  "delete": one of the two DELETEs whose error UpsertDocument
\* throws away fails.  "crash": a process dies.
FaultKind == {"provider", "store", "delete", "crash"}

ASSUME QAPathAssumption == QAPath \subseteq Path
ASSUME PiecesAssumption == Pieces \in [Body -> Nat]
ASSUME FaultsAssumption == Faults \subseteq FaultKind
ASSUME MaxClockAssumption == MaxClock \in Nat

VARIABLES
    docs,       \* [Path -> row of documents, or NoRow]
    chunks,     \* the rows of chunks
    vecs,       \* the rows of vec_chunks, named by the chunk they embed
    approved,   \* the chunks whose status column is 'approved'
    now         \* what datetime('now') reads, to the second

storeVars == <<docs, chunks, vecs, approved, now>>

(***************************************************************************)
(* A document row is never deleted, so its integer id and its path name    *)
(* the same row forever and the path stands for both. by is the request    *)
(* whose upsert wrote the row last: the code does not store it, no action  *)
(* reads it, and the properties use it to say whose text the row holds.    *)
(***************************************************************************)
NoRow == [state |-> "absent"]

Row == [state: {"live", "removed"}, body: Body, by: Request, at: Nat]

\* The autoincrement id of a chunk is abstracted to what makes it unique.
Chunk == [doc: Path, by: Request, ord: Nat]

Live(p) == docs[p].state = "live"

ChunksOf(p) == {c \in chunks : c.doc = p}

StoreTypeOK ==
    /\ docs \in [Path -> Row \cup {NoRow}]
    /\ chunks \subseteq Chunk
    /\ vecs \subseteq Chunk
    /\ approved \subseteq chunks
    /\ now \in 0..MaxClock

StoreInit ==
    /\ docs = [p \in Path |-> NoRow]
    /\ chunks = {}
    /\ vecs = {}
    /\ approved = {}
    /\ now = 0

-------------------------------------------------------------------------------
(***************************************************************************)
(* One transaction: drop the old vectors, drop the old chunks, write the   *)
(* row. The vectors go first because they are found through the chunks.    *)
(* stuck is the set of DELETEs that failed unnoticed.                      *)
(***************************************************************************)
UpsertDocument(p, b, w) ==
    \E stuck \in SUBSET {"vec", "chunk"} :
        /\ stuck = {} \/ "delete" \in Faults
        /\ vecs' = IF "vec" \in stuck THEN vecs ELSE vecs \ ChunksOf(p)
        /\ chunks' = IF "chunk" \in stuck THEN chunks ELSE chunks \ ChunksOf(p)
        /\ approved' = approved \cap chunks'
        /\ docs' = [docs EXCEPT
                      ![p] = [state |-> "live", body |-> b, by |-> w, at |-> now]]
        /\ UNCHANGED now

\* One transaction: the chunk and its vector. A new chunk is a draft.
InsertChunk(p, w, i) ==
    LET c == [doc |-> p, by |-> w, ord |-> i] IN
    /\ chunks' = chunks \cup {c}
    /\ vecs' = vecs \cup {c}
    /\ UNCHANGED <<docs, approved, now>>

\* The removal with its two DELETEs in the wrong order.
RemoveChunksFirst(p) ==
    IF Live(p)
    THEN /\ chunks' = chunks \ ChunksOf(p)
         /\ vecs' = vecs \ {c \in chunks' : c.doc = p}
         /\ approved' = approved \ ChunksOf(p)
         /\ docs' = [docs EXCEPT ![p].state = "removed"]
         /\ UNCHANGED now
    ELSE UNCHANGED storeVars

\* The removal with the write of deleted_at missing.
RemoveForgetsRow(p) ==
    IF Live(p)
    THEN /\ vecs' = vecs \ ChunksOf(p)
         /\ chunks' = chunks \ ChunksOf(p)
         /\ approved' = approved \ ChunksOf(p)
         /\ UNCHANGED <<docs, now>>
    ELSE UNCHANGED storeVars

\* The removal that leaves it to deleted_at, which no retriever reads.
RemoveRowOnly(p) ==
    IF Live(p)
    THEN /\ docs' = [docs EXCEPT ![p].state = "removed"]
         /\ UNCHANGED <<chunks, vecs, approved, now>>
    ELSE UNCHANGED storeVars

\* One transaction: vectors, chunks, then deleted_at. The row and its body
\* stay, updated_at is not touched, and a row that is absent or already
\* removed is left alone.
RemoveDocument(p) ==
    IF Live(p)
    THEN /\ vecs' = vecs \ ChunksOf(p)
         /\ chunks' = chunks \ ChunksOf(p)
         /\ approved' = approved \ ChunksOf(p)
         /\ docs' = [docs EXCEPT ![p].state = "removed"]
         /\ UNCHANGED now
    ELSE UNCHANGED storeVars

\* Marks every chunk the document has at this moment.
Approve(p) ==
    /\ approved' = approved \cup ChunksOf(p)
    /\ UNCHANGED <<docs, chunks, vecs, now>>

\* The clock of the machine. MaxClock bounds it.
Tick ==
    /\ now < MaxClock
    /\ now' = now + 1
    /\ UNCHANGED <<docs, chunks, vecs, approved>>

-------------------------------------------------------------------------------
\* The duplicate an import looks for: the same text, live, at another path.
PathWithBody(b, except) ==
    \E q \in Path \ {except} : Live(q) /\ docs[q].body = b

\* Vectors and chunks name each other: no chunk without its vector ("a
\* retriever that ranks nothing"), no vector without its chunk ("a KNN
\* candidate that resolves to nothing", RemoveDocument's comment).
VectorsMatchChunks == vecs = chunks
===============================================================================
