---------------------------- MODULE LibraryProofs -----------------------------
(***************************************************************************)
(* Proofs about Library, for any number of paths, texts and requests and   *)
(* for every choice of Faults.                                             *)
(***************************************************************************)
EXTENDS Library, TLAPS

USE DEF Idle, NoRow

(***************************************************************************)
(* The inductive invariant. SavedIsIndexed speaks of the saves that have   *)
(* run their whole ingest; to carry it through a step we need to know how  *)
(* far the others are: the save that owns a live row has written exactly   *)
(* the chunks below its ord, and owns no other row.                        *)
(***************************************************************************)
OrdFollowsPc ==
    \A w \in Request : jobs[w] # Idle =>
        /\ jobs[w].pc \in {"embed", "upsert"} =>
              jobs[w].ord = 0 /\ Pieces[jobs[w].body] > 0
        /\ jobs[w].pc = "insert" => jobs[w].ord < Pieces[jobs[w].body]
        /\ jobs[w].pc \in {"drop", "done"} =>
              jobs[w].ord = Pieces[jobs[w].body]

RowHasOwner ==
    \A p \in Path : docs[p] # NoRow =>
        LET j == jobs[docs[p].by] IN
        /\ TookOver(docs[p].by)
        /\ j.dst = p
        /\ j.body = docs[p].body

ChunkHasWriter ==
    \A c \in chunks :
        /\ TookOver(c.by)
        /\ jobs[c.by].dst = c.doc

OwnerWroteItsPrefix ==
    \A p \in Path : Live(p) =>
        \A i \in Nat : i < jobs[docs[p].by].ord =>
            [doc |-> p, by |-> docs[p].by, ord |-> i] \in chunks \cap vecs

IInv ==
    /\ TypeOK
    /\ OrdFollowsPc
    /\ RowHasOwner
    /\ ChunkHasWriter
    /\ OwnerWroteItsPrefix

-------------------------------------------------------------------------------
\* A started job is a record with all its fields.
LEMMA JobFields ==
    ASSUME TypeOK, NEW w \in Request, jobs[w].pc # "idle"
    PROVE  /\ jobs[w] \in Job
           /\ jobs[w] # Idle
BY DEF TypeOK

\* The three ways the store changes under a save keep its type.
LEMMA UpsertTyped ==
    ASSUME StoreTypeOK, NEW p \in Path, NEW b \in Body, NEW w \in Request,
           UpsertDocument(p, b, w)
    PROVE  StoreTypeOK'
BY MaxClockAssumption DEF StoreTypeOK, UpsertDocument, ChunksOf, Row

LEMMA InsertTyped ==
    ASSUME StoreTypeOK, NEW p \in Path, NEW w \in Request, NEW i \in Nat,
           InsertChunk(p, w, i)
    PROVE  StoreTypeOK'
BY DEF StoreTypeOK, InsertChunk, Chunk

LEMMA RemoveTyped ==
    ASSUME StoreTypeOK, NEW p \in Path, RemoveDocument(p)
    PROVE  StoreTypeOK'
BY DEF StoreTypeOK, RemoveDocument, ChunksOf, Live, Row, storeVars

LEMMA TickTyped ==
    ASSUME StoreTypeOK, Tick
    PROVE  StoreTypeOK'
BY MaxClockAssumption DEF StoreTypeOK, Tick

\* A save that arrives is well typed.
LEMMA BeginTyped ==
    ASSUME TypeOK, NEW w \in Request, NEW kind \in Kind, NEW src \in Path,
           NEW dst \in Path, NEW b \in Body, Begin(w, kind, src, dst, b)
    PROVE  TypeOK'
<1>1. StoreTypeOK'
  BY DEF TypeOK, StoreTypeOK, Begin, storeVars
<1>2. Pieces[b] \in Nat
  BY PiecesAssumption
<1>3. jobs' \in [Request -> Job \cup {Idle}]
  BY <1>2 DEF TypeOK, Begin, NewJob, Job, InFlight, Ended
<1>4. \A v \in Request : jobs'[v] # Idle => jobs'[v].ord <= Pieces[jobs'[v].body]
  BY <1>2 DEF TypeOK, Begin, NewJob
<1> QED
  BY <1>1, <1>3, <1>4 DEF TypeOK

-------------------------------------------------------------------------------
\* What most steps do to the saves that own rows: nothing the invariant sees.
OwnersKept ==
    \A v \in Request : TookOver(v) =>
        /\ TookOver(v)'
        /\ jobs'[v].dst = jobs[v].dst
        /\ jobs'[v].body = jobs[v].body
        /\ jobs'[v].ord = jobs[v].ord

\* A step that leaves the tables alone and the owners as they were.
LEMMA QuietStep ==
    ASSUME IInv, TypeOK', OrdFollowsPc', OwnersKept,
           UNCHANGED <<docs, chunks, vecs>>
    PROVE  IInv'
<1>1. \A p \in Path : docs[p] # NoRow => docs[p].by \in Request
  BY DEF IInv, TypeOK, StoreTypeOK, Row
<1>2. \A c \in chunks : c.by \in Request
  BY DEF IInv, TypeOK, StoreTypeOK, Chunk
<1>3. RowHasOwner'
  BY <1>1 DEF IInv, RowHasOwner, OwnersKept, TookOver
<1>4. ChunkHasWriter'
  BY <1>2 DEF IInv, ChunkHasWriter, OwnersKept, TookOver
<1>5. OwnerWroteItsPrefix'
  BY <1>1 DEF IInv, RowHasOwner, OwnerWroteItsPrefix, OwnersKept, Live
<1> QED
  BY <1>3, <1>4, <1>5 DEF IInv

\* Removing a document keeps what is left in order.
LEMMA RemoveStep ==
    ASSUME IInv, TypeOK', OrdFollowsPc', OwnersKept,
           NEW p \in Path, RemoveDocument(p)
    PROVE  IInv'
<1>1. CASE ~Live(p)
  BY <1>1, QuietStep DEF RemoveDocument, storeVars
<1>2. CASE Live(p)
  <2>1. /\ \A q \in Path : q # p => docs'[q] = docs[q]
        /\ docs'[p] # NoRow => docs[p] # NoRow
        /\ docs'[p].by = docs[p].by
        /\ docs'[p].body = docs[p].body
        /\ ~Live(p)'
    BY <1>2 DEF RemoveDocument, Live, IInv, TypeOK, StoreTypeOK, Row
  <2>2. \A q \in Path : docs'[q] # NoRow => docs[q] # NoRow /\ docs[q].by \in Request
    BY <2>1 DEF IInv, TypeOK, StoreTypeOK, Row
  <2>3. /\ chunks' = chunks \ ChunksOf(p)
        /\ vecs' = vecs \ ChunksOf(p)
    BY <1>2 DEF RemoveDocument
  <2>4. RowHasOwner'
    BY <2>1, <2>2 DEF IInv, RowHasOwner, OwnersKept, TookOver
  <2>5. ChunkHasWriter'
    BY <2>3 DEF IInv, ChunkHasWriter, OwnersKept, TookOver, TypeOK, StoreTypeOK, Chunk
  <2>6. OwnerWroteItsPrefix'
    <3> SUFFICES ASSUME NEW q \in Path, Live(q)', NEW i \in Nat,
                        i < jobs'[docs'[q].by].ord
                 PROVE  [doc |-> q, by |-> docs'[q].by, ord |-> i] \in (chunks \cap vecs)'
      BY DEF OwnerWroteItsPrefix
    <3>1. q # p /\ docs'[q] = docs[q] /\ Live(q)
      BY <2>1 DEF Live
    <3>2. docs[q].by \in Request /\ TookOver(docs[q].by)
      BY <2>2, <3>1 DEF IInv, RowHasOwner, Live
    <3>3. i < jobs[docs[q].by].ord
      BY <3>1, <3>2 DEF OwnersKept
    <3>4. [doc |-> q, by |-> docs[q].by, ord |-> i] \in chunks \cap vecs
      BY <3>1, <3>3 DEF IInv, OwnerWroteItsPrefix
    <3> QED
      BY <2>3, <3>1, <3>4 DEF ChunksOf
  <2> QED
    BY <2>4, <2>5, <2>6 DEF IInv
<1> QED
  BY <1>1, <1>2

\* A save takes a row over: what it wiped cannot be missed, because the new
\* owner has written nothing yet.
LEMMA UpsertStep ==
    ASSUME IInv, NEW w \in Request, jobs[w].pc = "upsert",
           UpsertDocument(jobs[w].dst, jobs[w].body, w), GoTo(w, "insert")
    PROVE  IInv'
<1> DEFINE p == jobs[w].dst
<1>1. /\ jobs[w] \in Job /\ jobs[w] # Idle
      /\ p \in Path /\ jobs[w].body \in Body /\ jobs[w].ord = 0
  BY JobFields DEF IInv, OrdFollowsPc, Job
<1>2. /\ \A v \in Request : v # w => jobs'[v] = jobs[v]
      /\ jobs'[w] \in Job
      /\ jobs'[w] = [jobs[w] EXCEPT !.pc = "insert"]
      /\ jobs' \in [Request -> Job \cup {Idle}]
  BY <1>1 DEF GoTo, IInv, TypeOK, Job, InFlight
<1>3. TypeOK'
  <2>1. StoreTypeOK'
    BY <1>1, UpsertTyped DEF IInv, TypeOK
  <2> QED
    BY <1>1, <1>2, <2>1 DEF IInv, TypeOK, Job
<1>4. OrdFollowsPc'
  BY <1>1, <1>2 DEF IInv, OrdFollowsPc, Job
<1>5. /\ chunks' \subseteq chunks
      /\ \A c \in chunks : c.doc # p => c \in chunks'
      /\ \A c \in vecs : c.doc # p => c \in vecs'
      /\ docs' = [docs EXCEPT ![p] = [state |-> "live", body |-> jobs[w].body,
                                      by |-> w, at |-> now]]
  BY <1>1 DEF UpsertDocument, ChunksOf
<1>6. ~TookOver(w)
  BY DEF TookOver
<1>7. \A v \in Request : TookOver(v) => v # w /\ TookOver(v)' /\ jobs'[v] = jobs[v]
  BY <1>2, <1>6 DEF TookOver
<1>8. TookOver(w)' /\ jobs'[w].dst = p /\ jobs'[w].body = jobs[w].body /\ jobs'[w].ord = 0
  BY <1>1, <1>2 DEF TookOver, Job
<1>9. \A q \in Path : q # p => docs'[q] = docs[q]
  BY <1>1, <1>5 DEF IInv, TypeOK, StoreTypeOK
<1>10. docs'[p].by = w /\ docs'[p].body = jobs[w].body
  BY <1>1, <1>5 DEF IInv, TypeOK, StoreTypeOK
<1>11. \A q \in Path : docs[q] # NoRow => docs[q].by \in Request
  BY DEF IInv, TypeOK, StoreTypeOK, Row
<1>12. RowHasOwner'
  BY <1>7, <1>8, <1>9, <1>10, <1>11 DEF IInv, RowHasOwner, TookOver
<1>13. ChunkHasWriter'
  BY <1>5, <1>7 DEF IInv, ChunkHasWriter, TookOver, TypeOK, StoreTypeOK, Chunk
<1>14. OwnerWroteItsPrefix'
  <2> SUFFICES ASSUME NEW q \in Path, Live(q)', NEW i \in Nat,
                      i < jobs'[docs'[q].by].ord
               PROVE  [doc |-> q, by |-> docs'[q].by, ord |-> i] \in (chunks \cap vecs)'
    BY DEF OwnerWroteItsPrefix
  <2>1. q # p
    BY <1>8, <1>10
  <2>2. docs'[q] = docs[q] /\ Live(q) /\ docs[q] # NoRow
    BY <1>9, <2>1 DEF Live
  <2>3. docs[q].by \in Request /\ TookOver(docs[q].by)
    BY <1>11, <2>2 DEF IInv, RowHasOwner
  <2>4. i < jobs[docs[q].by].ord
    BY <1>7, <2>2, <2>3
  <2>5. [doc |-> q, by |-> docs[q].by, ord |-> i] \in chunks \cap vecs
    BY <2>2, <2>4 DEF IInv, OwnerWroteItsPrefix
  <2> QED
    BY <1>5, <2>1, <2>2, <2>5
<1> QED
  BY <1>3, <1>4, <1>12, <1>13, <1>14 DEF IInv

\* A save writes its next chunk: its prefix grows by one, nobody else's
\* shrinks.
LEMMA InsertStep ==
    ASSUME IInv, NEW w \in Request, jobs[w].pc = "insert",
           InsertChunk(jobs[w].dst, w, jobs[w].ord),
           jobs' = [jobs EXCEPT
                      ![w].ord = jobs[w].ord + 1,
                      ![w].pc = IF jobs[w].ord + 1 = Pieces[jobs[w].body]
                                THEN AfterIngest(jobs[w]) ELSE "insert"]
    PROVE  IInv'
<1> DEFINE p == jobs[w].dst
           n == jobs[w].ord
           c == [doc |-> p, by |-> w, ord |-> n]
<1>1. /\ jobs[w] \in Job /\ jobs[w] # Idle /\ p \in Path /\ n \in Nat
      /\ jobs[w].body \in Body /\ Pieces[jobs[w].body] \in Nat
      /\ n < Pieces[jobs[w].body]
  BY JobFields, PiecesAssumption DEF IInv, Job, OrdFollowsPc
<1> DEFINE next == IF n + 1 = Pieces[jobs[w].body]
                   THEN AfterIngest(jobs[w]) ELSE "insert"
<1>a. next \in {"insert", "drop", "done"}
  BY DEF AfterIngest
<1> DEFINE moved == [jobs[w] EXCEPT !.ord = n + 1]
           turned == [moved EXCEPT !.pc = next]
<1>b. jobs' = [jobs EXCEPT ![w] = turned]
  BY <1>1 DEF IInv, TypeOK
<1> HIDE DEF next
<1>c. /\ moved \in Job /\ moved.ord = n + 1
      /\ moved.dst = p /\ moved.body = jobs[w].body
  BY <1>1 DEF Job
<1> HIDE DEF moved
<1>d. /\ turned \in Job /\ turned.ord = n + 1 /\ turned.pc = next
      /\ turned.dst = p /\ turned.body = jobs[w].body
  BY <1>a, <1>c DEF Job, InFlight, Ended
<1> HIDE DEF turned
<1>2. /\ \A v \in Request : v # w => jobs'[v] = jobs[v]
      /\ jobs'[w] \in Job
      /\ jobs'[w].dst = p /\ jobs'[w].body = jobs[w].body /\ jobs'[w].ord = n + 1
      /\ jobs'[w].pc = next
      /\ jobs' \in [Request -> Job \cup {Idle}]
  <2>1. jobs \in [Request -> Job \cup {Idle}]
    BY DEF IInv, TypeOK
  <2>2. jobs'[w] = turned /\ \A v \in Request : v # w => jobs'[v] = jobs[v]
    BY ONLY <1>b, <2>1, w \in Request
  <2>3. jobs' \in [Request -> Job \cup {Idle}]
    BY ONLY <1>b, <1>d, <2>1, w \in Request
  <2> QED BY ONLY <1>d, <2>2, <2>3
<1>3. TypeOK'
  <2>1. StoreTypeOK'
    BY <1>1, InsertTyped DEF IInv, TypeOK
  <2> QED
    BY <1>1, <1>2, <2>1 DEF IInv, TypeOK
<1>4. OrdFollowsPc'
  BY <1>1, <1>2 DEF IInv, OrdFollowsPc, AfterIngest, next
<1>5. chunks' = chunks \cup {c} /\ vecs' = vecs \cup {c} /\ docs' = docs
  BY DEF InsertChunk
<1>6. TookOver(w) /\ TookOver(w)'
  BY <1>2, <1>a DEF TookOver
<1>7. \A v \in Request : TookOver(v) =>
         /\ TookOver(v)'
         /\ jobs'[v].dst = jobs[v].dst /\ jobs'[v].body = jobs[v].body
  BY <1>2, <1>6 DEF TookOver
<1>8. \A q \in Path : docs[q] # NoRow => docs[q].by \in Request
  BY DEF IInv, TypeOK, StoreTypeOK, Row
<1>9. RowHasOwner'
  <2> SUFFICES ASSUME NEW q \in Path, docs'[q] # NoRow
               PROVE  LET j == jobs'[docs'[q].by] IN
                      TookOver(docs[q].by)' /\ j.dst = q /\ j.body = docs'[q].body
    BY DEF RowHasOwner
  <2>1. /\ docs[q].by \in Request /\ TookOver(docs[q].by)
        /\ jobs[docs[q].by].dst = q /\ jobs[docs[q].by].body = docs[q].body
    BY <1>5, <1>8 DEF IInv, RowHasOwner
  <2>2. TookOver(docs[q].by)'
    BY <1>5, <1>7, <2>1 DEF TookOver
  <2> QED
    BY <1>5, <1>7, <2>1, <2>2
<1>10. ChunkHasWriter'
  BY <1>2, <1>5, <1>6, <1>7 DEF IInv, ChunkHasWriter, TookOver, TypeOK, StoreTypeOK, Chunk
<1>11. OwnerWroteItsPrefix'
  <2> SUFFICES ASSUME NEW q \in Path, Live(q), NEW i \in Nat,
                      i < jobs'[docs[q].by].ord
               PROVE  [doc |-> q, by |-> docs[q].by, ord |-> i] \in chunks' \cap vecs'
    BY <1>5 DEF OwnerWroteItsPrefix, Live
  <2>1. docs[q] # NoRow /\ docs[q].by \in Request
    BY <1>8 DEF Live
  <2>2. CASE docs[q].by # w
    <3>1. i < jobs[docs[q].by].ord
      BY <1>2, <2>1, <2>2
    <3> QED
      BY <1>5, <3>1 DEF IInv, OwnerWroteItsPrefix
  <2>3. CASE docs[q].by = w /\ i < n
    BY <1>5, <2>3 DEF IInv, OwnerWroteItsPrefix
  <2>4. CASE docs[q].by = w /\ ~(i < n)
    <3>1. i = n
      BY <1>1, <1>2, <2>4
    <3>2. q = p
      BY <2>1, <2>4 DEF IInv, RowHasOwner
    <3> QED
      BY <1>5, <2>4, <3>1, <3>2
  <2> QED
    BY <2>2, <2>3, <2>4
<1> QED
  BY <1>3, <1>4, <1>9, <1>10, <1>11 DEF IInv

\* A save that arrives owns nothing, whatever happens to the tables as it does.
LEMMA BeginJob ==
    ASSUME IInv, StoreTypeOK', NEW w \in Request, NEW j \in Job,
           jobs[w] = Idle,
           j.pc \in {"embed", "refused"}, j.ord = 0,
           j.pc = "embed" => Pieces[j.body] # 0,
           jobs' = [jobs EXCEPT ![w] = j]
    PROVE  /\ jobs'[w] = j
           /\ \A v \in Request : v # w => jobs'[v] = jobs[v]
           /\ TypeOK' /\ OrdFollowsPc' /\ OwnersKept
<1>1. Pieces[j.body] \in Nat
  BY PiecesAssumption DEF Job
<1>2. jobs' \in [Request -> Job \cup {Idle}] /\ jobs'[w] = j
  BY DEF IInv, TypeOK
<1>3. \A v \in Request : v # w => jobs'[v] = jobs[v]
  BY DEF IInv, TypeOK
<1>4. TypeOK'
  BY <1>1, <1>2, <1>3 DEF IInv, TypeOK
<1>5. OrdFollowsPc'
  BY <1>1, <1>2, <1>3 DEF IInv, OrdFollowsPc
<1>6. OwnersKept
  BY <1>3 DEF OwnersKept, TookOver
<1> QED
  BY <1>2, <1>3, <1>4, <1>5, <1>6

LEMMA BeginStep ==
    ASSUME IInv, NEW w \in Request, NEW j \in Job,
           jobs[w] = Idle,
           j.pc \in {"embed", "refused"}, j.ord = 0,
           j.pc = "embed" => Pieces[j.body] # 0,
           jobs' = [jobs EXCEPT ![w] = j],
           UNCHANGED storeVars
    PROVE  IInv'
<1>1. StoreTypeOK'
  BY DEF IInv, TypeOK, StoreTypeOK, storeVars
<1> QED
  BY <1>1, BeginJob, QuietStep DEF storeVars

\* A save moves on without touching a table, and does not start or stop
\* owning a row by it.
LEMMA GoToStep ==
    ASSUME IInv, NEW w \in Request, NEW pc \in {"upsert", "refused", "done", "failed"},
           jobs[w].pc # "idle",
           GoTo(w, pc),
           pc = "upsert" => jobs[w].pc = "embed",
           pc = "done" => jobs[w].pc \in {"drop"},
           pc = "failed" => TookOver(w),
           pc = "refused" => ~TookOver(w)
    PROVE  /\ jobs' \in [Request -> Job \cup {Idle}]
           /\ \A v \in Request : jobs'[v] # Idle => jobs'[v].ord <= Pieces[jobs'[v].body]
           /\ OrdFollowsPc'
           /\ OwnersKept
<1>1. jobs[w] \in Job /\ jobs[w] # Idle
  BY JobFields DEF IInv
<1> DEFINE moved == [jobs[w] EXCEPT !.pc = pc]
<1>a. jobs' = [jobs EXCEPT ![w] = moved]
  BY DEF GoTo
<1>b. /\ moved \in Job /\ moved.pc = pc /\ moved.ord = jobs[w].ord
      /\ moved.dst = jobs[w].dst /\ moved.body = jobs[w].body
  BY <1>1 DEF Job, InFlight, Ended
<1> HIDE DEF moved
<1>2. /\ \A v \in Request : v # w => jobs'[v] = jobs[v]
      /\ jobs'[w] \in Job
      /\ jobs' \in [Request -> Job \cup {Idle}]
  BY <1>a, <1>b DEF IInv, TypeOK
<1>3. jobs'[w].pc = pc /\ jobs'[w].ord = jobs[w].ord /\ jobs'[w].dst = jobs[w].dst
      /\ jobs'[w].body = jobs[w].body
  BY <1>a, <1>b DEF IInv, TypeOK
<1>4. \A v \in Request : jobs'[v] # Idle => jobs'[v].ord <= Pieces[jobs'[v].body]
  BY <1>1, <1>2, <1>3 DEF IInv, TypeOK
<1>5. OrdFollowsPc'
  <2> SUFFICES ASSUME NEW v \in Request, jobs'[v] # Idle
               PROVE  /\ jobs'[v].pc \in {"embed", "upsert"} =>
                            jobs'[v].ord = 0 /\ Pieces[jobs'[v].body] > 0
                      /\ jobs'[v].pc = "insert" => jobs'[v].ord < Pieces[jobs'[v].body]
                      /\ jobs'[v].pc \in {"drop", "done"} =>
                            jobs'[v].ord = Pieces[jobs'[v].body]
    BY DEF OrdFollowsPc
  <2>1. CASE v = w
    BY <1>1, <1>3, <2>1 DEF IInv, OrdFollowsPc
  <2>2. CASE v # w
    BY <1>2, <2>2 DEF IInv, OrdFollowsPc
  <2> QED
    BY <2>1, <2>2
<1>6. OwnersKept
  BY <1>2, <1>3 DEF OwnersKept, TookOver
<1> QED
  BY <1>2, <1>4, <1>5, <1>6

\* What a crash leaves of one save: an owner stays an owner.
LEMMA DieStep ==
    ASSUME IInv, NEW process \in Process, Die(process)
    PROVE  IInv'
<1> DEFINE Dies(v) == jobs[v].pc \in InFlight /\ jobs[v].kind \in process
           last(v) == IF jobs[v].pc \in {"embed", "upsert"} THEN "refused" ELSE "crashed"
<1>1. \A v \in Request :
         /\ Dies(v) => /\ jobs'[v] = [jobs[v] EXCEPT !.pc = last(v)]
                       /\ jobs[v] \in Job
         /\ ~Dies(v) => jobs'[v] = jobs[v]
  BY DEF Die, RunsIn, IInv, TypeOK, InFlight
<1>a. \A v \in Request : last(v) \in {"refused", "crashed"}
  OBVIOUS
<1>b. \A v \in Request : jobs[v].pc \in {"embed", "upsert"} => last(v) = "refused"
  OBVIOUS
<1>c. \A v \in Request : jobs[v].pc \notin {"embed", "upsert"} => last(v) = "crashed"
  OBVIOUS
<1> HIDE DEF last
<1>2. ASSUME NEW v \in Request, Dies(v)
      PROVE  /\ jobs'[v] \in Job /\ jobs'[v].pc = last(v) /\ jobs'[v].ord = jobs[v].ord
             /\ jobs'[v].dst = jobs[v].dst /\ jobs'[v].body = jobs[v].body
             /\ jobs[v] # Idle
  <2>1. jobs'[v] = [jobs[v] EXCEPT !.pc = last(v)] /\ jobs[v] \in Job
    BY <1>1, <1>2
  <2>2. last(v) \in InFlight \cup Ended
    BY <1>a DEF Ended
  <2>3. jobs[v] # Idle
    BY <1>2 DEF InFlight
  <2> QED
    BY <2>1, <2>2, <2>3 DEF Job
<1>d. \A v \in Request : jobs'[v].ord = jobs[v].ord /\ jobs'[v].body = jobs[v].body
                        /\ jobs'[v].dst = jobs[v].dst
  BY <1>1, <1>2
<1>e. \A v \in Request : jobs'[v] # Idle => jobs[v] # Idle
  BY <1>1, <1>2
<1>f. \A v \in Request : jobs'[v].pc = jobs[v].pc \/ jobs'[v].pc = last(v)
  BY <1>1, <1>2
<1>3. jobs' \in [Request -> Job \cup {Idle}]
  <2>1. \A v \in Request : jobs'[v] \in Job \cup {Idle}
    BY <1>1, <1>2 DEF IInv, TypeOK
  <2>2. \E f : jobs' = [v \in Request |-> f[v]]
    <3>1. jobs' = [v \in Request |-> jobs'[v]]
      BY DEF Die, RunsIn
    <3> QED
      BY <3>1
  <2> QED
    BY <2>1, <2>2
<1>4. TypeOK'
  <2>1. StoreTypeOK'
    BY DEF IInv, TypeOK, StoreTypeOK, Die, storeVars
  <2>2. \A v \in Request : jobs'[v] # Idle => jobs'[v].ord <= Pieces[jobs'[v].body]
    BY <1>1, <1>2 DEF IInv, TypeOK
  <2> QED
    BY <1>3, <2>1, <2>2 DEF TypeOK
<1>5. OrdFollowsPc'
  BY <1>a, <1>d, <1>e, <1>f DEF IInv, OrdFollowsPc
<1>6. OwnersKept
  BY <1>c, <1>d, <1>f DEF OwnersKept, TookOver
<1> QED
  BY <1>4, <1>5, <1>6, QuietStep DEF Die, RunsIn, storeVars

-------------------------------------------------------------------------------
LEMMA InitIInv == Init => IInv
BY MaxClockAssumption
   DEF Init, StoreInit, IInv, TypeOK, StoreTypeOK, OrdFollowsPc, RowHasOwner,
       ChunkHasWriter, OwnerWroteItsPrefix, Live

LEMMA ArriveKeepsIInv ==
    ASSUME IInv, NEW w \in Request, Arrive(w)
    PROVE  IInv'
<1>1. ASSUME NEW kind \in Kind, NEW src \in Path, NEW dst \in Path, NEW b \in Body,
             Begin(w, kind, src, dst, b)
      PROVE  IInv'
  <2> DEFINE j == [pc |-> IF Pieces[b] = 0 THEN "refused" ELSE "embed",
                   kind |-> kind, src |-> src, dst |-> dst, body |-> b, ord |-> 0]
  <2>1. j \in Job
    BY DEF Job, InFlight, Ended
  <2> QED
    BY <1>1, <2>1, BeginStep DEF Begin, NewJob
<1>2. ASSUME NEW p \in Path, NEW b \in Body, UploadRefused(w, p, b)
      PROVE  IInv'
  <2> DEFINE j == [pc |-> "refused", kind |-> "upload", src |-> p, dst |-> p,
                   body |-> b, ord |-> 0]
  <2>1. j \in Job
    BY DEF Job, Kind, InFlight, Ended
  <2> QED
    BY <1>2, <2>1, BeginStep DEF UploadRefused, NewJob
<1>3. "upload" \in Kind /\ "ingest" \in Kind /\ "update" \in Kind
  BY DEF Kind
<1> QED
  BY <1>1, <1>2, <1>3 DEF Arrive, Upload, UploadUnchecked, Ingest, Update

LEMMA WorkKeepsIInv ==
    ASSUME IInv, NEW w \in Request, Work(w)
    PROVE  IInv'
<1>1. CASE Embed(w)
  <2>1. StoreTypeOK'
    BY <1>1 DEF Embed, IInv, TypeOK, StoreTypeOK, storeVars
  <2>2. PICK pc \in {"upsert", "refused"} : GoTo(w, pc)
    BY <1>1 DEF Embed
  <2>3. TypeOK' /\ OrdFollowsPc' /\ OwnersKept
    BY <1>1, <2>1, <2>2, GoToStep DEF Embed, TypeOK, TookOver
  <2> QED
    BY <1>1, <2>3, QuietStep DEF Embed, storeVars
<1>2. CASE Upsert(w)
  <2>1. CASE UpsertDocument(jobs[w].dst, jobs[w].body, w) /\ GoTo(w, "insert")
    BY <1>2, <2>1, UpsertStep DEF Upsert
  <2>2. CASE GoTo(w, "refused") /\ UNCHANGED storeVars
    <3>1. StoreTypeOK'
      BY <2>2 DEF IInv, TypeOK, StoreTypeOK, storeVars
    <3>2. TypeOK' /\ OrdFollowsPc' /\ OwnersKept
      BY <1>2, <2>2, <3>1, GoToStep DEF Upsert, TypeOK, TookOver
    <3> QED
      BY <2>2, <3>2, QuietStep DEF storeVars
  <2> QED
    BY <1>2, <2>1, <2>2 DEF Upsert
<1>3. CASE Insert(w)
  <2>1. CASE GoTo(w, "failed") /\ UNCHANGED storeVars
    <3>1. StoreTypeOK'
      BY <2>1 DEF IInv, TypeOK, StoreTypeOK, storeVars
    <3>2. TypeOK' /\ OrdFollowsPc' /\ OwnersKept
      BY <1>3, <2>1, <3>1, GoToStep DEF Insert, TypeOK, TookOver
    <3> QED
      BY <2>1, <3>2, QuietStep DEF storeVars
  <2> QED
    BY <1>3, <2>1, InsertStep DEF Insert
<1>4. CASE DropSource(w)
  <2>1. jobs[w].pc = "drop" /\ jobs[w].src \in Path
    BY <1>4, JobFields DEF DropSource, IInv, Job
  <2>2. PICK pc \in {"done", "failed"} : GoTo(w, pc)
    BY <1>4 DEF DropSource
  <2>3. StoreTypeOK'
    <3>1. CASE RemoveDocument(jobs[w].src)
      BY <2>1, <3>1, RemoveTyped DEF IInv, TypeOK
    <3>2. CASE UNCHANGED storeVars
      BY <3>2 DEF IInv, TypeOK, StoreTypeOK, storeVars
    <3> QED
      BY <1>4, <3>1, <3>2 DEF DropSource
  <2>4. TypeOK' /\ OrdFollowsPc' /\ OwnersKept
    BY <2>1, <2>2, <2>3, GoToStep DEF TypeOK, TookOver
  <2>5. CASE RemoveDocument(jobs[w].src)
    BY <2>1, <2>4, <2>5, RemoveStep
  <2>6. CASE UNCHANGED storeVars
    BY <2>4, <2>6, QuietStep DEF storeVars
  <2> QED
    BY <1>4, <2>5, <2>6 DEF DropSource
<1> QED
  BY <1>1, <1>2, <1>3, <1>4 DEF Work

\* Every step of the library keeps the invariant.
LEMMA NextIInv == IInv /\ [Next]_vars => IInv'
<1> SUFFICES ASSUME IInv, [Next]_vars
             PROVE  IInv'
  OBVIOUS
<1>1. ASSUME UNCHANGED jobs, StoreTypeOK'
      PROVE  TypeOK' /\ OrdFollowsPc' /\ OwnersKept
  BY <1>1 DEF IInv, TypeOK, OrdFollowsPc, OwnersKept, TookOver
<1>2. ASSUME NEW w \in Request, Arrive(w) \/ Work(w)
      PROVE  IInv'
  BY <1>2, ArriveKeepsIInv, WorkKeepsIInv
<1>3. ASSUME NEW p \in Path, Remove(p)
      PROVE  IInv'
  <2>1. StoreTypeOK'
    BY <1>3, RemoveTyped DEF Remove, IInv, TypeOK
  <2> QED
    BY <1>1, <1>3, <2>1, RemoveStep DEF Remove
<1>4. ASSUME NEW process \in Process, Crash(process)
      PROVE  IInv'
  BY <1>4, DieStep DEF Crash
<1>5. CASE Tick /\ UNCHANGED jobs
  BY <1>1, <1>5, TickTyped, QuietStep DEF Tick, IInv, TypeOK
<1>6. CASE UNCHANGED vars
  <2>1. StoreTypeOK'
    BY <1>6 DEF vars, IInv, TypeOK, StoreTypeOK
  <2> QED
    BY <1>1, <1>6, <2>1, QuietStep DEF vars
<1> QED
  BY <1>2, <1>3, <1>4, <1>5, <1>6 DEF Next

LEMMA Invariance == Spec => []IInv
BY InitIInv, NextIInv, PTL DEF Spec

-------------------------------------------------------------------------------
\* The library keeps its types: rows, chunks and saves are well formed, an
\* approved chunk exists, and no save writes more chunks than its text has.
THEOREM TypeCorrect == Spec => []TypeOK
<1>1. IInv => TypeOK
  BY DEF IInv
<1> QED
  BY <1>1, Invariance, PTL

\* The owner of a live row that has run its whole ingest has its whole text in.
LEMMA IngestedAreIndexed == IInv => SavedIsIndexed
<1> SUFFICES ASSUME IInv, NEW p \in Path, Live(p), docs[p].by \in Ingested,
                    NEW i \in 0..Pieces[docs[p].body]-1
             PROVE  [doc |-> p, by |-> docs[p].by, ord |-> i] \in chunks \cap vecs
  BY DEF SavedIsIndexed, Indexed
<1> DEFINE w == docs[p].by
<1>1. docs[p] # NoRow /\ docs[p].body \in Body /\ w \in Request
  BY DEF Live, IInv, TypeOK, StoreTypeOK, Row
<1>2. jobs[w].body = docs[p].body
  BY <1>1 DEF IInv, RowHasOwner
<1>3. jobs[w].ord = Pieces[docs[p].body]
  BY <1>1, <1>2 DEF IInv, OrdFollowsPc, Ingested
<1>4. i \in Nat /\ i < jobs[w].ord
  BY <1>1, <1>3, PiecesAssumption
<1> QED
  BY <1>4 DEF IInv, OwnerWroteItsPrefix

\* A save that got through its ingest and still owns its row answers with its
\* whole text, however many saves, removals, failures and crashes it was
\* interleaved with (ingest in rag.go).
THEOREM SavedIsIndexedCorrect == Spec => []SavedIsIndexed
BY IngestedAreIndexed, Invariance, PTL

\* A save refused before its first write has no row and no chunk in the
\* library: the embeddings come back before anything is written (upload.go).
THEOREM RefusedWroteNothingCorrect == Spec => []RefusedWroteNothing
<1>1. IInv => RefusedWroteNothing
  BY DEF IInv, RowHasOwner, ChunkHasWriter, TookOver, RefusedWroteNothing
<1> QED
  BY <1>1, Invariance, PTL

LEMMA VectorsStep ==
    ASSUME "delete" \notin Faults
    PROVE  VectorsMatchChunks /\ [Next]_vars => VectorsMatchChunks'
<1> SUFFICES ASSUME VectorsMatchChunks, [Next]_vars
             PROVE  VectorsMatchChunks'
  OBVIOUS
<1>1. ASSUME UNCHANGED storeVars
      PROVE  VectorsMatchChunks'
  BY <1>1 DEF storeVars, VectorsMatchChunks
<1>2. ASSUME NEW p, NEW b, NEW w, UpsertDocument(p, b, w)
      PROVE  VectorsMatchChunks'
  BY <1>2 DEF UpsertDocument, VectorsMatchChunks
<1>3. ASSUME NEW p, NEW w, NEW i, InsertChunk(p, w, i)
      PROVE  VectorsMatchChunks'
  BY <1>3 DEF InsertChunk, VectorsMatchChunks
<1>4. ASSUME NEW p, RemoveDocument(p)
      PROVE  VectorsMatchChunks'
  BY <1>1, <1>4 DEF RemoveDocument, VectorsMatchChunks
<1>5. ASSUME NEW w \in Request, Arrive(w)
      PROVE  VectorsMatchChunks'
  BY <1>1, <1>5 DEF Arrive, Upload, UploadRefused, UploadUnchecked, Ingest, Update, Begin
<1>6. ASSUME NEW w \in Request, Work(w)
      PROVE  VectorsMatchChunks'
  BY <1>1, <1>2, <1>3, <1>4, <1>6 DEF Work, Embed, Upsert, Insert, DropSource
<1>7. ASSUME NEW p \in Path, Remove(p)
      PROVE  VectorsMatchChunks'
  BY <1>4, <1>7 DEF Remove
<1>8. ASSUME NEW process \in Process, Crash(process)
      PROVE  VectorsMatchChunks'
  BY <1>1, <1>8 DEF Crash, Die, RunsIn
<1>9. CASE Tick /\ UNCHANGED jobs
  BY <1>9 DEF Tick, VectorsMatchChunks
<1>10. CASE UNCHANGED vars
  BY <1>10 DEF vars, VectorsMatchChunks
<1> QED
  BY <1>5, <1>6, <1>7, <1>8, <1>9, <1>10 DEF Next

\* Vectors and chunks never come apart while the DELETEs of UpsertDocument
\* succeed: each of the three transactions moves both tables together.
THEOREM VectorsMatchChunksCorrect ==
    ASSUME "delete" \notin Faults
    PROVE  Spec => []VectorsMatchChunks
<1>1. Init => VectorsMatchChunks
  BY DEF Init, StoreInit, VectorsMatchChunks
<1> QED
  BY <1>1, VectorsStep, PTL DEF Spec

-------------------------------------------------------------------------------
(***************************************************************************)
(* The library implements the shelf.                                       *)
(***************************************************************************)
Begun == {w \in Request : TookOver(w)}

\* A step that changes neither the tables nor who has taken over is a stutter.
LEMMA ShelfStutter ==
    ASSUME UNCHANGED <<docs, chunks, vecs>>, Begun' = Begun
    PROVE  UNCHANGED <<ShelfPlace, Begun>>
BY DEF ShelfPlace, PlaceOf, Indexed, Live

\* A place changes only with its row and with the chunks of its document.
LEMMA PlaceKept ==
    ASSUME NEW q \in Path, docs'[q] = docs[q], Indexed(q)' <=> Indexed(q)
    PROVE  PlaceOf(q)' = PlaceOf(q)
BY DEF PlaceOf, Live

LEMMA IndexedKept ==
    ASSUME NEW q \in Path, docs'[q] = docs[q],
           \A i \in Nat :
              LET c == [doc |-> q, by |-> docs[q].by, ord |-> i] IN
              c \in chunks' \cap vecs' <=> c \in chunks \cap vecs,
           docs[q] # NoRow, docs[q] \in Row
    PROVE  Indexed(q)' <=> Indexed(q)
<1>1. 0..Pieces[docs[q].body]-1 \subseteq Nat
  BY PiecesAssumption DEF Row
<1> QED
  BY <1>1 DEF Indexed

\* Writing a row takes the place over: the new owner has nothing indexed yet.
LEMMA UpsertTakesOver ==
    ASSUME IInv, NEW w \in Request, jobs[w].pc = "upsert",
           NEW p, p = jobs[w].dst, NEW b, b = jobs[w].body,
           UpsertDocument(p, b, w), GoTo(w, "insert")
    PROVE  TheShelf!TakeOver(p, w)
<1> DEFINE row == [state |-> "live", body |-> b, by |-> w, at |-> now]
<1>1. /\ jobs[w] \in Job /\ p \in Path /\ b \in Body
      /\ Pieces[b] \in Nat /\ Pieces[b] > 0
  BY JobFields, PiecesAssumption DEF IInv, OrdFollowsPc, Job
<1>2. /\ \A c \in chunks \cup vecs : c.doc # p =>
            (c \in chunks' <=> c \in chunks) /\ (c \in vecs' <=> c \in vecs)
      /\ chunks' \subseteq chunks
      /\ vecs' \subseteq vecs
      /\ docs' = [docs EXCEPT ![p] = row]
  BY <1>1 DEF UpsertDocument, ChunksOf
<1>3. docs \in [Path -> Row \cup {NoRow}]
  BY DEF IInv, TypeOK, StoreTypeOK
<1>4. /\ docs'[p] = row
      /\ \A q \in Path : q # p => docs'[q] = docs[q]
  BY <1>1, <1>2, <1>3
<1>5. PlaceOf(p)' = [state |-> "indexing", by |-> w]
  <2>1. [doc |-> p, by |-> w, ord |-> 0] \notin chunks'
    BY <1>2 DEF IInv, ChunkHasWriter, TookOver
  <2>2. 0 \in 0..Pieces[b]-1
    BY <1>1
  <2>3. /\ docs'[p].state = "live" /\ docs'[p].body = b /\ docs'[p].by = w
        /\ docs'[p] # NoRow
    BY <1>4
  <2>4. 0 \in 0..Pieces[docs'[p].body]-1
    BY <2>2, <2>3
  <2>5. [doc |-> p, by |-> docs'[p].by, ord |-> 0] \notin chunks' \cap vecs'
    BY <2>1, <2>3
  <2>6. ~Indexed(p)'
    BY <2>4, <2>5 DEF Indexed
  <2> QED
    BY <2>3, <2>6 DEF PlaceOf, Live
<1>6. \A q \in Path : q # p => PlaceOf(q)' = PlaceOf(q)
  <2> SUFFICES ASSUME NEW q \in Path, q # p PROVE PlaceOf(q)' = PlaceOf(q)
    OBVIOUS
  <2>1. CASE docs[q] = NoRow
    BY <1>4, <2>1 DEF PlaceOf
  <2>2. CASE docs[q] # NoRow
    <3>1. docs[q] \in Row
      BY <1>3, <2>2
    <3>2. \A i \in Nat :
            LET c == [doc |-> q, by |-> docs[q].by, ord |-> i] IN
            c \in chunks' \cap vecs' <=> c \in chunks \cap vecs
      BY <1>2
    <3> QED
      BY <1>4, <2>2, <3>1, <3>2, IndexedKept, PlaceKept
  <2> QED
    BY <2>1, <2>2
<1>7. ShelfPlace' = [ShelfPlace EXCEPT ![p] = [state |-> "indexing", by |-> w]]
  BY <1>1, <1>5, <1>6 DEF ShelfPlace
<1>8. w \notin Begun /\ Begun' = Begun \cup {w}
  <2>1. \A v \in Request : v # w => jobs'[v] = jobs[v]
    BY DEF GoTo, IInv, TypeOK
  <2>2. jobs'[w].pc = "insert"
    BY <1>1 DEF GoTo, IInv, TypeOK, Job
  <2> QED
    BY <2>1, <2>2 DEF Begun, TookOver
<1> QED
  BY <1>7, <1>8 DEF TheShelf!TakeOver, Begun

\* Writing a chunk can only complete the text of the path it is written at.
LEMMA InsertCompletes ==
    ASSUME IInv, NEW w \in Request, NEW i, NEW p \in Path,
           InsertChunk(p, w, i), Begun' = Begun
    PROVE  \/ TheShelf!StartAnswering(p)
           \/ UNCHANGED <<ShelfPlace, Begun>>
<1> DEFINE c == [doc |-> p, by |-> w, ord |-> i]
<1>2. chunks' = chunks \cup {c} /\ vecs' = vecs \cup {c} /\ docs' = docs
  BY DEF InsertChunk
<1>3. docs \in [Path -> Row \cup {NoRow}]
  BY DEF IInv, TypeOK, StoreTypeOK
<1>4. \A q \in Path : q # p => PlaceOf(q)' = PlaceOf(q)
  <2> SUFFICES ASSUME NEW q \in Path, q # p PROVE PlaceOf(q)' = PlaceOf(q)
    OBVIOUS
  <2>1. CASE docs[q] = NoRow
    BY <1>2, <2>1 DEF PlaceOf
  <2>2. CASE docs[q] # NoRow
    <3>1. docs[q] \in Row
      BY <1>3, <2>2
    <3>2. \A k \in Nat :
            LET d == [doc |-> q, by |-> docs[q].by, ord |-> k] IN
            d \in chunks' \cap vecs' <=> d \in chunks \cap vecs
      BY <1>2
    <3> QED
      BY <1>2, <2>2, <3>1, <3>2, IndexedKept, PlaceKept
  <2> QED
    BY <2>1, <2>2
<1>5. Indexed(p) => Indexed(p)'
  <2>1. docs'[p].body = docs[p].body /\ docs'[p].by = docs[p].by
    BY <1>2
  <2>2. \A d \in chunks \cap vecs : d \in chunks' \cap vecs'
    BY <1>2
  <2> QED
    BY <2>1, <2>2 DEF Indexed
<1>6. CASE Live(p) /\ ~Indexed(p) /\ Indexed(p)'
  <2>1. docs[p] # NoRow /\ docs'[p] # NoRow /\ Live(p)'
    BY <1>2, <1>6 DEF Live
  <2>2. PlaceOf(p) = [state |-> "indexing", by |-> docs[p].by]
    BY <1>6, <2>1 DEF PlaceOf
  <2>3. PlaceOf(p)' = [state |-> "answering", by |-> docs[p].by]
    BY <1>2, <1>6, <2>1 DEF PlaceOf
  <2>4. PlaceOf(p)' = [PlaceOf(p) EXCEPT !.state = "answering"]
    BY <2>2, <2>3
  <2>5. ShelfPlace' = [ShelfPlace EXCEPT ![p].state = "answering"]
    BY <1>4, <2>4 DEF ShelfPlace
  <2>6. ShelfPlace[p].state = "indexing"
    BY <2>2 DEF ShelfPlace
  <2> QED
    BY <2>5, <2>6 DEF TheShelf!StartAnswering, Begun
<1>7. CASE ~(Live(p) /\ ~Indexed(p) /\ Indexed(p)')
  <2>1. PlaceOf(p)' = PlaceOf(p)
    BY <1>2, <1>5, <1>7 DEF PlaceOf, Live
  <2>2. ShelfPlace' = ShelfPlace
    BY <1>4, <2>1 DEF ShelfPlace
  <2> QED
    BY <2>2
<1> QED
  BY <1>6, <1>7

\* Removing a document withdraws it.
LEMMA RemoveWithdraws ==
    ASSUME IInv, NEW p \in Path, RemoveDocument(p), Begun' = Begun
    PROVE  \/ TheShelf!Withdraw(p)
           \/ UNCHANGED <<ShelfPlace, Begun>>
<1>1. CASE ~Live(p)
  BY <1>1, ShelfStutter DEF RemoveDocument, storeVars
<1>2. CASE Live(p)
  <2>1. /\ vecs' = vecs \ ChunksOf(p)
        /\ chunks' = chunks \ ChunksOf(p)
        /\ docs' = [docs EXCEPT ![p].state = "removed"]
    BY <1>2 DEF RemoveDocument
  <2>2. docs \in [Path -> Row \cup {NoRow}] /\ docs[p] \in Row
    BY <1>2 DEF IInv, TypeOK, StoreTypeOK, Live
  <2>3. /\ docs'[p] = [docs[p] EXCEPT !.state = "removed"]
        /\ \A q \in Path : q # p => docs'[q] = docs[q]
    BY <2>1, <2>2
  <2>4. docs'[p].state = "removed" /\ docs'[p].by = docs[p].by /\ docs'[p] # NoRow
        /\ docs[p] # NoRow
    BY <2>2, <2>3 DEF Row
  <2>5. \A q \in Path : q # p => PlaceOf(q)' = PlaceOf(q)
    <3> SUFFICES ASSUME NEW q \in Path, q # p PROVE PlaceOf(q)' = PlaceOf(q)
      OBVIOUS
    <3>1. CASE docs[q] = NoRow
      BY <2>3, <3>1 DEF PlaceOf
    <3>2. CASE docs[q] # NoRow
      <4>1. docs[q] \in Row
        BY <2>2, <3>2
      <4>2. \A i \in Nat :
              LET c == [doc |-> q, by |-> docs[q].by, ord |-> i] IN
              c \in chunks' \cap vecs' <=> c \in chunks \cap vecs
        BY <2>1 DEF ChunksOf
      <4> QED
        BY <2>3, <3>2, <4>1, <4>2, IndexedKept, PlaceKept
    <3> QED
      BY <3>1, <3>2
  <2>6. PlaceOf(p)' = [state |-> "withdrawn", by |-> docs[p].by]
    BY <2>4 DEF PlaceOf, Live
  <2>7. PlaceOf(p) = [state |-> IF Indexed(p) THEN "answering" ELSE "indexing",
                      by |-> docs[p].by]
    BY <1>2, <2>4 DEF PlaceOf
  <2>8. PlaceOf(p)' = [PlaceOf(p) EXCEPT !.state = "withdrawn"]
    BY <2>6, <2>7
  <2>9. ShelfPlace' = [ShelfPlace EXCEPT ![p].state = "withdrawn"]
    BY <2>5, <2>8 DEF ShelfPlace
  <2>10. ShelfPlace[p].state \in {"indexing", "answering"}
    BY <2>7 DEF ShelfPlace
  <2> QED
    BY <2>9, <2>10 DEF TheShelf!Withdraw, Begun
<1> QED
  BY <1>1, <1>2

\* A save that arrives has taken nothing over, and a save keeps what it took.
LEMMA BegunKept ==
    ASSUME NEW w \in Request, \A v \in Request : v # w => jobs'[v] = jobs[v],
           TookOver(w) <=> TookOver(w)'
    PROVE  Begun' = Begun
BY DEF Begun, TookOver

LEMMA ArriveIsStutter ==
    ASSUME IInv, NEW w \in Request, Arrive(w)
    PROVE  UNCHANGED <<ShelfPlace, Begun>>
<1>1. PICK j : /\ jobs[w] = Idle
               /\ j.pc \in {"embed", "refused"}
               /\ jobs' = [jobs EXCEPT ![w] = j]
               /\ UNCHANGED storeVars
  <2>1. ASSUME NEW kind, NEW src, NEW dst, NEW b, Begin(w, kind, src, dst, b)
        PROVE  \E j : /\ jobs[w] = Idle
                      /\ j.pc \in {"embed", "refused"}
                      /\ jobs' = [jobs EXCEPT ![w] = j]
                      /\ UNCHANGED storeVars
    <3> DEFINE j == [pc |-> IF Pieces[b] = 0 THEN "refused" ELSE "embed",
                     kind |-> kind, src |-> src, dst |-> dst, body |-> b, ord |-> 0]
    <3>1. jobs[w] = Idle /\ jobs' = [jobs EXCEPT ![w] = j] /\ UNCHANGED storeVars
      BY <2>1 DEF Begin, NewJob
    <3>2. j.pc \in {"embed", "refused"}
      OBVIOUS
    <3> HIDE DEF j
    <3> QED
      BY <3>1, <3>2
  <2>2. ASSUME NEW p, NEW b, UploadRefused(w, p, b)
        PROVE  \E j : /\ jobs[w] = Idle
                      /\ j.pc \in {"embed", "refused"}
                      /\ jobs' = [jobs EXCEPT ![w] = j]
                      /\ UNCHANGED storeVars
    BY <2>2 DEF UploadRefused, NewJob
  <2> QED
    BY <2>1, <2>2 DEF Arrive, Upload, UploadUnchecked, Ingest, Update
<1>2. /\ jobs'[w] = j
      /\ \A v \in Request : v # w => jobs'[v] = jobs[v]
  BY <1>1 DEF IInv, TypeOK
<1>3. ~TookOver(w) /\ ~TookOver(w)'
  BY <1>1, <1>2 DEF TookOver
<1> QED
  BY <1>1, <1>2, <1>3, BegunKept, ShelfStutter DEF storeVars

LEMMA GoToKeepsBegun ==
    ASSUME IInv, NEW w \in Request, NEW pc, GoTo(w, pc), jobs[w].pc # "idle",
           TookOver(w) <=>
              pc \in {"insert", "drop", "done", "failed", "crashed"}
    PROVE  Begun' = Begun
<1>1. jobs[w] \in Job
  BY JobFields DEF IInv
<1>2. /\ jobs'[w] = [jobs[w] EXCEPT !.pc = pc]
      /\ \A v \in Request : v # w => jobs'[v] = jobs[v]
  BY DEF GoTo, IInv, TypeOK
<1>3. jobs'[w].pc = pc
  BY <1>1, <1>2 DEF Job
<1> QED
  BY <1>2, <1>3, BegunKept DEF TookOver

LEMMA DieIsStutter ==
    ASSUME IInv, NEW process \in Process, Die(process)
    PROVE  UNCHANGED <<ShelfPlace, Begun>>
<1>1. ASSUME NEW v \in Request
      PROVE  TookOver(v)' <=> TookOver(v)
  <2>1. CASE jobs[v].pc \in InFlight /\ jobs[v].kind \in process
    <3>1. jobs[v] \in Job
      BY <2>1, JobFields DEF IInv, InFlight
    <3>2. CASE jobs[v].pc \in {"embed", "upsert"}
      <4>1. jobs'[v] = [jobs[v] EXCEPT !.pc = "refused"]
        BY <2>1, <3>2 DEF Die, RunsIn
      <4>2. jobs'[v].pc = "refused"
        BY <3>1, <4>1 DEF Job
      <4> QED
        BY <3>2, <4>2 DEF TookOver
    <3>3. CASE jobs[v].pc \notin {"embed", "upsert"}
      <4>1. jobs'[v] = [jobs[v] EXCEPT !.pc = "crashed"]
        BY <2>1, <3>3 DEF Die, RunsIn
      <4>2. jobs'[v].pc = "crashed"
        BY <3>1, <4>1 DEF Job
      <4> QED
        BY <2>1, <3>3, <4>2 DEF TookOver, InFlight
    <3> QED
      BY <3>2, <3>3
  <2>2. CASE ~(jobs[v].pc \in InFlight /\ jobs[v].kind \in process)
    BY <2>2 DEF Die, RunsIn, TookOver
  <2> QED
    BY <2>1, <2>2
<1>2. Begun' = Begun
  BY <1>1 DEF Begun
<1> QED
  BY <1>2, ShelfStutter DEF Die, RunsIn, storeVars

\* A step of a running save is a step of the shelf or a stutter.
LEMMA WorkRefines ==
    ASSUME IInv, NEW w \in Request, Work(w)
    PROVE  TheShelf!ShelfNext \/ UNCHANGED <<ShelfPlace, Begun>>
<1>1. CASE Embed(w)
  <2>1. PICK pc \in {"upsert", "refused"} : GoTo(w, pc)
    BY <1>1 DEF Embed
  <2>2. Begun' = Begun
    BY <1>1, <2>1, GoToKeepsBegun DEF Embed, TookOver
  <2> QED
    BY <1>1, <2>2, ShelfStutter DEF Embed, storeVars
<1>2. CASE Upsert(w)
  <2>1. CASE UpsertDocument(jobs[w].dst, jobs[w].body, w) /\ GoTo(w, "insert")
    <3> DEFINE p == jobs[w].dst
    <3>1. p \in Path
      BY <1>2, JobFields DEF Upsert, IInv, Job
    <3>2. TheShelf!TakeOver(p, w)
      BY <1>2, <2>1, UpsertTakesOver DEF Upsert
    <3> QED
      BY <3>1, <3>2 DEF TheShelf!ShelfNext
  <2>2. CASE GoTo(w, "refused") /\ UNCHANGED storeVars
    <3>1. Begun' = Begun
      BY <1>2, <2>2, GoToKeepsBegun DEF Upsert, TookOver
    <3> QED
      BY <2>2, <3>1, ShelfStutter DEF storeVars
  <2> QED
    BY <1>2, <2>1, <2>2 DEF Upsert
<1>3. CASE Insert(w)
  <2>1. jobs[w] \in Job /\ jobs[w].dst \in Path
    BY <1>3, JobFields DEF Insert, IInv, Job
  <2>2. CASE GoTo(w, "failed") /\ UNCHANGED storeVars
    <3>1. Begun' = Begun
      BY <1>3, <2>2, GoToKeepsBegun DEF Insert, TookOver
    <3> QED
      BY <2>2, <3>1, ShelfStutter DEF storeVars
  <2>3. CASE ~(GoTo(w, "failed") /\ UNCHANGED storeVars)
    <3> DEFINE next == IF jobs[w].ord + 1 = Pieces[jobs[w].body]
                       THEN AfterIngest(jobs[w]) ELSE "insert"
    <3>1. /\ InsertChunk(jobs[w].dst, w, jobs[w].ord)
          /\ jobs' = [jobs EXCEPT ![w].ord = jobs[w].ord + 1, ![w].pc = next]
      BY <1>3, <2>3 DEF Insert
    <3>2. next \in {"insert", "drop", "done"}
      BY DEF AfterIngest
    <3> HIDE DEF next
    <3>3. /\ jobs'[w].pc = next
          /\ \A v \in Request : v # w => jobs'[v] = jobs[v]
      BY <2>1, <3>1 DEF IInv, TypeOK, Job
    <3>4. Begun' = Begun
      BY <1>3, <3>2, <3>3, BegunKept DEF Insert, TookOver
    <3>5. \/ TheShelf!StartAnswering(jobs[w].dst)
          \/ UNCHANGED <<ShelfPlace, Begun>>
      BY <2>1, <3>1, <3>4, InsertCompletes
    <3> QED
      BY <2>1, <3>5 DEF TheShelf!ShelfNext
  <2> QED
    BY <2>2, <2>3
<1>4. CASE DropSource(w)
  <2>1. jobs[w].pc = "drop" /\ jobs[w].src \in Path
    BY <1>4, JobFields DEF DropSource, IInv, Job
  <2>2. PICK pc \in {"done", "failed"} : GoTo(w, pc)
    BY <1>4 DEF DropSource
  <2>3. Begun' = Begun
    BY <2>1, <2>2, GoToKeepsBegun DEF TookOver
  <2>4. CASE RemoveDocument(jobs[w].src)
    <3>1. TheShelf!Withdraw(jobs[w].src) \/ UNCHANGED <<ShelfPlace, Begun>>
      BY <2>1, <2>3, <2>4, RemoveWithdraws
    <3> QED
      BY <2>1, <3>1 DEF TheShelf!ShelfNext
  <2>5. CASE UNCHANGED storeVars
    BY <2>3, <2>5, ShelfStutter DEF storeVars
  <2> QED
    BY <1>4, <2>4, <2>5 DEF DropSource
<1> QED
  BY <1>1, <1>2, <1>3, <1>4 DEF Work

LEMMA ShelfStep ==
    IInv /\ [Next]_vars => [TheShelf!ShelfNext]_<<ShelfPlace, Begun>>
<1> SUFFICES ASSUME IInv, [Next]_vars
             PROVE  TheShelf!ShelfNext \/ UNCHANGED <<ShelfPlace, Begun>>
  OBVIOUS
<1>1. ASSUME UNCHANGED jobs
      PROVE  Begun' = Begun
  BY <1>1 DEF Begun, TookOver
<1>2. ASSUME NEW w \in Request, Arrive(w)
      PROVE  UNCHANGED <<ShelfPlace, Begun>>
  BY <1>2, ArriveIsStutter
<1>3. ASSUME NEW w \in Request, Work(w)
      PROVE  TheShelf!ShelfNext \/ UNCHANGED <<ShelfPlace, Begun>>
  BY <1>3, WorkRefines
<1>4. ASSUME NEW p \in Path, Remove(p)
      PROVE  TheShelf!ShelfNext \/ UNCHANGED <<ShelfPlace, Begun>>
  <2>1. TheShelf!Withdraw(p) \/ UNCHANGED <<ShelfPlace, Begun>>
    BY <1>1, <1>4, RemoveWithdraws DEF Remove
  <2> QED
    BY <2>1 DEF TheShelf!ShelfNext
<1>5. ASSUME NEW process \in Process, Crash(process)
      PROVE  UNCHANGED <<ShelfPlace, Begun>>
  BY <1>5, DieIsStutter DEF Crash
<1>6. CASE Tick /\ UNCHANGED jobs
  BY <1>1, <1>6, ShelfStutter DEF Tick
<1>7. CASE UNCHANGED vars
  BY <1>1, <1>7, ShelfStutter DEF vars
<1> QED
  BY <1>2, <1>3, <1>4, <1>5, <1>6, <1>7 DEF Next

LEMMA ShelfStart == Init => TheShelf!ShelfInit
BY DEF Init, StoreInit, TheShelf!ShelfInit, TheShelf!Empty, ShelfPlace, PlaceOf, TookOver

\* The library implements the shelf: whatever saves, removals, failures and
\* crashes are interleaved, a text that answers goes on answering whole until
\* a save takes its place over or a removal withdraws it, and no save takes
\* over twice (upload.go, remove.go, ingest in rag.go).
THEOREM LibraryImplementsShelf == Spec => ImplementsShelf
BY ShelfStart, ShelfStep, Invariance, PTL
   DEF Spec, ImplementsShelf, TheShelf!ShelfSpec, TheShelf!shelfVars, Begun

\* What MoveDropsLast says of a step.
DropsLast ==
    \A w \in Request, src, dst \in Path :
        /\ jobs[w] # Idle /\ jobs[w].src = src /\ jobs[w].dst = dst /\ src # dst
        /\ Live(src) /\ ~Live(src)'
        /\ jobs'[w] # jobs[w]
        => /\ TookOver(w)
           /\ Live(dst) /\ docs[dst].by = w => Indexed(dst)

LEMMA DropsLastStep == IInv /\ Next => DropsLast
<1> SUFFICES ASSUME IInv, Next, NEW w \in Request, NEW src \in Path, NEW dst \in Path,
                    jobs[w] # Idle, jobs[w].src = src, jobs[w].dst = dst,
                    src # dst, Live(src), ~Live(src)', jobs'[w] # jobs[w]
             PROVE  /\ TookOver(w)
                    /\ Live(dst) /\ docs[dst].by = w => Indexed(dst)
  BY DEF DropsLast
<1>1. docs' # docs
  BY DEF Live
<1>2. ~ \E v \in Request : Arrive(v)
  BY <1>1 DEF Arrive, Upload, UploadRefused, UploadUnchecked, Ingest, Update,
              Begin, storeVars
<1>3. jobs' # jobs
  OBVIOUS
<1>4. PICK v \in Request : Work(v)
  BY <1>1, <1>2, <1>3 DEF Next, Remove, Crash, Die, storeVars
<1>5. DropSource(v) \/ Upsert(v)
  BY <1>1, <1>4 DEF Work, Embed, Insert, InsertChunk, storeVars
<1>6. ~Upsert(v)
  <2> SUFFICES ASSUME Upsert(v) PROVE FALSE
    OBVIOUS
  <2>1. UpsertDocument(jobs[v].dst, jobs[v].body, v)
    BY <1>1 DEF Upsert, storeVars
  <2> DEFINE row == [state |-> "live", body |-> jobs[v].body, by |-> v, at |-> now]
  <2>2. docs' = [docs EXCEPT ![jobs[v].dst] = row]
    BY <2>1 DEF UpsertDocument
  <2>3. row.state = "live"
    OBVIOUS
  <2> HIDE DEF row
  <2>4. docs'[src] = row \/ docs'[src] = docs[src]
    BY <2>2 DEF IInv, TypeOK, StoreTypeOK
  <2> QED
    BY <2>3, <2>4 DEF Live
<1>7. v = w /\ jobs[w].pc = "drop"
  BY <1>5, <1>6 DEF DropSource, GoTo, IInv, TypeOK
<1> QED
  BY <1>7, IngestedAreIndexed DEF TookOver, SavedIsIndexed, Ingested

\* No step of a save makes the source of the save disappear before its
\* destination holds the whole text (upload.go Update).
THEOREM MoveDropsLastCorrect == Spec => MoveDropsLast
<1>1. IInv /\ [Next]_vars => [DropsLast]_vars
  BY DropsLastStep
<1> QED
  BY <1>1, Invariance, PTL DEF Spec, MoveDropsLast, DropsLast
===============================================================================
