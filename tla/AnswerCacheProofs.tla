--------------------------- MODULE AnswerCacheProofs ---------------------------
(***************************************************************************)
(* Proofs about AnswerCache: the cache, the questions that read and fill   *)
(* it and the library under them, for any askers, options, questions,      *)
(* paths, texts and requests, for any cap and every choice of Faults.      *)
(***************************************************************************)
EXTENDS AnswerCache, LibraryProofs, FiniteSetTheorems

USE DEF Idle, NoRow, NoAnswer, NoAsk

(***************************************************************************)
(* What a question and a stored answer are. A signature and the corpus it  *)
(* stands for may be anything here: no proof looks into a signature.       *)
(***************************************************************************)
AskOf(sig, seen) ==
    [pc: Asking, option: Option, question: Question, cacheable: BOOLEAN,
     sig: {sig}, seen: {seen}, lately: SUBSET Chunk, got: SUBSET Chunk]

AsksTyped ==
    /\ asks = [a \in Asker |-> asks[a]]
    /\ \A a \in Asker : asks[a].pc \in Asking \cup Ends \cup {"none"}
    /\ \A a \in Asker : asks[a].pc \in Asking => asks[a] \in AskOf(asks[a].sig, asks[a].seen)
    /\ \A a \in Asker : asks[a].pc = "none" => asks[a] = NoAsk

Answer(k) ==
    [from: SUBSET Chunk, sig: {cache[k].sig}, used: Nat, under: {cache[k].under}]

CacheTyped ==
    /\ cache = [k \in Key |-> cache[k]]
    /\ \A k \in Held : cache[k] \in Answer(k)

(***************************************************************************)
(* The corpus never comes back. A row of documents never returns to what   *)
(* it was: no row is ever dropped, a removed row waits for another save,   *)
(* and no save takes over twice. While no row changes, chunks are only     *)
(* added. So a corpus that was read at some moment is the present one, or  *)
(* lies behind it for good.                                                *)
(***************************************************************************)
Superseded(row, p) ==
    /\ docs[p] # NoRow
    /\ \/ row = NoRow
       \/ row.by \in Request /\ row.by # docs[p].by /\ TookOver(row.by)
       \/ row.by = docs[p].by /\ row.state = "live" /\ docs[p].state = "removed"

Since(corpus) ==
    \/ corpus[1] = docs /\ corpus[2] \subseteq chunks
    \/ \E p \in Path : Superseded(corpus[1][p], p)

(***************************************************************************)
(* The inductive invariant. made holds what answers are made of: for each  *)
(* question that has read its rows and may be stored, and each stored      *)
(* answer, the corpus at its signature and the chunks the model is shown.  *)
(* If that corpus is the present one the chunks are all there still; and a *)
(* question about to look its key up has seen the chunks of every answer   *)
(* made under its own corpus.                                              *)
(***************************************************************************)
Shown == {"stitch", "chat", "write"}

Writers == {a \in Asker : asks[a].pc \in Shown /\ asks[a].cacheable}

Made ==
    {<<asks[a].seen, asks[a].got>> : a \in Writers}
        \cup {<<cache[k].under, cache[k].from>> : k \in Held}

InReach(option, rows) == \A c \in rows : c.doc \in Sources[option]

AskOK(a) ==
    asks[a].pc \in Asking =>
        /\ InReach(asks[a].option, asks[a].got)
        /\ asks[a].pc \in {"sig", "look", "write", "prune"} => asks[a].cacheable
        /\ asks[a].cacheable /\ asks[a].pc # "sig" => Since(asks[a].seen)
        /\ asks[a].pc = "look" => chunks \subseteq asks[a].lately

MadeOK ==
    \A m \in Made : Since(m[1]) /\ (m[1] = Corpus => m[2] \subseteq chunks)

ReadersOK ==
    \A a \in Asker, m \in Made :
        asks[a].pc = "look" /\ m[1] = asks[a].seen => m[2] \subseteq asks[a].lately

CacheInv ==
    /\ IInv
    /\ AsksTyped
    /\ CacheTyped
    /\ \A a \in Asker : AskOK(a)
    /\ \A k \in Held : InReach(k[1], cache[k].from)
    /\ MadeOK
    /\ ReadersOK

-------------------------------------------------------------------------------
(***************************************************************************)
(* The library under the cache: what a step of it does to the corpus.      *)
(***************************************************************************)
\* A save that has taken its place over has done so for good.
TakesStay == \A w \in Request : TookOver(w) => TookOver(w)'

\* Chunks are added, or a row is superseded.
CorpusMoves ==
    \/ docs' = docs /\ chunks \subseteq chunks'
    \/ \E p \in Path :
          /\ docs[p] # NoRow => docs[p].by \in Request /\ TookOver(docs[p].by)
          /\ docs'[p] # NoRow
          /\ \/ docs[p] = NoRow
             \/ docs[p] # NoRow /\ ~TookOver(docs'[p].by)
             \/ docs'[p].by = docs[p].by /\ docs[p].state = "live" /\ docs'[p].state = "removed"
          /\ \A q \in Path : q # p => docs'[q] = docs[q]

LEMMA RemoveMovesCorpus ==
    ASSUME IInv, NEW p \in Path, RemoveDocument(p)
    PROVE  CorpusMoves
<1>1. CASE ~Live(p)
  BY <1>1 DEF RemoveDocument, storeVars, CorpusMoves
<1>2. CASE Live(p)
  <2>1. docs' = [docs EXCEPT ![p].state = "removed"]
    BY <1>2 DEF RemoveDocument
  <2>2. docs \in [Path -> Row \cup {NoRow}] /\ docs[p] \in Row /\ docs[p] # NoRow
    BY <1>2 DEF IInv, TypeOK, StoreTypeOK, Live
  <2>3. /\ docs'[p] = [docs[p] EXCEPT !.state = "removed"]
        /\ \A q \in Path : q # p => docs'[q] = docs[q]
    BY <2>1, <2>2
  <2>4. /\ docs'[p].state = "removed" /\ docs'[p].by = docs[p].by /\ docs'[p] # NoRow
        /\ docs[p].by \in Request
    BY <2>2, <2>3 DEF Row
  <2>5. TookOver(docs[p].by) /\ docs[p].state = "live"
    BY <1>2, <2>2 DEF IInv, RowHasOwner, Live
  <2> QED
    BY <2>3, <2>4, <2>5 DEF CorpusMoves
<1> QED
  BY <1>1, <1>2

LEMMA WorkMovesCorpus ==
    ASSUME IInv, NEW w \in Request, Work(w)
    PROVE  TakesStay /\ CorpusMoves
<1>1. jobs[w] \in Job
  BY JobFields DEF Work, Embed, Upsert, Insert, DropSource, IInv
<1>2. \A v \in Request : v # w => jobs'[v] = jobs[v]
  BY DEF Work, Embed, Upsert, Insert, DropSource, GoTo, IInv, TypeOK
<1>3. ASSUME NEW pc, GoTo(w, pc)
      PROVE  jobs'[w].pc = pc
  BY <1>1, <1>3 DEF GoTo, IInv, TypeOK, Job
<1>4. CASE Embed(w)
  BY <1>2, <1>4 DEF Embed, TakesStay, TookOver, CorpusMoves, storeVars
<1>5. CASE Upsert(w)
  <2>1. TakesStay
    BY <1>2, <1>5 DEF Upsert, TakesStay, TookOver
  <2>2. CASE UNCHANGED storeVars
    BY <2>1, <2>2 DEF CorpusMoves, storeVars
  <2>3. CASE UpsertDocument(jobs[w].dst, jobs[w].body, w)
    <3> DEFINE p == jobs[w].dst
               row == [state |-> "live", body |-> jobs[w].body, by |-> w, at |-> now]
    <3>1. docs' = [docs EXCEPT ![p] = row]
      BY <2>3 DEF UpsertDocument
    <3>2. row.by = w /\ row # NoRow
      OBVIOUS
    <3> HIDE DEF row
    <3>3. p \in Path /\ docs'[p] = row /\ \A q \in Path : q # p => docs'[q] = docs[q]
      BY <1>1, <3>1 DEF Job, IInv, TypeOK, StoreTypeOK
    <3>4. docs[p] # NoRow => docs[p].by \in Request /\ TookOver(docs[p].by)
      BY <3>3 DEF IInv, RowHasOwner, TypeOK, StoreTypeOK, Row
    <3>5. ~TookOver(w)
      BY <1>5 DEF Upsert, TookOver
    <3> QED
      BY <2>1, <3>2, <3>3, <3>4, <3>5 DEF CorpusMoves
  <2> QED
    BY <1>5, <2>2, <2>3 DEF Upsert
<1>6. CASE Insert(w)
  BY <1>2, <1>6, <1>1 DEF Insert, InsertChunk, AfterIngest, GoTo, TakesStay, TookOver,
       CorpusMoves, storeVars, IInv, TypeOK, Job
<1>7. CASE DropSource(w)
  <2>1. TakesStay
    BY <1>2, <1>3, <1>7 DEF DropSource, TakesStay, TookOver
  <2> QED
    BY <1>1, <1>7, <2>1, RemoveMovesCorpus DEF DropSource, CorpusMoves, storeVars, Job
<1> QED
  BY <1>4, <1>5, <1>6, <1>7 DEF Work

LEMMA NextMovesCorpus ==
    ASSUME IInv, [Next]_vars
    PROVE  TakesStay /\ CorpusMoves
<1>1. ASSUME UNCHANGED jobs
      PROVE  TakesStay
  BY <1>1 DEF TakesStay, TookOver
<1>2. ASSUME UNCHANGED storeVars
      PROVE  CorpusMoves
  BY <1>2 DEF CorpusMoves, storeVars
<1>3. ASSUME NEW w \in Request, Arrive(w)
      PROVE  TakesStay /\ CorpusMoves
  <2>1. UNCHANGED storeVars /\ jobs[w] = Idle /\ \A v \in Request : v # w => jobs'[v] = jobs[v]
    BY <1>3 DEF Arrive, Upload, UploadRefused, UploadUnchecked, Ingest, Update, Begin,
                IInv, TypeOK
  <2>2. TakesStay
    BY <2>1 DEF TakesStay, TookOver
  <2> QED
    BY <1>2, <2>1, <2>2
<1>4. ASSUME NEW p \in Path, Remove(p)
      PROVE  TakesStay /\ CorpusMoves
  BY <1>1, <1>4, RemoveMovesCorpus DEF Remove
<1>5. ASSUME NEW process \in Process, Crash(process)
      PROVE  TakesStay /\ CorpusMoves
  <2>1. TakesStay
    BY <1>5, DieIsStutter DEF Crash, TakesStay, Begun
  <2> QED
    BY <1>2, <1>5, <2>1 DEF Crash, Die
<1>6. CASE Tick /\ UNCHANGED jobs
  BY <1>1, <1>6 DEF Tick, CorpusMoves
<1>7. CASE UNCHANGED vars
  BY <1>1, <1>2, <1>7 DEF vars, storeVars
<1> QED
  BY <1>3, <1>4, <1>5, <1>6, <1>7, WorkMovesCorpus DEF Next

\* A superseded row stays so.
LEMMA SupersededStays ==
    ASSUME TakesStay, CorpusMoves, NEW p \in Path, NEW row, Superseded(row, p)
    PROVE  Superseded(row, p)'
<1>1. CASE docs'[p] = docs[p]
  BY <1>1 DEF Superseded, TakesStay, TookOver
<1>2. CASE docs'[p] # docs[p]
  <2>1. /\ docs[p] # NoRow /\ docs[p].by \in Request /\ TookOver(docs[p].by)
        /\ docs'[p] # NoRow
        /\ \/ ~TookOver(docs'[p].by)
           \/ docs'[p].by = docs[p].by /\ docs[p].state = "live" /\ docs'[p].state = "removed"
    BY <1>2 DEF CorpusMoves, Superseded
  <2> QED
    BY <2>1 DEF Superseded, TakesStay, TookOver
<1> QED
  BY <1>1, <1>2

\* A row that changes is superseded by what it becomes.
LEMMA MovedIsSuperseded ==
    ASSUME TakesStay, CorpusMoves, docs' # docs, NEW d, d = docs
    PROVE  \E p \in Path : Superseded(d[p], p)'
<1>1. PICK p \in Path :
          /\ docs[p] # NoRow => docs[p].by \in Request /\ TookOver(docs[p].by)
          /\ docs'[p] # NoRow
          /\ \/ docs[p] = NoRow
             \/ docs[p] # NoRow /\ ~TookOver(docs'[p].by)
             \/ docs'[p].by = docs[p].by /\ docs[p].state = "live" /\ docs'[p].state = "removed"
  BY DEF CorpusMoves
<1>2. d[p] # NoRow => d[p].by \in Request /\ TookOver(d[p].by) /\ TookOver(d[p].by)'
  BY <1>1 DEF TakesStay
<1> QED
  BY <1>1, <1>2 DEF Superseded

\* What a step leaves behind it never comes back: a corpus that was read stays
\* present or past, and is the present one only if it was.
LEMMA NeverAgain ==
    ASSUME TakesStay, CorpusMoves, NEW corpus, Since(corpus)
    PROVE  /\ Since(corpus)'
           /\ corpus = Corpus' => corpus = Corpus
<1>1. ASSUME NEW p \in Path, Superseded(corpus[1][p], p)'
      PROVE  Since(corpus)' /\ corpus # Corpus'
  <2>1. corpus[1][p] # docs'[p]
    BY <1>1 DEF Superseded
  <2> QED
    BY <1>1, <2>1 DEF Since, Corpus
<1>2. CASE \E p \in Path : Superseded(corpus[1][p], p)
  BY <1>1, <1>2, SupersededStays
<1>3. CASE corpus[1] = docs /\ corpus[2] \subseteq chunks
  <2>1. CASE docs' = docs /\ chunks \subseteq chunks'
    BY <1>3, <2>1 DEF Since, Corpus
  <2>2. CASE docs' # docs
    <3> DEFINE d == corpus[1]
    <3>1. d = docs
      BY <1>3
    <3> HIDE DEF d
    <3>2. \E p \in Path : Superseded(d[p], p)'
      BY <2>2, <3>1, MovedIsSuperseded
    <3> QED
      BY <1>1, <3>2 DEF d
  <2> QED
    BY <2>1, <2>2 DEF CorpusMoves
<1> QED
  BY <1>2, <1>3 DEF Since

\* A server that dies with no save to take down changes no table.
LEMMA DieUnder ==
    ASSUME IInv, Die(Server)
    PROVE  [Next]_vars
<1>1. CASE \E w \in Request : RunsIn(w, Server)
  BY <1>1 DEF Crash, Next, Process
<1>2. CASE ~ \E w \in Request : RunsIn(w, Server)
  <2>1. jobs' = [w \in Request |-> jobs[w]]
    BY <1>2 DEF Die
  <2> QED
    BY <2>1 DEF Die, storeVars, vars, IInv, TypeOK
<1> QED
  BY <1>1, <1>2

LEMMA LibraryUnder ==
    ASSUME LibraryMoves
    PROVE  Next
BY DEF LibraryMoves, Save, Arrive, Next, Process

-------------------------------------------------------------------------------
(***************************************************************************)
(* A step of one question: the library stands still, the other questions   *)
(* too, and what is newly made is made of chunks that are there and of     *)
(* what was made under the same corpus before.                             *)
(***************************************************************************)
MadeSoundly ==
    \A m \in Made' :
        m \in Made \/ /\ Since(m[1])
                      /\ \E got : <<m[1], got>> \in Made \cup {<<m[1], {}>>}
                                  /\ m[2] \subseteq got \cup chunks

LEMMA QuestionStep ==
    ASSUME CacheInv, UNCHANGED vars, NEW a \in Asker,
           AsksTyped', CacheTyped', AskOK(a)', MadeSoundly,
           \A b \in Asker \ {a} : asks'[b] = asks[b],
           asks'[a].pc = "look" => asks'[a].seen = Corpus /\ asks'[a].lately = chunks,
           \A k \in Held' : InReach(k[1], cache'[k].from)
    PROVE  CacheInv'
<1>1. IInv'
  BY NextIInv DEF CacheInv
<1>2. UNCHANGED <<docs, chunks, jobs>> /\ Corpus' = Corpus
  BY DEF vars, Corpus
<1>3. \A corpus : Since(corpus)' <=> Since(corpus)
  BY <1>2 DEF Since, Superseded, TookOver
<1>4. \A b \in Asker : AskOK(b)'
  BY <1>2, <1>3 DEF AskOK, CacheInv, InReach
<1>5. ASSUME NEW m \in Made'
      PROVE  Since(m[1])' /\ (m[1] = Corpus' => m[2] \subseteq chunks')
  <2>1. CASE m \in Made
    BY <1>2, <1>3, <2>1 DEF CacheInv, MadeOK
  <2>2. CASE m \notin Made
    <3>1. PICK got : /\ <<m[1], got>> \in Made \cup {<<m[1], {}>>}
                     /\ m[2] \subseteq got \cup chunks
      BY <2>2 DEF MadeSoundly
    <3>2. m[1] = Corpus => got \subseteq chunks
      BY <3>1 DEF CacheInv, MadeOK
    <3> QED
      BY <1>2, <1>3, <2>2, <3>1, <3>2 DEF MadeSoundly
  <2> QED
    BY <2>1, <2>2
<1>6. ASSUME NEW b \in Asker, NEW m \in Made', asks'[b].pc = "look", m[1] = asks'[b].seen
      PROVE  m[2] \subseteq asks'[b].lately
  <2>1. CASE b = a
    BY <1>2, <1>5, <1>6, <2>1
  <2>2. CASE b # a
    <3>1. asks'[b] = asks[b] /\ chunks \subseteq asks[b].lately
      BY <1>6, <2>2 DEF CacheInv, AskOK, Asking
    <3>2. CASE m \in Made
      BY <1>6, <3>1, <3>2 DEF CacheInv, ReadersOK
    <3>3. CASE m \notin Made
      <4>1. PICK got : /\ <<m[1], got>> \in Made \cup {<<m[1], {}>>}
                       /\ m[2] \subseteq got \cup chunks
        BY <3>3 DEF MadeSoundly
      <4>2. got \subseteq asks[b].lately
        BY <1>6, <3>1, <4>1 DEF CacheInv, ReadersOK
      <4> QED
        BY <3>1, <4>1, <4>2
    <3> QED
      BY <3>2, <3>3
  <2> QED
    BY <2>1, <2>2
<1> QED
  BY <1>1, <1>4, <1>5, <1>6 DEF CacheInv, MadeOK, ReadersOK

\* A question that goes on, with what it has read.
LEMMA GoesOn ==
    ASSUME CacheInv, UNCHANGED <<vars, cache>>, NEW a \in Asker,
           NEW sig, NEW seen, NEW ask \in AskOf(sig, seen),
           asks' = [asks EXCEPT ![a] = ask],
           InReach(ask.option, ask.got),
           ask.pc \in {"sig", "look", "write", "prune"} => ask.cacheable,
           ask.cacheable /\ ask.pc # "sig" => Since(ask.seen),
           ask.pc = "look" => ask.seen = Corpus /\ ask.lately = chunks,
           ask.pc \in Shown /\ ask.cacheable =>
              \E got : /\ <<ask.seen, got>> \in Made \cup {<<ask.seen, {}>>}
                       /\ ask.got \subseteq got \cup chunks
    PROVE  CacheInv'
<1>1. /\ asks'[a] = ask
      /\ \A b \in Asker \ {a} : asks'[b] = asks[b]
      /\ asks' = [b \in Asker |-> asks'[b]]
  BY DEF CacheInv, AsksTyped
<1>2. ask.sig = sig /\ ask.seen = seen /\ ask.pc \in Asking
  BY DEF AskOf
<1>3. AsksTyped'
  BY <1>1, <1>2 DEF CacheInv, AsksTyped, Asking
<1>4. CacheTyped' /\ Held' = Held /\ \A k \in Held' : InReach(k[1], cache'[k].from)
  BY DEF CacheInv, CacheTyped, Held, InReach, Answer
<1>5. UNCHANGED <<docs, chunks, jobs>>
  BY DEF vars
<1>6. \A corpus : Since(corpus)' <=> Since(corpus)
  BY <1>5 DEF Since, Superseded, TookOver
<1>7. AskOK(a)'
  BY <1>1, <1>5, <1>6 DEF AskOK, InReach
<1>8. Writers' \subseteq Writers \cup {a}
  BY <1>1 DEF Writers
<1>9. ASSUME NEW m \in Made', m \notin Made
      PROVE  a \in Writers' /\ m = <<ask.seen, ask.got>>
  BY <1>1, <1>4, <1>8, <1>9 DEF Made, Writers
<1>10. MadeSoundly
  <2> SUFFICES ASSUME NEW m \in Made', m \notin Made
               PROVE  /\ Since(m[1])
                      /\ \E got : <<m[1], got>> \in Made \cup {<<m[1], {}>>}
                                  /\ m[2] \subseteq got \cup chunks
    BY DEF MadeSoundly
  <2>1. m[1] = ask.seen /\ m[2] = ask.got
    BY <1>9
  <2>2. ask.pc \in Shown /\ ask.cacheable
    BY <1>1, <1>9 DEF Writers
  <2> QED
    BY <2>1, <2>2 DEF Shown
<1> QED
  BY <1>1, <1>3, <1>4, <1>7, <1>10, QuestionStep

\* A question that ends, with some of the stored answers gone or used.
LEMMA ComesToAnEnd ==
    ASSUME CacheInv, UNCHANGED vars, NEW a \in Asker, NEW pc \in Ends, End(a, pc),
           CacheTyped', Held' \subseteq Held,
           \A k \in Held' : cache'[k].under = cache[k].under /\ cache'[k].from = cache[k].from
    PROVE  CacheInv'
<1> DEFINE ask == [pc |-> pc]
<1>1. ask.pc = pc /\ asks' = [asks EXCEPT ![a] = ask]
  BY DEF End
<1> HIDE DEF ask
<1>2. /\ asks'[a] = ask
      /\ \A b \in Asker \ {a} : asks'[b] = asks[b]
      /\ asks' = [b \in Asker |-> asks'[b]]
  BY <1>1 DEF CacheInv, AsksTyped
<1>3. pc \notin Asking /\ pc # "none" /\ pc # "look"
  BY DEF Ends, Asking
<1>4. AsksTyped'
  BY <1>1, <1>2, <1>3 DEF CacheInv, AsksTyped
<1>5. AskOK(a)'
  BY <1>1, <1>2, <1>3 DEF AskOK
<1>6. \A k \in Held' : InReach(k[1], cache'[k].from)
  BY DEF CacheInv, InReach
<1>7. Writers' \subseteq Writers /\ \A b \in Writers' : asks'[b] = asks[b]
  BY <1>1, <1>2, <1>3 DEF Writers, Shown, Asking
<1>8. Made' \subseteq Made
  BY <1>7 DEF Made
<1> QED
  BY <1>1, <1>2, <1>3, <1>4, <1>5, <1>6, <1>8, QuestionStep DEF MadeSoundly

LEMMA CacheStill ==
    ASSUME CacheInv, UNCHANGED cache
    PROVE  /\ CacheTyped' /\ Held' = Held
           /\ \A k \in Held' : cache'[k].under = cache[k].under /\ cache'[k].from = cache[k].from
BY DEF CacheInv, CacheTyped, Held, Answer

\* What is known of a question that has not ended.
LEMMA AskFields ==
    ASSUME CacheInv, NEW a \in Asker, asks[a].pc \in Asking
    PROVE  /\ asks[a] \in AskOf(asks[a].sig, asks[a].seen)
           /\ asks[a].option \in Option /\ asks[a].question \in Question
           /\ asks[a].cacheable \in BOOLEAN
           /\ asks[a].got \in SUBSET Chunk /\ asks[a].lately \in SUBSET Chunk
           /\ KeyOf(a) \in Key
BY DEF CacheInv, AsksTyped, AskOf, KeyOf, cacheKey, Key

\* A question that moves on has what it had.
Later(ask, pc, got, lately) == [ask EXCEPT !.pc = pc, !.got = got, !.lately = lately]

LEMMA MovesOn ==
    ASSUME NEW sig, NEW seen, NEW ask \in AskOf(sig, seen), NEW pc \in Asking,
           NEW got \in SUBSET Chunk, NEW lately \in SUBSET Chunk
    PROVE  LET later == Later(ask, pc, got, lately) IN
           /\ later \in AskOf(sig, seen)
           /\ later.pc = pc /\ later.got = got /\ later.lately = lately
           /\ later.option = ask.option /\ later.question = ask.question
           /\ later.cacheable = ask.cacheable /\ later.seen = ask.seen
<1> DEFINE first == [ask EXCEPT !.pc = pc]
           second == [first EXCEPT !.got = got]
           third == [second EXCEPT !.lately = lately]
<1>1. /\ first \in AskOf(sig, seen) /\ first.pc = pc
      /\ first.option = ask.option /\ first.question = ask.question
      /\ first.cacheable = ask.cacheable /\ first.seen = ask.seen
  BY DEF AskOf
<1> HIDE DEF first
<1>2. /\ second \in AskOf(sig, seen) /\ second.pc = pc /\ second.got = got
      /\ second.option = ask.option /\ second.question = ask.question
      /\ second.cacheable = ask.cacheable /\ second.seen = ask.seen
  BY <1>1 DEF AskOf
<1> HIDE DEF second
<1>3. /\ third \in AskOf(sig, seen) /\ third.pc = pc /\ third.got = got /\ third.lately = lately
      /\ third.option = ask.option /\ third.question = ask.question
      /\ third.cacheable = ask.cacheable /\ third.seen = ask.seen
  BY <1>2 DEF AskOf
<1>4. Later(ask, pc, got, lately) = third
  BY DEF Later, first, second, third
<1> QED
  BY <1>3, <1>4

-------------------------------------------------------------------------------
(***************************************************************************)
(* One lemma for each step of a question.                                  *)
(***************************************************************************)
LEMMA AskIt ==
    ASSUME CacheInv, NEW a \in Asker, BeginAsk(a)
    PROVE  CacheInv'
<1>1. PICK o \in Option, q \in Question, inThread \in BOOLEAN : Ask(a, o, q, inThread)
  BY DEF BeginAsk
<1> DEFINE ask == [pc |-> IF inThread THEN "embed" ELSE "sig",
                   option |-> o, question |-> q, cacheable |-> ~inThread,
                   sig |-> NoSig, seen |-> <<>>, lately |-> {}, got |-> {}]
<1>2. asks' = [asks EXCEPT ![a] = ask] /\ UNCHANGED <<vars, cache>>
  BY <1>1 DEF Ask
<1>3. /\ ask \in AskOf(NoSig, <<>>)
      /\ ask.pc \in {"embed", "sig"} /\ ask.got = {}
      /\ (ask.cacheable <=> ask.pc = "sig")
  BY DEF AskOf, Asking
<1> HIDE DEF ask
<1> QED
  BY <1>2, <1>3, GoesOn DEF InReach, Shown

LEMMA ReadSigOK ==
    ASSUME CacheInv, NEW a \in Asker, ReadSig(a)
    PROVE  CacheInv'
<1> DEFINE old == asks[a]
<1>1. /\ old.pc = "sig" /\ UNCHANGED <<vars, cache>> /\ old \in AskOf(old.sig, old.seen)
      /\ InReach(old.option, old.got) /\ old.cacheable /\ chunks \subseteq Chunk
  BY AskFields DEF ReadSig, Asking, CacheInv, AskOK, IInv, TypeOK, StoreTypeOK
<1>2. Since(Corpus)
  BY DEF Since, Corpus
<1>3. ASSUME NEW fresh \in BOOLEAN,
             asks' = [asks EXCEPT ![a].pc = IF fresh THEN "embed" ELSE "look",
                        ![a].sig = Sig, ![a].seen = Corpus,
                        ![a].lately = IF fresh THEN {} ELSE chunks]
      PROVE  CacheInv'
  <2> DEFINE pc == IF fresh THEN "embed" ELSE "look"
             lately == IF fresh THEN {} ELSE chunks
             first == [old EXCEPT !.pc = pc]
             second == [first EXCEPT !.sig = Sig]
             third == [second EXCEPT !.seen = Corpus]
             ask == [third EXCEPT !.lately = lately]
  <2>1. asks' = [asks EXCEPT ![a] = ask]
    BY <1>3 DEF CacheInv, AsksTyped
  <2>2. pc \in {"embed", "look"} /\ lately \in SUBSET Chunk /\ (pc = "look" => lately = chunks)
    BY <1>1
  <2> HIDE DEF pc, lately
  <2>3. first \in AskOf(old.sig, old.seen)
    BY <1>1, <2>2 DEF AskOf, Asking
  <2>4. /\ first.option = old.option /\ first.got = old.got /\ first.pc = pc
        /\ first.cacheable = old.cacheable
    BY <1>1, <2>2 DEF AskOf, Asking
  <2> HIDE DEF first
  <2>5. second \in AskOf(Sig, old.seen) /\ second.pc = pc /\ second.option = old.option
        /\ second.got = old.got /\ second.cacheable = old.cacheable
    BY <2>3, <2>4 DEF AskOf
  <2> HIDE DEF second
  <2>6. third \in AskOf(Sig, Corpus) /\ third.pc = pc /\ third.option = old.option
        /\ third.got = old.got /\ third.cacheable = old.cacheable /\ third.seen = Corpus
    BY <2>5 DEF AskOf
  <2> HIDE DEF third
  <2>7. ask \in AskOf(Sig, Corpus) /\ ask.pc = pc /\ ask.option = old.option
        /\ ask.got = old.got /\ ask.cacheable = old.cacheable /\ ask.seen = Corpus
        /\ ask.lately = lately
    BY <2>2, <2>6 DEF AskOf
  <2> HIDE DEF ask
  <2> QED
    BY <1>1, <1>2, <2>1, <2>2, <2>7, GoesOn DEF Shown
<1>4. CASE asks' = [asks EXCEPT ![a].pc = "embed", ![a].cacheable = FALSE]
  <2> DEFINE first == [old EXCEPT !.pc = "embed"]
             ask == [first EXCEPT !.cacheable = FALSE]
  <2>1. asks' = [asks EXCEPT ![a] = ask]
    BY <1>4 DEF CacheInv, AsksTyped
  <2>2. /\ ask \in AskOf(old.sig, old.seen) /\ ask.pc = "embed" /\ ~ask.cacheable
        /\ ask.option = old.option /\ ask.got = old.got
    BY <1>1 DEF AskOf, Asking
  <2> HIDE DEF ask
  <2> QED
    BY <1>1, <2>1, <2>2, GoesOn DEF Shown
<1> QED
  BY <1>3, <1>4 DEF ReadSig

\* A stored answer that is used is the same answer.
LEMMA UsedIsTheSame ==
    ASSUME CacheInv, NEW key \in Held, cache' = [cache EXCEPT ![key].used = now]
    PROVE  /\ CacheTyped' /\ Held' \subseteq Held
           /\ \A k \in Held' : cache'[k].under = cache[k].under /\ cache'[k].from = cache[k].from
<1> DEFINE row == [cache[key] EXCEPT !.used = now]
<1>1. key \in Key /\ cache[key] \in Answer(key) /\ now \in Nat
  BY DEF CacheInv, CacheTyped, Held, IInv, TypeOK, StoreTypeOK
<1>2. cache' = [cache EXCEPT ![key] = row]
  BY <1>1 DEF CacheInv, CacheTyped
<1>3. /\ row \in [from: SUBSET Chunk, sig: {row.sig}, used: Nat, under: {row.under}]
      /\ row.under = cache[key].under /\ row.from = cache[key].from
  BY <1>1 DEF Answer
<1> HIDE DEF row
<1>4. /\ cache'[key] = row
      /\ \A k \in Key : k # key => cache'[k] = cache[k]
      /\ cache' = [k \in Key |-> cache'[k]]
  BY <1>1, <1>2 DEF CacheInv, CacheTyped
<1>5. Held' \subseteq Held
  BY <1>1, <1>4 DEF Held
<1>6. CacheTyped'
  BY <1>3, <1>4, <1>5 DEF CacheInv, CacheTyped, Answer, Held
<1> QED
  BY <1>3, <1>4, <1>5, <1>6 DEF Held

LEMMA LookUpOK ==
    ASSUME CacheInv, NEW a \in Asker, LookUp(a)
    PROVE  CacheInv'
<1> DEFINE old == asks[a]
<1>1. /\ old.pc = "look" /\ UNCHANGED vars /\ old \in AskOf(old.sig, old.seen)
      /\ InReach(old.option, old.got) /\ old.got \in SUBSET Chunk /\ Since(old.seen)
      /\ KeyOf(a) \in Key /\ old.cacheable
  BY AskFields DEF LookUp, Asking, CacheInv, AskOK
<1>2. CASE End(a, "served") /\ Fits(a) /\ cache' = [cache EXCEPT ![KeyOf(a)].used = now]
  <2>1. KeyOf(a) \in Held
    BY <1>1, <1>2 DEF Fits, Held
  <2> QED
    BY <1>1, <1>2, <2>1, UsedIsTheSame, ComesToAnEnd DEF Ends
<1>3. CASE End(a, "served") /\ UNCHANGED cache
  BY <1>1, <1>3, CacheStill, ComesToAnEnd DEF Ends
<1>4. CASE /\ asks' = [asks EXCEPT ![a].pc = "embed", ![a].lately = {}]
           /\ UNCHANGED cache
  <2> DEFINE ask == Later(old, "embed", old.got, {})
  <2>1. asks' = [asks EXCEPT ![a] = ask]
    BY <1>1, <1>4 DEF CacheInv, AsksTyped, AskOf, Later
  <2> HIDE DEF ask
  <2>2. /\ ask \in AskOf(old.sig, old.seen) /\ ask.pc = "embed" /\ ask.got = old.got
        /\ ask.option = old.option /\ ask.cacheable = old.cacheable /\ ask.seen = old.seen
    <3>1. old \in AskOf(old.sig, old.seen) /\ old.got \in SUBSET Chunk
      BY <1>1
    <3>2. "embed" \in Asking /\ {} \in SUBSET Chunk
      BY DEF Asking
    <3> QED
      BY <3>1, <3>2, MovesOn DEF ask
  <2> QED
    BY <1>1, <1>4, <2>1, <2>2, GoesOn DEF Shown
<1> QED
  BY <1>2, <1>3, <1>4 DEF LookUp

\* The steps that change no table, read some chunks and go on.
LEMMA GoOnWith ==
    ASSUME CacheInv, NEW a \in Asker, asks[a].pc \in Asking \ {"sig"},
           UNCHANGED <<vars, cache>>,
           NEW pc \in Asking \ {"sig", "look"}, NEW got \in SUBSET Chunk,
           asks' = [asks EXCEPT ![a].pc = pc, ![a].got = got],
           InReach(asks[a].option, got),
           pc \in {"write", "prune"} => asks[a].cacheable,
           pc \in Shown => \/ got \subseteq chunks
                           \/ asks[a].pc \in Shown /\ got \subseteq asks[a].got \cup chunks
    PROVE  CacheInv'
<1> DEFINE old == asks[a]
           ask == Later(old, pc, got, old.lately)
<1>1. /\ old \in AskOf(old.sig, old.seen) /\ old.lately \in SUBSET Chunk
      /\ old.cacheable \in BOOLEAN /\ (old.cacheable => Since(old.seen))
  BY AskFields DEF CacheInv, AskOK
<1>2. asks' = [asks EXCEPT ![a] = ask]
  BY <1>1 DEF CacheInv, AsksTyped, AskOf, Later
<1> HIDE DEF ask
<1>3. /\ ask \in AskOf(old.sig, old.seen) /\ ask.pc = pc /\ ask.got = got
      /\ ask.option = old.option /\ ask.cacheable = old.cacheable /\ ask.seen = old.seen
  BY <1>1, MovesOn DEF ask
<1>4. ASSUME ask.pc \in Shown, ask.cacheable
      PROVE  \E g : /\ <<ask.seen, g>> \in Made \cup {<<ask.seen, {}>>}
                    /\ ask.got \subseteq g \cup chunks
  <2>1. CASE got \subseteq chunks
    BY <1>3, <2>1
  <2>2. CASE old.pc \in Shown /\ got \subseteq old.got \cup chunks
    BY <1>3, <1>4, <2>2 DEF Made, Writers
  <2> QED
    BY <1>3, <1>4, <2>1, <2>2
<1>5. /\ ask.pc \in {"sig", "look", "write", "prune"} => ask.cacheable
      /\ ask.cacheable /\ ask.pc # "sig" => Since(ask.seen)
      /\ ask.pc = "look" => ask.seen = Corpus /\ ask.lately = chunks
  BY <1>1, <1>3
<1>6. InReach(ask.option, ask.got)
  BY <1>3
<1>7. ask.pc \in Shown /\ ask.cacheable =>
          \E g : <<ask.seen, g>> \in Made \cup {<<ask.seen, {}>>} /\ ask.got \subseteq g \cup chunks
  BY <1>4
<1> HIDE DEF old
<1> QED
  BY ONLY CacheInv, UNCHANGED <<vars, cache>>, a \in Asker, <1>2, <1>3, <1>5, <1>6, <1>7, GoesOn

LEMMA GoOnIsGoOnWith ==
    ASSUME CacheInv, NEW a \in Asker, asks[a].pc \in Asking, NEW pc, GoOn(a, pc)
    PROVE  asks' = [asks EXCEPT ![a].pc = pc, ![a].got = asks[a].got]
BY AskFields DEF GoOn, AskOf, CacheInv, AsksTyped

\* A question that ends leaves the cache alone.
LEMMA EndsQuietly ==
    ASSUME CacheInv, UNCHANGED <<vars, cache>>, NEW a \in Asker, NEW pc \in Ends, End(a, pc)
    PROVE  CacheInv'
BY CacheStill, ComesToAnEnd

\* What a question in scope reads is in scope and made of chunks.
LEMMA ReadsInScope ==
    ASSUME CacheInv, NEW a, NEW rows, rows \subseteq Chunk
    PROVE  /\ InScope(a, rows) \in SUBSET Chunk
           /\ InReach(asks[a].option, InScope(a, rows))
BY DEF InScope, InReach

LEMMA ReadOK ==
    ASSUME CacheInv, NEW a \in Asker,
           EmbedQuestion(a) \/ Rank(a) \/ Match(a) \/ Read(a)
    PROVE  CacheInv'
<1> DEFINE old == asks[a]
<1>1. /\ old.pc \in {"embed", "rank", "match", "read"} /\ UNCHANGED <<vars, cache>>
      /\ old.got \in SUBSET Chunk /\ InReach(old.option, old.got)
      /\ chunks \subseteq Chunk /\ vecs \subseteq Chunk
  BY AskFields DEF EmbedQuestion, Rank, Match, Read, Asking, CacheInv, AskOK,
                   IInv, TypeOK, StoreTypeOK
<1>2. ASSUME NEW pc \in {"failed", "missed"}, End(a, pc)
      PROVE  CacheInv'
  BY <1>1, <1>2, EndsQuietly DEF Ends
<1>3. ASSUME NEW pc \in {"rank", "match", "read", "stitch", "chat"}, NEW got \in SUBSET Chunk,
             asks' = [asks EXCEPT ![a].pc = pc, ![a].got = got],
             InReach(old.option, got), pc \in {"stitch", "chat"} => got \subseteq chunks
      PROVE  CacheInv'
  <2>1. pc \in Asking \ {"sig", "look"} /\ pc \notin {"write", "prune"} /\ old.pc \in Asking \ {"sig"}
        /\ (pc \in Shown => got \subseteq chunks)
    BY <1>1, <1>3 DEF Asking, Shown
  <2> QED
    BY <1>1, <1>3, <2>1, GoOnWith
<1>4. ASSUME NEW pc \in {"rank", "read"}, GoOn(a, pc)
      PROVE  CacheInv'
  <2>1. asks' = [asks EXCEPT ![a].pc = pc, ![a].got = old.got]
    BY <1>1, <1>4, GoOnIsGoOnWith DEF Asking
  <2> QED
    BY <1>1, <1>3, <2>1
<1>5. CASE EmbedQuestion(a)
  BY <1>2, <1>4, <1>5 DEF EmbedQuestion
<1>6. CASE Rank(a)
  BY <1>1, <1>2, <1>3, <1>6, ReadsInScope DEF Rank
<1>7. CASE Match(a)
  <2>1. CASE GoOn(a, "read")
    BY <1>4, <2>1
  <2>2. CASE asks' = [asks EXCEPT ![a].pc = "read", ![a].got = @ \cup InScope(a, chunks)]
    <3> DEFINE got == old.got \cup InScope(a, chunks)
    <3>1. got \in SUBSET Chunk /\ InReach(old.option, got)
      BY <1>1, ReadsInScope DEF InReach
    <3>2. asks' = [asks EXCEPT ![a].pc = "read", ![a].got = got]
      BY <2>2
    <3> HIDE DEF got
    <3> QED
      BY <1>3, <3>1, <3>2
  <2> QED
    BY <1>7, <2>1, <2>2 DEF Match
<1>8. CASE Read(a)
  <2> DEFINE found == old.got \cap chunks
  <2>1. found \in SUBSET Chunk /\ InReach(old.option, found) /\ found \subseteq chunks
    BY <1>1 DEF InReach
  <2>2. ASSUME NEW next \in {"stitch", "chat"},
               asks' = [asks EXCEPT ![a].pc = next, ![a].got = found]
        PROVE  CacheInv'
    <3> HIDE DEF found
    <3> QED
      BY <1>3, <2>1, <2>2
  <2> QED
    BY <1>2, <1>8, <2>2 DEF Read
<1> QED
  BY <1>5, <1>6, <1>7, <1>8

LEMMA StitchOK ==
    ASSUME CacheInv, NEW a \in Asker, Stitch(a)
    PROVE  CacheInv'
<1> DEFINE old == asks[a]
           hit == {<<c.doc, c.ord>> : c \in old.got}
           near == {c \in chunks : /\ <<c.doc, c.ord>> \notin hit
                                   /\ \E h \in hit : h[1] = c.doc /\ h[2] \in {c.ord - 1, c.ord + 1}}
           got == old.got \cup near
<1>1. /\ old.pc = "stitch" /\ UNCHANGED <<vars, cache>>
      /\ old.got \in SUBSET Chunk /\ InReach(old.option, old.got) /\ chunks \subseteq Chunk
  BY AskFields DEF Stitch, Asking, CacheInv, AskOK, IInv, TypeOK, StoreTypeOK
<1>2. CASE End(a, "failed")
  BY <1>1, <1>2, EndsQuietly DEF Ends
<1>3. CASE asks' = [asks EXCEPT ![a].pc = "chat", ![a].got = @ \cup near]
  <2>1. InReach(old.option, near)
    <3> SUFFICES ASSUME NEW c \in near
                 PROVE  c.doc \in Sources[old.option]
      BY DEF InReach
    <3>1. PICK hitting \in old.got : hitting.doc = c.doc
      OBVIOUS
    <3> QED
      BY <1>1, <3>1 DEF InReach
  <2>2. got \in SUBSET Chunk /\ got \subseteq old.got \cup chunks /\ InReach(old.option, got)
    BY <1>1, <2>1 DEF InReach
  <2>3. asks' = [asks EXCEPT ![a].pc = "chat", ![a].got = got]
    BY <1>3
  <2> HIDE DEF got
  <2>4. "chat" \in Asking \ {"sig", "look"} /\ old.pc \in Asking \ {"sig"} /\ old.pc \in Shown
    BY <1>1 DEF Asking, Shown
  <2> QED
    BY <1>1, <2>2, <2>3, <2>4, GoOnWith
<1> QED
  BY <1>2, <1>3 DEF Stitch

LEMMA ChatOK ==
    ASSUME CacheInv, NEW a \in Asker, Chat(a)
    PROVE  CacheInv'
<1> DEFINE old == asks[a]
<1>1. /\ old.pc = "chat" /\ UNCHANGED <<vars, cache>>
      /\ old.got \in SUBSET Chunk /\ InReach(old.option, old.got)
  BY AskFields DEF Chat, Asking, CacheInv, AskOK
<1>2. ASSUME NEW pc \in {"answered", "missed", "failed"}, End(a, pc)
      PROVE  CacheInv'
  BY <1>1, <1>2, EndsQuietly DEF Ends
<1>3. CASE old.cacheable /\ GoOn(a, "write")
  <2>1. asks' = [asks EXCEPT ![a].pc = "write", ![a].got = old.got]
    BY <1>1, <1>3, GoOnIsGoOnWith DEF Asking
  <2>2. "write" \in Asking \ {"sig", "look"} /\ old.pc \in Asking \ {"sig"} /\ old.pc \in Shown
    BY <1>1 DEF Asking, Shown
  <2> QED
    BY <1>1, <1>3, <2>1, <2>2, GoOnWith
<1> QED
  BY <1>2, <1>3 DEF Chat

\* What is stored is what the writer was about to store.
LEMMA WriteOK ==
    ASSUME CacheInv, NEW a \in Asker, Write(a)
    PROVE  CacheInv'
<1> DEFINE old == asks[a]
           key == KeyOf(a)
           row == [from |-> old.got, sig |-> old.sig, used |-> now, under |-> old.seen]
<1>1. /\ old.pc = "write" /\ UNCHANGED vars /\ old \in AskOf(old.sig, old.seen)
      /\ old.got \in SUBSET Chunk /\ InReach(old.option, old.got)
      /\ old.cacheable /\ Since(old.seen) /\ key \in Key /\ now \in Nat
  BY AskFields DEF Write, Asking, CacheInv, AskOK, IInv, TypeOK, StoreTypeOK
<1>2. CASE End(a, "answered") /\ UNCHANGED cache
  BY <1>1, <1>2, EndsQuietly DEF Ends
<1>3. CASE cache' = [cache EXCEPT ![key] = row] /\ GoOn(a, "prune")
  <2>1. /\ row.from = old.got /\ row.under = old.seen
        /\ row \in [from: SUBSET Chunk, sig: {row.sig}, used: Nat, under: {row.under}]
    BY <1>1
  <2> HIDE DEF row
  <2>2. /\ cache'[key] = row
        /\ \A k \in Key : k # key => cache'[k] = cache[k]
        /\ cache' = [k \in Key |-> cache'[k]]
    BY <1>1, <1>3 DEF CacheInv, CacheTyped
  <2>3. key[1] = old.option
    BY DEF KeyOf, cacheKey
  <2> HIDE DEF key
  <2>4. Held' \subseteq Held \cup {key}
    BY <2>2 DEF Held
  <2>5. CacheTyped'
    <3> SUFFICES ASSUME NEW k \in Held' PROVE cache'[k] \in Answer(k)'
      BY <2>2 DEF CacheTyped
    <3>1. CASE k = key
      BY <2>1, <2>2, <3>1 DEF Answer
    <3>2. CASE k # key
      <4>1. k \in Held /\ cache'[k] = cache[k]
        BY <2>2, <2>4, <3>2 DEF Held
      <4> QED
        BY <4>1 DEF CacheInv, CacheTyped, Answer
    <3> QED
      BY <3>1, <3>2
  <2>6. \A k \in Held' : InReach(k[1], cache'[k].from)
    BY <1>1, <2>1, <2>2, <2>3, <2>4 DEF CacheInv, InReach, Held
  <2> DEFINE ask == [old EXCEPT !.pc = "prune"]
  <2>7. /\ ask \in AskOf(old.sig, old.seen) /\ ask.pc = "prune" /\ ask.seen = old.seen
        /\ ask.sig = old.sig /\ ask.got = old.got /\ ask.option = old.option
        /\ ask.cacheable = old.cacheable
    BY <1>1 DEF AskOf, Asking
  <2>8. asks' = [asks EXCEPT ![a] = ask]
    BY <1>3 DEF GoOn, CacheInv, AsksTyped
  <2> HIDE DEF ask
  <2>9. /\ asks'[a] = ask
        /\ \A b \in Asker \ {a} : asks'[b] = asks[b]
        /\ asks' = [b \in Asker |-> asks'[b]]
    BY <2>8 DEF CacheInv, AsksTyped
  <2>10. AsksTyped'
    BY <2>7, <2>9 DEF CacheInv, AsksTyped, Asking
  <2>11. UNCHANGED <<docs, chunks, jobs>>
    BY <1>1 DEF vars
  <2>12. AskOK(a)'
    <3>1. \A corpus : Since(corpus)' <=> Since(corpus)
      BY <2>11 DEF Since, Superseded, TookOver
    <3> QED
      BY <1>1, <2>7, <2>9, <3>1 DEF AskOK, InReach
  <2>13. <<old.seen, old.got>> \in Made
    BY <1>1 DEF Made, Writers, Shown
  <2>14. Writers' \subseteq Writers /\ \A b \in Writers' : asks'[b] = asks[b]
    BY <2>7, <2>9 DEF Writers, Shown
  <2>15. Made' \subseteq Made
    <3> SUFFICES ASSUME NEW m \in Made' PROVE m \in Made
      OBVIOUS
    <3>1. CASE \E b \in Writers' : m = <<asks'[b].seen, asks'[b].got>>
      BY <2>14, <3>1 DEF Made
    <3>2. CASE \E k \in Held' : m = <<cache'[k].under, cache'[k].from>>
      <4>1. PICK k \in Held' : m = <<cache'[k].under, cache'[k].from>>
        BY <3>2
      <4>2. CASE k = key
        BY <2>1, <2>2, <2>13, <4>1, <4>2
      <4>3. CASE k # key
        <5>1. k \in Held /\ cache'[k] = cache[k]
          BY <2>2, <2>4, <4>3 DEF Held
        <5> QED
          BY <4>1, <5>1 DEF Made
      <4> QED
        BY <4>2, <4>3
    <3> QED
      BY <3>1, <3>2 DEF Made
  <2> QED
    BY <1>1, <2>5, <2>6, <2>7, <2>9, <2>10, <2>12, <2>15, QuestionStep DEF MadeSoundly
<1> QED
  BY <1>1, <1>2, <1>3 DEF Write

LEMMA PruneOK ==
    ASSUME CacheInv, NEW a \in Asker, Prune(a)
    PROVE  CacheInv'
<1>1. UNCHANGED vars
  BY DEF Prune
<1>2. CASE End(a, "unpruned") /\ UNCHANGED cache
  BY <1>1, <1>2, EndsQuietly DEF Ends
<1>3. CASE /\ End(a, "answered")
           /\ \E top \in Newest(Keep) :
                 cache' = [k \in Key |-> IF k \in top /\ cache[k].sig = asks[a].sig
                                         THEN cache[k] ELSE NoAnswer]
  <2>1. PICK top \in Newest(Keep) :
           cache' = [k \in Key |-> IF k \in top /\ cache[k].sig = asks[a].sig
                                   THEN cache[k] ELSE NoAnswer]
    BY <1>3
  <2>2. \A k \in Held' : k \in Held /\ cache'[k] = cache[k]
    BY <2>1 DEF Held, Newest
  <2>3. cache' = [k \in Key |-> cache'[k]]
    BY <2>1
  <2>4. CacheTyped'
    BY <2>2, <2>3 DEF CacheInv, CacheTyped, Answer
  <2> QED
    BY <1>1, <1>3, <2>2, <2>4, ComesToAnEnd DEF Ends
<1> QED
  BY <1>2, <1>3 DEF Prune

-------------------------------------------------------------------------------
(***************************************************************************)
(* A step of the library: the corpus may move on, a question waits or      *)
(* dies, and one about to look its key up sees the new chunks.             *)
(***************************************************************************)
Waits(a) ==
    /\ asks'[a].pc = asks[a].pc /\ asks'[a].option = asks[a].option
    /\ asks'[a].cacheable = asks[a].cacheable
    /\ asks'[a].seen = asks[a].seen /\ asks'[a].got = asks[a].got
    /\ asks[a].pc = "look" => asks[a].lately \cup chunks' \subseteq asks'[a].lately

LEMMA LibraryGoesOn ==
    ASSUME CacheInv, [Next]_vars, UNCHANGED cache, AsksTyped',
           \A a \in Asker : asks'[a].pc \in Asking => Waits(a)
    PROVE  CacheInv'
<1>1. IInv' /\ TakesStay /\ CorpusMoves
  BY NextIInv, NextMovesCorpus DEF CacheInv
<1>2. CacheTyped' /\ Held' = Held
  BY CacheStill
<1>3. \A k \in Held' : InReach(k[1], cache'[k].from)
  BY <1>2 DEF CacheInv, InReach
<1>4. ASSUME NEW a \in Asker
      PROVE  AskOK(a)'
  <2> SUFFICES ASSUME asks'[a].pc \in Asking
               PROVE  AskOK(a)'
    BY DEF AskOK
  <2>1. Waits(a) /\ AskOK(a)
    BY DEF CacheInv
  <2> DEFINE seen == asks[a].seen
  <2>2. asks[a].cacheable /\ asks[a].pc # "sig" => Since(seen)
    BY <2>1 DEF AskOK, Waits
  <2>3. PICK corpus : corpus = seen
    OBVIOUS
  <2>4. Since(corpus) => Since(corpus)'
    BY <1>1, NeverAgain
  <2>5. Since(asks[a].seen)' <=> Since(corpus)'
    BY <2>1, <2>3 DEF Waits, Since, Superseded, TookOver
  <2> QED
    BY <2>1, <2>2, <2>3, <2>4, <2>5 DEF AskOK, Waits, InReach
<1>5. Made' \subseteq Made
  <2>1. Writers' \subseteq Writers /\ \A a \in Writers' : Waits(a)
    BY DEF Writers, Waits, Shown, Asking
  <2> QED
    BY <1>2, <2>1 DEF Made, Waits
<1>6. ASSUME NEW m \in Made
      PROVE  Since(m[1])' /\ (m[1] = Corpus' => m[2] \subseteq chunks')
  <2>1. PICK corpus : corpus = m[1]
    OBVIOUS
  <2>2. Since(corpus)' /\ (corpus = Corpus' => corpus = Corpus)
    BY <1>1, <2>1, NeverAgain DEF CacheInv, MadeOK
  <2>3. Since(m[1])' <=> Since(corpus)'
    BY <2>1 DEF Since, Superseded, TookOver
  <2>4. corpus = Corpus' => chunks = chunks'
    BY <2>2 DEF Corpus
  <2> QED
    BY <2>1, <2>2, <2>3, <2>4 DEF CacheInv, MadeOK
<1>7. ASSUME NEW a \in Asker, NEW m \in Made', asks'[a].pc = "look", m[1] = asks'[a].seen
      PROVE  m[2] \subseteq asks'[a].lately
  <2>1. Waits(a)
    BY <1>7 DEF Asking
  <2>2. m[2] \subseteq asks[a].lately
    BY <1>5, <1>7, <2>1 DEF Waits, CacheInv, ReadersOK
  <2> QED
    BY <1>7, <2>1, <2>2 DEF Waits
<1> QED
  BY <1>1, <1>2, <1>3, <1>4, <1>5, <1>6, <1>7 DEF CacheInv, MadeOK, ReadersOK

LEMMA CrashOK ==
    ASSUME CacheInv, CacheCrash
    PROVE  CacheInv'
<1>1. [Next]_vars /\ UNCHANGED cache
  BY DieUnder DEF CacheCrash, CacheInv
<1>2. \A a \in Asker :
        asks'[a] = IF asks[a].pc \in Asking
                   THEN [pc |-> IF asks[a].pc = "prune" THEN "unpruned" ELSE "crashed"]
                   ELSE asks[a]
  BY DEF CacheCrash
<1>3. \A a \in Asker :
        \/ asks'[a].pc \in {"unpruned", "crashed"}
        \/ asks'[a] = asks[a] /\ asks[a].pc \notin Asking
  <2> SUFFICES ASSUME NEW a \in Asker, asks[a].pc \in Asking
               PROVE  asks'[a].pc \in {"unpruned", "crashed"}
    BY <1>2
  <2> DEFINE end == [pc |-> IF asks[a].pc = "prune" THEN "unpruned" ELSE "crashed"]
  <2>1. asks'[a] = end
    BY <1>2
  <2>2. end.pc \in {"unpruned", "crashed"}
    OBVIOUS
  <2> HIDE DEF end
  <2> QED
    BY <2>1, <2>2
<1>4. asks' = [a \in Asker |-> asks'[a]]
  BY DEF CacheCrash
<1>5. AsksTyped'
  BY <1>3, <1>4 DEF CacheInv, AsksTyped, Asking, Ends
<1>6. \A a \in Asker : asks'[a].pc \notin Asking
  BY <1>3 DEF Asking
<1> QED
  BY <1>1, <1>5, <1>6, LibraryGoesOn

LEMMA LibraryOK ==
    ASSUME CacheInv, LibraryMoves
    PROVE  CacheInv'
<1>1. [Next]_vars /\ UNCHANGED cache
  BY LibraryUnder DEF LibraryMoves
<1>2. IInv' /\ chunks' \subseteq Chunk
  BY <1>1, NextIInv DEF CacheInv, IInv, TypeOK, StoreTypeOK
<1>3. asks' = [a \in Asker |-> asks'[a]]
  BY DEF LibraryMoves
<1>4. ASSUME NEW a \in Asker, asks[a].pc = "look"
      PROVE  /\ asks'[a] \in AskOf(asks'[a].sig, asks'[a].seen)
             /\ asks'[a].pc = "look" /\ Waits(a)
  <2> DEFINE ask == [asks[a] EXCEPT !.lately = @ \cup chunks']
  <2>1. asks'[a] = ask
    BY <1>4 DEF LibraryMoves
  <2>2. asks[a] \in AskOf(asks[a].sig, asks[a].seen) /\ asks[a].lately \in SUBSET Chunk
    BY <1>4, AskFields DEF Asking
  <2>3. /\ ask \in AskOf(ask.sig, ask.seen) /\ ask.pc = asks[a].pc
        /\ ask.option = asks[a].option /\ ask.cacheable = asks[a].cacheable
        /\ ask.seen = asks[a].seen /\ ask.got = asks[a].got
        /\ ask.lately = asks[a].lately \cup chunks'
    BY <1>2, <2>2 DEF AskOf
  <2> HIDE DEF ask
  <2> QED
    BY <1>4, <2>1, <2>3 DEF Waits
<1>5. \A a \in Asker : asks[a].pc # "look" => asks'[a] = asks[a]
  BY DEF LibraryMoves
<1>6. AsksTyped'
  BY <1>3, <1>4, <1>5 DEF CacheInv, AsksTyped, Asking
<1>7. \A a \in Asker : Waits(a)
  BY <1>4, <1>5 DEF Waits
<1> QED
  BY <1>1, <1>6, <1>7, LibraryGoesOn

LEMMA CacheInitInv == CacheInit => CacheInv
<1> SUFFICES ASSUME CacheInit
             PROVE  CacheInv
  OBVIOUS
<1>1. IInv
  BY InitIInv DEF CacheInit
<1>2. asks = [a \in Asker |-> NoAsk] /\ Held = {} /\ cache = [k \in Key |-> NoAnswer]
  BY DEF CacheInit, Held
<1>3. \A a \in Asker : asks[a] = NoAsk /\ asks[a].pc = "none"
  BY <1>2
<1>4. Writers = {} /\ Made = {}
  BY <1>2, <1>3 DEF Writers, Made, Shown
<1>5. AsksTyped /\ CacheTyped
  BY <1>2, <1>3 DEF AsksTyped, CacheTyped, Asking
<1>6. \A a \in Asker : AskOK(a)
  BY <1>3 DEF AskOK, Asking
<1> QED
  BY <1>1, <1>2, <1>4, <1>5, <1>6 DEF CacheInv, MadeOK, ReadersOK

LEMMA CacheInvStep == CacheInv /\ [CacheNext]_cacheVars => CacheInv'
<1> SUFFICES ASSUME CacheInv, [CacheNext]_cacheVars
             PROVE  CacheInv'
  OBVIOUS
<1>1. ASSUME NEW a \in Asker, BeginAsk(a) \/ AskWork(a)
      PROVE  CacheInv'
  BY <1>1, AskIt, ReadSigOK, LookUpOK, ReadOK, StitchOK, ChatOK, WriteOK, PruneOK DEF AskWork
<1>2. CASE UNCHANGED cacheVars
  <2>1. UNCHANGED <<vars, cache, asks>>
    BY <1>2 DEF cacheVars, vars
  <2>2. AsksTyped'
    BY <2>1 DEF CacheInv, AsksTyped
  <2> SUFFICES ASSUME NEW a \in Asker, asks'[a].pc \in Asking
               PROVE  Waits(a)
    BY <2>1, <2>2, LibraryGoesOn
  <2> QED
    BY <2>1 DEF CacheInv, AskOK, Waits, vars
<1> QED
  BY <1>1, <1>2, CrashOK, LibraryOK DEF CacheNext

LEMMA CacheInvariance == CacheSpec => []CacheInv
BY CacheInitInv, CacheInvStep, PTL DEF CacheSpec

\* A step of one question leaves the others alone.
LEMMA OthersStand ==
    ASSUME CacheInv, NEW a \in Asker, BeginAsk(a) \/ AskWork(a)
    PROVE  \A b \in Asker \ {a} : asks'[b] = asks[b]
<1>1. asks = [b \in Asker |-> asks[b]]
  BY DEF CacheInv, AsksTyped
<1>2. CASE BeginAsk(a)
  BY <1>1, <1>2 DEF BeginAsk, Ask
<1>3. CASE ReadSig(a)
  BY <1>1, <1>3 DEF ReadSig
<1>4. CASE LookUp(a)
  BY <1>1, <1>4 DEF LookUp, End
<1>5. CASE EmbedQuestion(a) \/ Chat(a) \/ Write(a) \/ Prune(a)
  BY <1>1, <1>5 DEF EmbedQuestion, Chat, Write, Prune, GoOn, End
<1>6. CASE Rank(a) \/ Match(a)
  BY <1>1, <1>6 DEF Rank, Match, GoOn, End
<1>7. CASE Read(a) \/ Stitch(a)
  BY <1>1, <1>7 DEF Read, Stitch, End
<1> QED
  BY <1>2, <1>3, <1>4, <1>5, <1>6, <1>7 DEF AskWork

\* The only step that serves a stored answer is a lookup of its own key.
LEMMA ServesFromItsKey ==
    ASSUME CacheInv, CacheNext, NEW a \in Asker, Serves(a)
    PROVE  KeyOf(a) \in Held
<1>1. asks[a].pc = "look" /\ asks'[a].pc = "served"
  BY DEF Serves
<1>2. ~LibraryMoves
  <2> SUFFICES ASSUME LibraryMoves PROVE FALSE
    OBVIOUS
  <2>1. asks'[a] = [asks[a] EXCEPT !.lately = @ \cup chunks']
    BY <1>1 DEF LibraryMoves
  <2>2. asks[a] \in AskOf(asks[a].sig, asks[a].seen)
    BY <1>1, AskFields DEF Asking
  <2> QED
    BY <1>1, <2>1, <2>2 DEF AskOf
<1>3. ~CacheCrash
  <2> SUFFICES ASSUME CacheCrash PROVE FALSE
    OBVIOUS
  <2> DEFINE end == [pc |-> IF asks[a].pc = "prune" THEN "unpruned" ELSE "crashed"]
  <2>1. asks'[a] = end
    BY <1>1 DEF CacheCrash, Asking
  <2>2. end.pc # "served"
    OBVIOUS
  <2> HIDE DEF end
  <2> QED
    BY <1>1, <2>1, <2>2
<1>4. PICK b \in Asker : BeginAsk(b) \/ AskWork(b)
  BY <1>2, <1>3 DEF CacheNext
<1>5. b = a
  BY <1>1, <1>4, OthersStand
<1>6. LookUp(a)
  <2>1. ~BeginAsk(a)
    BY <1>1 DEF BeginAsk, Ask
  <2>2. ~ReadSig(a) /\ ~EmbedQuestion(a) /\ ~Rank(a) /\ ~Match(a)
    BY <1>1 DEF ReadSig, EmbedQuestion, Rank, Match
  <2>3. ~Read(a) /\ ~Stitch(a) /\ ~Chat(a) /\ ~Write(a) /\ ~Prune(a)
    BY <1>1 DEF Read, Stitch, Chat, Write, Prune
  <2> QED
    BY <1>4, <1>5, <2>1, <2>2, <2>3 DEF AskWork
<1>7. Fits(a)
  <2> SUFFICES ASSUME asks' = [asks EXCEPT ![a].pc = "embed", ![a].lately = {}]
               PROVE  FALSE
    BY <1>6 DEF LookUp
  <2> DEFINE first == [asks[a] EXCEPT !.pc = "embed"]
             ask == [first EXCEPT !.lately = {}]
  <2>1. asks'[a] = ask
    BY DEF CacheInv, AsksTyped
  <2>2. asks[a] \in AskOf(asks[a].sig, asks[a].seen)
    BY <1>1, AskFields DEF Asking
  <2>3. first \in AskOf(asks[a].sig, asks[a].seen) /\ first.pc = "embed"
    BY <2>2 DEF AskOf, Asking
  <2> HIDE DEF first
  <2>4. ask.pc = "embed"
    BY <2>3 DEF AskOf
  <2> HIDE DEF ask
  <2> QED
    BY <1>1, <2>1, <2>4
<1> QED
  BY <1>1, <1>7, AskFields DEF Fits, Held, Asking

\* A free answer comes from the reader's own scope and, unless two states of the
\* corpus share a signature, from chunks that were in the library while its
\* reader waited (Answer in rag.go, cache.go).
THEOREM ServedIsDueCorrect == CacheSpec => ServedIsDue
<1> DEFINE Due ==
      \A a \in Asker : Serves(a) =>
          LET answer == cache[KeyOf(a)] IN
          /\ \A c \in answer.from : c.doc \in Sources[asks[a].option]
          /\ answer.under = asks[a].seen => answer.from \subseteq asks[a].lately
<1>1. CacheInv /\ CacheNext => Due
  <2> SUFFICES ASSUME CacheInv, CacheNext, NEW a \in Asker, Serves(a)
               PROVE  LET answer == cache[KeyOf(a)] IN
                      /\ \A c \in answer.from : c.doc \in Sources[asks[a].option]
                      /\ answer.under = asks[a].seen => answer.from \subseteq asks[a].lately
    OBVIOUS
  <2> DEFINE key == KeyOf(a)
  <2>1. key \in Held
    BY ServesFromItsKey
  <2>2. key[1] = asks[a].option
    BY DEF KeyOf, cacheKey
  <2>3. <<cache[key].under, cache[key].from>> \in Made
    BY <2>1 DEF Made
  <2> HIDE DEF key
  <2>4. \A c \in cache[key].from : c.doc \in Sources[asks[a].option]
    BY <2>1, <2>2 DEF CacheInv, InReach
  <2>5. cache[key].under = asks[a].seen => cache[key].from \subseteq asks[a].lately
    BY <2>3 DEF CacheInv, ReadersOK, Serves
  <2> QED
    BY <2>4, <2>5 DEF key
<1>2. CacheInv /\ [CacheNext]_cacheVars => [Due]_cacheVars
  BY <1>1
<1> QED
  BY <1>2, CacheInvariance, PTL DEF CacheSpec, ServedIsDue

-------------------------------------------------------------------------------
(***************************************************************************)
(* The bound of the cache. The questions whose second statement is still   *)
(* to come, or never ran, are finitely many and pay for one answer each    *)
(* beyond the cap.                                                         *)
(***************************************************************************)
Unpruned == {a \in Asker : asks[a].pc \in {"prune", "unpruned"}}

Bounded ==
    /\ IsFiniteSet(Held)
    /\ IsFiniteSet(Unpruned)
    /\ CacheIsBounded

\* Nothing is stored, and nobody who owes a pruning is let off.
LEMMA NothingStored ==
    ASSUME Bounded, Held' \subseteq Held, Unpruned \subseteq Unpruned', IsFiniteSet(Unpruned')
    PROVE  Bounded'
<1>1. IsFiniteSet(Held') /\ Cardinality(Held') <= Cardinality(Held)
  BY FS_Subset DEF Bounded
<1>2. Cardinality(Unpruned) <= Cardinality(Unpruned')
  BY FS_Subset DEF Bounded
<1>3. /\ Cardinality(Held) \in Nat /\ Cardinality(Held') \in Nat
      /\ Cardinality(Unpruned) \in Nat /\ Cardinality(Unpruned') \in Nat
  BY <1>1, FS_CardinalityType DEF Bounded
<1>4. Cardinality(Held) <= Keep + Cardinality(Unpruned)
  BY DEF Bounded, CacheIsBounded, Unpruned
<1>5. Cardinality(Held') <= Keep + Cardinality(Unpruned')
  BY <1>1, <1>2, <1>3, <1>4, KeepAssumption
<1> QED
  BY <1>1, <1>5 DEF Bounded, CacheIsBounded, Unpruned

\* One answer is stored, and one question owes a pruning more.
LEMMA OneStored ==
    ASSUME Bounded, NEW key, Held' \subseteq Held \cup {key},
           NEW a \in Asker \ Unpruned, Unpruned' = Unpruned \cup {a}
    PROVE  Bounded'
<1>1. /\ IsFiniteSet(Held \cup {key})
      /\ Cardinality(Held \cup {key}) <= Cardinality(Held) + 1
      /\ Cardinality(Held) \in Nat
  <2>1. IsFiniteSet(Held) /\ Cardinality(Held) \in Nat
    BY FS_CardinalityType DEF Bounded
  <2>2. /\ IsFiniteSet(Held \cup {key})
        /\ Cardinality(Held \cup {key}) =
              IF key \in Held THEN Cardinality(Held) ELSE Cardinality(Held) + 1
    BY <2>1, FS_AddElement
  <2> QED
    BY <2>1, <2>2
<1>2. /\ IsFiniteSet(Held') /\ Cardinality(Held') <= Cardinality(Held \cup {key})
      /\ Cardinality(Held') \in Nat /\ Cardinality(Held \cup {key}) \in Nat
  BY <1>1, FS_Subset, FS_CardinalityType
<1>3. /\ IsFiniteSet(Unpruned') /\ Cardinality(Unpruned') = Cardinality(Unpruned) + 1
      /\ Cardinality(Unpruned) \in Nat
  BY FS_AddElement, FS_CardinalityType DEF Bounded
<1>4. Cardinality(Held) <= Keep + Cardinality(Unpruned)
  BY DEF Bounded, CacheIsBounded, Unpruned
<1>5. Cardinality(Held') <= Keep + Cardinality(Unpruned')
  BY <1>1, <1>2, <1>3, <1>4, KeepAssumption
<1> QED
  BY <1>2, <1>3, <1>5 DEF Bounded, CacheIsBounded, Unpruned

\* The cap is enforced.
LEMMA CutToTheCap ==
    ASSUME Bounded, NEW top \in Newest(Keep), Held' \subseteq top, Unpruned' \subseteq Unpruned
    PROVE  Bounded'
<1>1. IsFiniteSet(top) /\ Cardinality(top) <= Keep /\ Cardinality(top) \in Nat
  <2>1. IsFiniteSet(top) /\ Cardinality(Held) \in Nat
    BY FS_Subset, FS_CardinalityType DEF Bounded, Newest
  <2> QED
    BY <2>1, FS_CardinalityType, KeepAssumption DEF Newest
<1>2. /\ IsFiniteSet(Held') /\ Cardinality(Held') <= Cardinality(top)
      /\ Cardinality(Held') \in Nat
  BY <1>1, FS_Subset, FS_CardinalityType
<1>3. IsFiniteSet(Unpruned') /\ Cardinality(Unpruned') \in Nat
  BY FS_Subset, FS_CardinalityType DEF Bounded
<1>4. Cardinality(Held') <= Keep + Cardinality(Unpruned')
  BY <1>1, <1>2, <1>3, KeepAssumption
<1> QED
  BY <1>2, <1>3, <1>4 DEF Bounded, CacheIsBounded, Unpruned

LEMMA BoundedStep == CacheInv /\ Bounded /\ [CacheNext]_cacheVars => Bounded'
<1> SUFFICES ASSUME CacheInv, Bounded, [CacheNext]_cacheVars
             PROVE  Bounded'
  OBVIOUS
<1>1. ASSUME UNCHANGED cache, Unpruned' = Unpruned
      PROVE  Bounded'
  BY <1>1, NothingStored DEF Held, Bounded
<1>2. ASSUME NEW a \in Asker, BeginAsk(a) \/ AskWork(a), ~Write(a), ~Prune(a)
      PROVE  Bounded'
  <2>1. a \notin Unpruned
    <3>1. BeginAsk(a) => asks[a].pc = "none"
      BY DEF BeginAsk, Ask
    <3>2. /\ ReadSig(a) => asks[a].pc = "sig"
          /\ LookUp(a) => asks[a].pc = "look"
          /\ EmbedQuestion(a) => asks[a].pc = "embed"
          /\ Rank(a) => asks[a].pc = "rank"
      BY DEF ReadSig, LookUp, EmbedQuestion, Rank
    <3>3. /\ Match(a) => asks[a].pc = "match"
          /\ Read(a) => asks[a].pc = "read"
          /\ Stitch(a) => asks[a].pc = "stitch"
          /\ Chat(a) => asks[a].pc = "chat"
      BY DEF Match, Read, Stitch, Chat
    <3> QED
      BY <1>2, <3>1, <3>2, <3>3 DEF AskWork, Unpruned
  <2>2. \A b \in Asker \ {a} : asks'[b] = asks[b]
    BY <1>2, OthersStand
  <2>3. Unpruned \subseteq Unpruned' /\ Unpruned' \subseteq Unpruned \cup {a}
    BY <2>1, <2>2 DEF Unpruned
  <2>4. IsFiniteSet(Unpruned')
    <3>1. IsFiniteSet(Unpruned \cup {a})
      BY FS_AddElement DEF Bounded
    <3> QED
      BY <2>3, <3>1, FS_Subset
  <2>5. Held' \subseteq Held
    <3>1. CASE UNCHANGED cache
      BY <3>1 DEF Held
    <3>2. CASE LookUp(a) /\ Fits(a) /\ cache' = [cache EXCEPT ![KeyOf(a)].used = now]
      <4>1. KeyOf(a) \in Held
        BY <3>2, AskFields DEF LookUp, Asking, Fits, Held
      <4> QED
        BY <3>2, <4>1, UsedIsTheSame
    <3> QED
      BY <1>2, <3>1, <3>2 DEF BeginAsk, Ask, AskWork, ReadSig, LookUp, EmbedQuestion, Rank,
                              Match, Read, Stitch, Chat
  <2> QED
    BY <2>3, <2>4, <2>5, NothingStored
<1>3. ASSUME NEW a \in Asker, Write(a)
      PROVE  Bounded'
  <2>1. /\ asks[a].pc = "write" /\ asks[a] \in AskOf(asks[a].sig, asks[a].seen)
        /\ KeyOf(a) \in Key /\ a \notin Unpruned
    BY <1>3, AskFields DEF Write, Asking, Unpruned
  <2>2. \A b \in Asker \ {a} : asks'[b] = asks[b]
    BY <1>3, OthersStand DEF AskWork
  <2>3. CASE UNCHANGED cache /\ End(a, "answered")
    <3> DEFINE end == [pc |-> "answered"]
    <3>1. asks'[a] = end
      BY <2>3 DEF End, CacheInv, AsksTyped
    <3>2. end.pc = "answered"
      OBVIOUS
    <3> HIDE DEF end
    <3>3. Unpruned' = Unpruned
      BY <2>1, <2>2, <3>1, <3>2 DEF Unpruned
    <3> QED
      BY <1>1, <2>3, <3>3
  <2>4. CASE /\ cache' = [cache EXCEPT ![KeyOf(a)] =
                           [from |-> asks[a].got, sig |-> asks[a].sig, used |-> now,
                            under |-> asks[a].seen]]
             /\ GoOn(a, "prune")
    <3>1. asks'[a] = [asks[a] EXCEPT !.pc = "prune"]
      BY <2>4 DEF GoOn, CacheInv, AsksTyped
    <3>2. asks'[a].pc = "prune"
      BY <2>1, <3>1 DEF AskOf
    <3>3. Unpruned' = Unpruned \cup {a}
      BY <2>2, <3>2 DEF Unpruned
    <3> DEFINE key == KeyOf(a)
               row == [from |-> asks[a].got, sig |-> asks[a].sig, used |-> now,
                       under |-> asks[a].seen]
    <3>4. cache' = [cache EXCEPT ![key] = row]
      BY <2>4
    <3> HIDE DEF key, row
    <3>5. Held' \subseteq Held \cup {key}
      BY <3>4 DEF Held, CacheInv, CacheTyped
    <3> QED
      BY <2>1, <3>3, <3>5, OneStored
  <2> QED
    BY <1>3, <2>3, <2>4 DEF Write
<1>4. ASSUME NEW a \in Asker, Prune(a)
      PROVE  Bounded'
  <2>1. \A b \in Asker \ {a} : asks'[b] = asks[b]
    BY <1>4, OthersStand DEF AskWork
  <2>2. a \in Unpruned
    BY <1>4 DEF Prune, Unpruned
  <2>3. CASE UNCHANGED cache /\ End(a, "unpruned")
    <3> DEFINE end == [pc |-> "unpruned"]
    <3>1. asks'[a] = end
      BY <2>3 DEF End, CacheInv, AsksTyped
    <3>2. end.pc = "unpruned"
      OBVIOUS
    <3> HIDE DEF end
    <3>3. Unpruned' = Unpruned
      BY <2>1, <2>2, <3>1, <3>2 DEF Unpruned
    <3> QED
      BY <1>1, <2>3, <3>3
  <2>4. CASE \E top \in Newest(Keep) :
                cache' = [k \in Key |-> IF k \in top /\ cache[k].sig = asks[a].sig
                                        THEN cache[k] ELSE NoAnswer]
    <3>1. PICK top \in Newest(Keep) :
             cache' = [k \in Key |-> IF k \in top /\ cache[k].sig = asks[a].sig
                                     THEN cache[k] ELSE NoAnswer]
      BY <2>4
    <3>2. Held' \subseteq top
      BY <3>1 DEF Held
    <3>3. Unpruned' \subseteq Unpruned
      BY <2>1, <2>2 DEF Unpruned
    <3> QED
      BY <3>1, <3>2, <3>3, CutToTheCap
  <2> QED
    BY <1>4, <2>3, <2>4 DEF Prune
<1>5. CASE CacheCrash
  <2>1. ASSUME NEW a \in Asker
        PROVE  a \in Unpruned' <=> a \in Unpruned
    <3>1. CASE asks[a].pc \in Asking
      <4> DEFINE end == [pc |-> IF asks[a].pc = "prune" THEN "unpruned" ELSE "crashed"]
      <4>1. asks'[a] = end
        BY <1>5, <3>1 DEF CacheCrash
      <4>2. end.pc = IF asks[a].pc = "prune" THEN "unpruned" ELSE "crashed"
        OBVIOUS
      <4> HIDE DEF end
      <4> QED
        BY <3>1, <4>1, <4>2 DEF Unpruned, Asking
    <3>2. CASE asks[a].pc \notin Asking
      BY <1>5, <3>2 DEF CacheCrash, Unpruned
    <3> QED
      BY <3>1, <3>2
  <2> QED
    BY <1>1, <1>5, <2>1 DEF CacheCrash, Unpruned
<1>6. CASE LibraryMoves
  <2>1. ASSUME NEW a \in Asker
        PROVE  asks'[a].pc = asks[a].pc
    <3>1. CASE asks[a].pc = "look"
      <4>1. asks[a] \in AskOf(asks[a].sig, asks[a].seen)
        BY <3>1, AskFields DEF Asking
      <4>2. asks'[a] = [asks[a] EXCEPT !.lately = @ \cup chunks']
        BY <1>6, <3>1 DEF LibraryMoves
      <4> QED
        BY <4>1, <4>2 DEF AskOf
    <3>2. CASE asks[a].pc # "look"
      BY <1>6, <3>2 DEF LibraryMoves
    <3> QED
      BY <3>1, <3>2
  <2> QED
    BY <1>1, <1>6, <2>1 DEF LibraryMoves, Unpruned
<1>7. CASE UNCHANGED cacheVars
  BY <1>1, <1>7 DEF cacheVars, Unpruned
<1> QED
  BY <1>2, <1>3, <1>4, <1>5, <1>6, <1>7 DEF CacheNext

\* The cache holds Keep answers and one more for every question that stored one
\* and has not pruned, yet or for good, however many questions overlap (cache.go).
THEOREM CacheIsBoundedCorrect == CacheSpec => []CacheIsBounded
<1>1. CacheInit => Bounded
  <2> SUFFICES ASSUME CacheInit
               PROVE  Bounded
    OBVIOUS
  <2>1. Held = {}
    BY DEF CacheInit, Held
  <2>2. Unpruned = {}
    BY DEF CacheInit, Unpruned
  <2> QED
    BY <2>1, <2>2, FS_EmptySet, KeepAssumption DEF Bounded, CacheIsBounded, Unpruned
<1>2. Bounded => CacheIsBounded
  BY DEF Bounded
<1> QED
  BY <1>1, <1>2, CacheInvariance, BoundedStep, PTL DEF CacheSpec
===============================================================================
