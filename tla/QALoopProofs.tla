----------------------------- MODULE QALoopProofs ------------------------------
(***************************************************************************)
(* Proofs about QALoop: the queue, the calls on it and the library they    *)
(* share, for any tickets, questions, paths, texts and requests and for    *)
(* every choice of Faults.                                                 *)
(***************************************************************************)
EXTENDS QALoop, LibraryProofs

USE DEF Idle, NoRow, NoCall, Nothing, Unfiled, Gone

(***************************************************************************)
(* The inductive invariant: what each place of a call knows. A confirm has *)
(* no save before it has taken the old document out, has one afterwards    *)
(* unless the answer has no chunk, and at its last step that save is over  *)
(* and what it wrote is approved. A way out that has read its document     *)
(* knows the save that published it: it writes no more, and unless the     *)
(* document is live nothing it wrote there is left; at the last step       *)
(* nothing of it answers.                                                  *)
(***************************************************************************)
\* The save has written what it ever will.
Over(w) == jobs[w].pc \in {"drop", "done", "failed", "crashed"}

ConfirmPC == {"unlist", "ingest", "close"}

CallOK(w) ==
    LET c == calls[w] IN
    /\ c.pc \in ConfirmPC => c.op = "confirm" /\ c.to \in QAPath /\ c.answer \in Body
    /\ c.pc \in {"look", "remove", "settle"} => c.op \in WayOut
    /\ c.pc = "look" => c.doc = Nothing /\ c.saw = Nothing
    /\ c.pc = "remove" => c.doc \in QAPath
    /\ c.pc = "unlist" => jobs[w] = Idle
    /\ c.pc = "ingest" => (jobs[w] = Idle <=> Pieces[c.answer] = 0)
    /\ c.pc = "close" => IngestReturned(w) /\ Written(c.to, w) \subseteq approved
    /\ c.pc \in {"remove", "settle"} /\ c.saw # Nothing => Over(c.saw)
    /\ c.pc = "remove" /\ c.saw # Nothing => Live(c.doc) \/ Written(c.doc, c.saw) = {}
    /\ c.pc = "settle" /\ c.doc # Nothing /\ c.saw # Nothing => ~Answers(c.doc, c.saw)

QAInv ==
    /\ IInv
    /\ QATypeOK
    /\ DocIffConfirmed
    /\ \A w \in Request : CallOK(w)

-------------------------------------------------------------------------------
\* A call that moves keeps all it has read.
LEMMA CallMoves ==
    ASSUME QATypeOK, NEW w \in Request, calls[w] # NoCall,
           NEW pc \in CallPC \cup {"done", "refused", "failed", "crashed"},
           CallTo(w, pc)
    PROVE  /\ calls' \in [Request -> Call \cup {NoCall}]
           /\ calls[w] \in Call
           /\ calls'[w] \in Call
           /\ calls'[w].pc = pc
           /\ calls'[w].op = calls[w].op
           /\ calls'[w].ticket = calls[w].ticket
           /\ calls'[w].doc = calls[w].doc
           /\ calls'[w].to = calls[w].to
           /\ calls'[w].answer = calls[w].answer
           /\ calls'[w].saw = calls[w].saw
           /\ \A v \in Request \ {w} : calls'[v] = calls[v]
<1> DEFINE moved == [calls[w] EXCEPT !.pc = pc]
<1>1. calls[w] \in Call /\ calls' = [calls EXCEPT ![w] = moved]
  BY DEF CallTo, QATypeOK
<1>2. /\ moved \in Call /\ moved.pc = pc /\ moved.op = calls[w].op
      /\ moved.ticket = calls[w].ticket /\ moved.doc = calls[w].doc
      /\ moved.to = calls[w].to /\ moved.answer = calls[w].answer
      /\ moved.saw = calls[w].saw
  BY <1>1 DEF Call
<1> HIDE DEF moved
<1> QED
  BY <1>1, <1>2 DEF QATypeOK

\* A call at a place of its program is a call.
LEMMA CallFields ==
    ASSUME QATypeOK, NEW w \in Request, calls[w].pc \in CallPC
    PROVE  /\ calls[w] \in Call
           /\ calls[w] # NoCall
BY DEF QATypeOK, CallPC

-------------------------------------------------------------------------------
(***************************************************************************)
(* What no step of the loop or of the library undoes, so that a call can   *)
(* rely on it while others act.                                            *)
(***************************************************************************)
JobsGoOn ==
    \A v \in Request :
        /\ jobs[v] # Idle => jobs'[v] # Idle
        /\ jobs[v].pc = "done" => jobs'[v].pc = "done"
        /\ Over(v) => Over(v)'

TextsStayGone ==
    \A p \in Path :
        /\ \A v \in Request :
              TookOver(v) /\ Live(p)' /\ docs'[p].by = v => Live(p) /\ docs[p].by = v
        /\ Live(p) /\ ~Live(p)' => ChunksOf(p)' = {}

ApprovalsStay ==
    /\ approved \cap chunks' \subseteq approved'
    /\ \A c \in chunks' : c \notin chunks => jobs[c.by].pc = "insert"

Undisturbed == JobsGoOn /\ TextsStayGone /\ ApprovalsStay

\* A save that only moves on.
LEMMA GoToUndisturbed ==
    ASSUME IInv, NEW w \in Request, NEW pc \in InFlight \cup Ended, GoTo(w, pc),
           jobs[w].pc # "idle", jobs[w].pc # "done",
           Over(w) => pc \in {"drop", "done", "failed", "crashed"}
    PROVE  JobsGoOn
<1>1. jobs[w] \in Job
  BY JobFields DEF IInv
<1>2. jobs'[w] = [jobs[w] EXCEPT !.pc = pc]
  BY DEF GoTo, IInv, TypeOK
<1>3. jobs'[w].pc = pc
  BY <1>1, <1>2 DEF Job
<1>4. \A v \in Request : v # w => jobs'[v] = jobs[v]
  BY DEF GoTo, IInv, TypeOK
<1> QED
  BY <1>3, <1>4 DEF JobsGoOn, Over, InFlight, Ended

LEMMA RemoveUndisturbed ==
    ASSUME IInv, NEW p \in Path, RemoveDocument(p)
    PROVE  TextsStayGone /\ ApprovalsStay
<1>1. CASE ~Live(p)
  BY <1>1 DEF RemoveDocument, storeVars, TextsStayGone, ApprovalsStay, Live
<1>2. CASE Live(p)
  <2>1. /\ \A q \in Path : q # p => docs'[q] = docs[q]
        /\ ~Live(p)'
    BY <1>2 DEF RemoveDocument, Live, IInv, TypeOK, StoreTypeOK, Row
  <2>2. TextsStayGone
    BY <1>2, <2>1 DEF TextsStayGone, Live, RemoveDocument, ChunksOf
  <2>3. ApprovalsStay
    BY <1>2 DEF RemoveDocument, ApprovalsStay
  <2> QED
    BY <2>2, <2>3
<1> QED
  BY <1>1, <1>2

LEMMA RemovedIsGone ==
    ASSUME IInv, NEW p \in Path, RemoveDocument(p)
    PROVE  /\ docs'[p].state # "live"
           /\ chunks' = chunks \/ ChunksOf(p)' = {}
           /\ Live(p) => ChunksOf(p)' = {}
BY DEF RemoveDocument, Live, storeVars, IInv, TypeOK, StoreTypeOK, Row, ChunksOf

LEMMA UpsertUndisturbed ==
    ASSUME IInv, NEW w \in Request, ~TookOver(w), NEW p \in Path, NEW b \in Body,
           UpsertDocument(p, b, w)
    PROVE  TextsStayGone /\ ApprovalsStay
<1> DEFINE row == [state |-> "live", body |-> b, by |-> w, at |-> now]
<1>1. docs' = [docs EXCEPT ![p] = row] /\ chunks' \subseteq chunks
      /\ approved' = approved \cap chunks'
  BY DEF UpsertDocument
<1>2. docs'[p].by = w /\ \A q \in Path : q # p => docs'[q] = docs[q]
  BY <1>1 DEF IInv, TypeOK, StoreTypeOK
<1>3. TextsStayGone
  BY <1>1, <1>2 DEF TextsStayGone, Live, IInv, TypeOK, StoreTypeOK
<1> QED
  BY <1>1, <1>3 DEF ApprovalsStay

\* Nothing of the tables moves.
LEMMA StillUndisturbed ==
    ASSUME UNCHANGED <<docs, chunks, approved>>
    PROVE  TextsStayGone /\ ApprovalsStay
BY DEF TextsStayGone, ApprovalsStay, Live

LEMMA WorkUndisturbed ==
    ASSUME IInv, NEW w \in Request, Work(w)
    PROVE  Undisturbed
<1>1. CASE Embed(w)
  <2>1. PICK pc \in {"upsert", "refused"} : GoTo(w, pc)
    BY <1>1 DEF Embed
  <2>2. JobsGoOn
    BY <1>1, <2>1, GoToUndisturbed DEF InFlight, Ended, Embed, Over
  <2> QED
    BY <1>1, <2>2, StillUndisturbed DEF Embed, storeVars, Undisturbed
<1>2. CASE Upsert(w)
  <2>1. PICK pc \in {"insert", "refused"} : GoTo(w, pc)
    BY <1>2 DEF Upsert
  <2>2. JobsGoOn
    BY <1>2, <2>1, GoToUndisturbed DEF InFlight, Ended, Upsert, Over
  <2>3. ~TookOver(w) /\ jobs[w].dst \in Path /\ jobs[w].body \in Body
    BY <1>2, JobFields DEF Upsert, TookOver, IInv, Job
  <2>4. TextsStayGone /\ ApprovalsStay
    BY <1>2, <2>3, UpsertUndisturbed, StillUndisturbed DEF Upsert, storeVars
  <2> QED
    BY <2>2, <2>4 DEF Undisturbed
<1>3. CASE Insert(w)
  <2>1. CASE GoTo(w, "failed") /\ UNCHANGED storeVars
    <3>1. JobsGoOn
      BY <1>3, <2>1, GoToUndisturbed DEF InFlight, Ended, Insert, Over
    <3> QED
      BY <2>1, <3>1, StillUndisturbed DEF storeVars, Undisturbed
  <2>2. CASE ~(GoTo(w, "failed") /\ UNCHANGED storeVars)
    <3> DEFINE next == IF jobs[w].ord + 1 = Pieces[jobs[w].body]
                       THEN AfterIngest(jobs[w]) ELSE "insert"
    <3>1. /\ InsertChunk(jobs[w].dst, w, jobs[w].ord)
          /\ jobs' = [jobs EXCEPT ![w].ord = jobs[w].ord + 1, ![w].pc = next]
      BY <1>3, <2>2 DEF Insert
    <3>2. next \in {"insert", "drop", "done"}
      BY DEF AfterIngest
    <3> HIDE DEF next
    <3>3. /\ jobs'[w].pc = next /\ jobs[w].pc = "insert"
          /\ \A v \in Request : v # w => jobs'[v] = jobs[v]
      BY <1>3, <3>1, JobFields DEF Insert, IInv, TypeOK, Job
    <3>4. JobsGoOn
      BY <3>2, <3>3 DEF JobsGoOn, Over
    <3>5. TextsStayGone /\ ApprovalsStay
      BY <3>1, <3>3 DEF InsertChunk, TextsStayGone, ApprovalsStay, Live
    <3> QED
      BY <3>4, <3>5 DEF Undisturbed
  <2> QED
    BY <2>1, <2>2
<1>4. CASE DropSource(w)
  <2>1. PICK pc \in {"done", "failed"} : GoTo(w, pc)
    BY <1>4 DEF DropSource
  <2>2. JobsGoOn
    BY <1>4, <2>1, GoToUndisturbed DEF InFlight, Ended, DropSource, Over
  <2>3. jobs[w].src \in Path
    BY <1>4, JobFields DEF DropSource, IInv, Job
  <2>4. TextsStayGone /\ ApprovalsStay
    BY <1>4, <2>3, RemoveUndisturbed, StillUndisturbed DEF DropSource, storeVars
  <2> QED
    BY <2>2, <2>4 DEF Undisturbed
<1> QED
  BY <1>1, <1>2, <1>3, <1>4 DEF Work

LEMMA DieUndisturbed ==
    ASSUME IInv, NEW process \in Process, Die(process)
    PROVE  /\ Undisturbed
           /\ \A v \in Request : jobs[v] = Idle => jobs'[v] = Idle
<1>1. ASSUME NEW v \in Request
      PROVE  \/ jobs'[v] = jobs[v]
             \/ /\ jobs[v].pc \in {"embed", "upsert"} /\ jobs'[v].pc = "refused"
             \/ /\ jobs[v].pc \in {"insert", "drop"} /\ jobs'[v].pc = "crashed"
  <2> SUFFICES ASSUME RunsIn(v, process) PROVE jobs'[v].pc =
                   IF jobs[v].pc \in {"embed", "upsert"} THEN "refused" ELSE "crashed"
    BY DEF Die, RunsIn, InFlight
  <2>1. jobs[v] \in Job
    BY JobFields DEF IInv, RunsIn, InFlight
  <2>2. CASE jobs[v].pc \in {"embed", "upsert"}
    <3>1. jobs'[v] = [jobs[v] EXCEPT !.pc = "refused"]
      BY <2>2 DEF Die
    <3> QED
      BY <2>1, <2>2, <3>1 DEF Job
  <2>3. CASE jobs[v].pc \notin {"embed", "upsert"}
    <3>1. jobs'[v] = [jobs[v] EXCEPT !.pc = "crashed"]
      BY <2>3 DEF Die
    <3> QED
      BY <2>1, <2>3, <3>1 DEF Job
  <2> QED
    BY <2>2, <2>3
<1>2. JobsGoOn
  BY <1>1 DEF JobsGoOn, Over
<1> QED
  BY <1>1, <1>2, StillUndisturbed DEF Die, RunsIn, storeVars, Undisturbed

LEMMA ArriveUndisturbed ==
    ASSUME IInv, NEW w \in Request, Arrive(w)
    PROVE  /\ Undisturbed
           /\ jobs[w] = Idle
           /\ \A v \in Request : v # w => jobs'[v] = jobs[v]
<1>1. /\ jobs[w] = Idle
      /\ \A v \in Request : v # w => jobs'[v] = jobs[v]
      /\ UNCHANGED storeVars
  BY DEF Arrive, Upload, UploadRefused, UploadUnchecked, Ingest, Update, Begin, IInv, TypeOK
<1>2. JobsGoOn
  BY <1>1 DEF JobsGoOn, Over
<1> QED
  BY <1>1, <1>2, StillUndisturbed DEF storeVars, Undisturbed

-------------------------------------------------------------------------------
\* What the library does beside the loop disturbs no call and begins no save
\* for one.
LEMMA LibraryStepUndisturbed ==
    ASSUME IInv, LibraryStep
    PROVE  /\ Undisturbed
           /\ IInv'
           /\ \A v \in Request : jobs[v] = Idle /\ calls[v] # NoCall => jobs'[v] = Idle
<1>1. IInv'
  <2>1. Next
    BY DEF LibraryStep, Next, Process
  <2> QED
    BY <2>1, NextIInv
<1>2. ASSUME NEW w \in Request, calls[w] = NoCall, Arrive(w)
      PROVE  /\ Undisturbed
             /\ \A v \in Request : jobs[v] = Idle /\ calls[v] # NoCall => jobs'[v] = Idle
  BY <1>2, ArriveUndisturbed
<1>3. ASSUME NEW w \in Request, Work(w)
      PROVE  /\ Undisturbed
             /\ \A v \in Request : jobs[v] = Idle => jobs'[v] = Idle
  <2>1. jobs[w].pc \in InFlight
    BY <1>3 DEF Work, Embed, Upsert, Insert, DropSource, InFlight
  <2>2. \A v \in Request : v # w => jobs'[v] = jobs[v]
    BY <1>3 DEF Work, Embed, Upsert, Insert, DropSource, GoTo, IInv, TypeOK
  <2> QED
    BY <1>3, <2>1, <2>2, WorkUndisturbed DEF InFlight
<1>4. ASSUME UNCHANGED jobs
      PROVE  /\ JobsGoOn
             /\ \A v \in Request : jobs[v] = Idle => jobs'[v] = Idle
  BY <1>4 DEF JobsGoOn, Over
<1>5. ASSUME NEW p \in Path, Remove(p)
      PROVE  /\ Undisturbed
             /\ \A v \in Request : jobs[v] = Idle => jobs'[v] = Idle
  BY <1>4, <1>5, RemoveUndisturbed DEF Remove, Undisturbed
<1>6. CASE Crash(CommandLine)
  BY <1>6, <1>1, DieUndisturbed DEF Crash, Process
<1>7. CASE Tick /\ UNCHANGED jobs
  BY <1>4, <1>7, <1>1, StillUndisturbed DEF Tick, Undisturbed
<1> QED
  BY <1>2, <1>3, <1>5, <1>6, <1>7, <1>1 DEF LibraryStep

\* A call that others leave alone keeps what it knows.
LEMMA CallKept ==
    ASSUME QAInv, Undisturbed, NEW w \in Request, calls'[w] = calls[w],
           jobs[w] = Idle /\ calls[w] # NoCall => jobs'[w] = Idle
    PROVE  CallOK(w)'
<1> DEFINE c == calls[w]
<1>1. CASE c = NoCall
  BY <1>1 DEF CallOK, ConfirmPC
<1>2. CASE c # NoCall
  <2>1. c \in Call /\ CallOK(w)
    BY <1>2 DEF QAInv, QATypeOK
  <2>2. /\ jobs[w] = Idle <=> jobs'[w] = Idle
        /\ jobs[w].pc = "done" => jobs'[w].pc = "done"
    BY <1>2 DEF Undisturbed, JobsGoOn
  <2>3. c.pc = "close" => IngestReturned(w)' /\ Written(c.to, w)' \subseteq approved'
    <3> SUFFICES ASSUME c.pc = "close"
                 PROVE  IngestReturned(w)' /\ Written(c.to, w)' \subseteq approved'
      OBVIOUS
    <3>1. IngestReturned(w) /\ Written(c.to, w) \subseteq approved
      BY <2>1 DEF CallOK
    <3>2. jobs[w].pc # "insert"
      BY <3>1 DEF IngestReturned
    <3>3. \A k \in chunks' : k.by = w => k \in chunks
      BY <3>2 DEF Undisturbed, ApprovalsStay
    <3>4. Written(c.to, w)' \subseteq Written(c.to, w)
      BY <3>3 DEF Written
    <3>5. Written(c.to, w)' \subseteq approved'
      BY <3>1, <3>4 DEF Undisturbed, ApprovalsStay, Written
    <3> QED
      BY <2>2, <3>1, <3>5 DEF IngestReturned
  <2>4. c.saw # Nothing => c.saw \in Request
    BY <2>1 DEF Call
  <2>5. c.pc \in {"remove", "settle"} /\ c.saw # Nothing => Over(c.saw)'
    BY <2>1, <2>4 DEF CallOK, Undisturbed, JobsGoOn
  <2>6. ASSUME c.pc \in {"remove", "settle"}, c.saw # Nothing, c.doc # Nothing
        PROVE  Written(c.doc, c.saw)' \subseteq Written(c.doc, c.saw)
    <3>1. jobs[c.saw].pc # "insert"
      BY <2>1, <2>6 DEF CallOK, Over
    <3> QED
      BY <3>1 DEF Undisturbed, ApprovalsStay, Written
  <2>7. ASSUME c.pc = "remove", c.saw # Nothing
        PROVE  Live(c.doc)' \/ Written(c.doc, c.saw)' = {}
    <3>1. c.doc \in Path /\ c.doc # Nothing
      BY <2>1, <2>7, QAPathAssumption, NothingAssumption DEF CallOK
    <3>2. Live(c.doc) \/ Written(c.doc, c.saw) = {}
      BY <2>1, <2>7 DEF CallOK
    <3> QED
      BY <2>6, <2>7, <3>1, <3>2 DEF Undisturbed, TextsStayGone, Written, ChunksOf
  <2>8. ASSUME c.pc = "settle", c.doc # Nothing, c.saw # Nothing
        PROVE  ~Answers(c.doc, c.saw)'
    <3>1. c.doc \in Path /\ c.saw \in Request
      BY <2>1, <2>8, QAPathAssumption DEF Call
    <3>2. TookOver(c.saw) /\ ~Answers(c.doc, c.saw)
      BY <2>1, <2>8 DEF CallOK, Over, TookOver
    <3> QED
      BY <2>6, <2>8, <3>1, <3>2 DEF Answers, Undisturbed, TextsStayGone
  <2> QED
    BY <2>1, <2>2, <2>3, <2>5, <2>7, <2>8 DEF CallOK
<1> QED
  BY <1>1, <1>2

\* A call that has come to an end knows nothing.
LEMMA EndedKnowsNothing ==
    ASSUME NEW w \in Request, calls'[w].pc \in {"done", "refused", "failed", "crashed"}
    PROVE  CallOK(w)'
BY DEF CallOK, ConfirmPC

LEMMA CallsKept ==
    ASSUME QAInv, Undisturbed, NEW w \in Request, CallOK(w)',
           \A v \in Request \ {w} : calls'[v] = calls[v],
           \A v \in Request \ {w} : jobs[v] = Idle /\ calls[v] # NoCall => jobs'[v] = Idle
    PROVE  \A v \in Request : CallOK(v)'
BY CallKept

\* The library stands still.
LEMMA StillStep ==
    ASSUME IInv, UNCHANGED vars
    PROVE  IInv' /\ Undisturbed
<1>1. IInv'
  BY NextIInv
<1>2. JobsGoOn
  BY DEF JobsGoOn, Over, vars
<1> QED
  BY <1>1, <1>2, StillUndisturbed DEF Undisturbed, vars

-------------------------------------------------------------------------------
(***************************************************************************)
(* One lemma for each step of a call: the library's invariant holds on,    *)
(* nobody is disturbed, and the call knows what its next place says.       *)
(***************************************************************************)
CallStepOK ==
    /\ IInv' /\ Undisturbed
    /\ calls' \in [Request -> Call \cup {NoCall}]
    /\ \A v \in Request : CallOK(v)'

\* A step that ends a call, whatever it did to the tables.
LEMMA EndOfCall ==
    ASSUME QAInv, IInv', Undisturbed, UNCHANGED jobs,
           NEW w \in Request, calls[w].pc \in CallPC,
           NEW pc \in {"done", "refused", "failed", "crashed"}, CallTo(w, pc)
    PROVE  CallStepOK
<1>1. /\ calls' \in [Request -> Call \cup {NoCall}]
      /\ calls'[w].pc = pc
      /\ \A v \in Request \ {w} : calls'[v] = calls[v]
  BY CallFields, CallMoves DEF QAInv
<1> QED
  BY <1>1, EndedKnowsNothing, CallsKept DEF CallStepOK

LEMMA BeginCallOK ==
    ASSUME QAInv, NEW w \in Request, BeginCall(w)
    PROVE  CallStepOK
<1>1. ASSUME NEW t \in Ticket, NEW a \in Body, NEW name \in QAPath \cup {Nothing},
             Confirm(w, t, a, name)
      PROVE  CallStepOK
  <2> DEFINE c == [op |-> "confirm", ticket |-> t, pc |-> "unlist",
                   doc |-> tickets[t].doc, to |-> QAPathFor(t, name),
                   answer |-> a, saw |-> Nothing]
  <2>1. tickets[t].doc \in QAPath \cup {Nothing}
    BY <1>1 DEF Confirm, Exists, TicketRow
  <2>2. QAPathFor(t, name) \in QAPath
    BY <2>1, TicketPathAssumption DEF QAPathFor
  <2>3. /\ c \in Call /\ c.pc = "unlist" /\ c.op = "confirm"
        /\ c.to \in QAPath /\ c.answer \in Body
    BY <2>1, <2>2 DEF Call, CallPC
  <2>4. calls' = [calls EXCEPT ![w] = c] /\ jobs[w] = Idle /\ UNCHANGED vars
    BY <1>1 DEF Confirm
  <2> HIDE DEF c
  <2>5. /\ calls' \in [Request -> Call \cup {NoCall}] /\ calls'[w] = c
        /\ \A v \in Request \ {w} : calls'[v] = calls[v]
    BY <2>3, <2>4 DEF QAInv, QATypeOK
  <2>6. CallOK(w)'
    BY <2>3, <2>4, <2>5 DEF CallOK, ConfirmPC, vars
  <2> QED
    BY <2>4, <2>5, <2>6, StillStep, CallsKept DEF CallStepOK, QAInv, vars
<1>2. ASSUME NEW t \in Ticket, NEW op \in WayOut, Leave(w, op, t)
      PROVE  CallStepOK
  <2> DEFINE c == [op |-> op, ticket |-> t, pc |-> "look", doc |-> Nothing,
                   to |-> Nothing, answer |-> Nothing, saw |-> Nothing]
  <2>1. c \in Call /\ c.pc = "look" /\ c.op \in WayOut /\ c.doc = Nothing /\ c.saw = Nothing
    BY DEF Call, CallPC
  <2>2. calls' = [calls EXCEPT ![w] = c] /\ UNCHANGED vars
    BY <1>2 DEF Leave
  <2> HIDE DEF c
  <2>3. /\ calls' \in [Request -> Call \cup {NoCall}] /\ calls'[w] = c
        /\ \A v \in Request \ {w} : calls'[v] = calls[v]
    BY <2>1, <2>2 DEF QAInv, QATypeOK
  <2>4. CallOK(w)'
    BY <2>1, <2>3 DEF CallOK, ConfirmPC
  <2> QED
    BY <2>2, <2>3, <2>4, StillStep, CallsKept DEF CallStepOK, QAInv, vars
<1> QED
  BY <1>1, <1>2 DEF BeginCall

LEMMA UnlistOK ==
    ASSUME QAInv, NEW w \in Request, Unlist(w)
    PROVE  CallStepOK
<1> DEFINE c == calls[w]
<1>1. c.pc = "unlist" /\ c \in Call /\ c # NoCall /\ jobs[w] = Idle
      /\ c.op = "confirm" /\ c.to \in QAPath /\ c.answer \in Body
  BY CallFields DEF Unlist, CallPC, QAInv, CallOK, ConfirmPC
<1>2. CASE CallTo(w, "failed") /\ UNCHANGED vars
  BY <1>1, <1>2, StillStep, EndOfCall DEF QAInv, CallPC, vars
<1>3. CASE /\ IF c.doc \notin {Nothing, c.to} THEN RemoveDocument(c.doc)
              ELSE UNCHANGED storeVars
           /\ jobs' = IF Pieces[c.answer] = 0 THEN jobs
                      ELSE [jobs EXCEPT ![w] =
                              NewJob("embed", "confirm", c.to, c.to, c.answer)]
           /\ CallTo(w, "ingest")
  <2>1. /\ calls' \in [Request -> Call \cup {NoCall}]
        /\ calls'[w].pc = "ingest" /\ calls'[w].op = "confirm"
        /\ calls'[w].to = c.to /\ calls'[w].answer = c.answer
        /\ \A v \in Request \ {w} : calls'[v] = calls[v]
    BY <1>1, <1>3, CallMoves DEF QAInv, CallPC
  <2> DEFINE j == NewJob("embed", "confirm", c.to, c.to, c.answer)
  <2>2. CASE Pieces[c.answer] = 0
    <3>1. UNCHANGED jobs
      BY <1>3, <2>2
    <3>2. JobsGoOn /\ OwnersKept /\ OrdFollowsPc'
      BY <3>1 DEF JobsGoOn, OwnersKept, Over, TookOver, QAInv, IInv, OrdFollowsPc
    <3>3. CASE RemoveDocument(c.doc) /\ c.doc \in Path
      <4>1. TypeOK'
        BY <3>1, <3>3, RemoveTyped DEF QAInv, IInv, TypeOK
      <4>2. IInv' /\ Undisturbed
        BY <3>2, <3>3, <4>1, RemoveStep, RemoveUndisturbed DEF QAInv, Undisturbed
      <4>3. CallOK(w)'
        BY <1>1, <2>1, <2>2, <3>1 DEF CallOK, ConfirmPC
      <4> QED
        BY <2>1, <3>1, <4>2, <4>3, CallsKept DEF CallStepOK
    <3>4. CASE UNCHANGED storeVars
      <4>1. IInv' /\ Undisturbed
        BY <3>1, <3>4, StillStep DEF QAInv, vars, storeVars
      <4>2. CallOK(w)'
        BY <1>1, <2>1, <2>2, <3>1 DEF CallOK, ConfirmPC
      <4> QED
        BY <2>1, <3>1, <4>1, <4>2, CallsKept DEF CallStepOK
    <3>5. c.doc # Nothing => c.doc \in Path
      BY <1>1, QAPathAssumption DEF Call
    <3> QED
      BY <1>3, <3>3, <3>4, <3>5
  <2>3. CASE Pieces[c.answer] # 0
    <3>1. j \in Job /\ j.pc = "embed" /\ j.ord = 0 /\ j.body = c.answer
      BY <1>1, QAPathAssumption DEF NewJob, Job, InFlight, Kind
    <3>2. jobs' = [jobs EXCEPT ![w] = j]
      BY <1>3, <2>3
    <3> HIDE DEF j
    <3>3. c.doc # Nothing => c.doc \in Path
      BY <1>1, QAPathAssumption DEF Call
    <3>4. StoreTypeOK'
      <4>1. CASE UNCHANGED storeVars
        BY <4>1 DEF QAInv, IInv, TypeOK, StoreTypeOK, storeVars
      <4> QED
        BY <1>3, <3>3, <4>1, RemoveTyped DEF QAInv, IInv, TypeOK
    <3>5. /\ jobs'[w] = j
          /\ \A v \in Request : v # w => jobs'[v] = jobs[v]
          /\ TypeOK' /\ OrdFollowsPc' /\ OwnersKept
      BY <1>1, <2>3, <3>1, <3>2, <3>4, BeginJob DEF QAInv
    <3>6. JobsGoOn
      BY <1>1, <3>1, <3>5 DEF JobsGoOn, Over
    <3>7. IInv' /\ TextsStayGone /\ ApprovalsStay
      <4>1. CASE UNCHANGED storeVars
        BY <3>5, <4>1, QuietStep, StillUndisturbed DEF QAInv, storeVars
      <4> QED
        BY <1>3, <3>3, <3>5, <4>1, RemoveStep, RemoveUndisturbed DEF QAInv
    <3>8. CallOK(w)'
      BY <1>1, <2>1, <2>3, <3>1, <3>5 DEF CallOK, ConfirmPC
    <3> QED
      BY <2>1, <3>5, <3>6, <3>7, <3>8, CallsKept DEF CallStepOK, Undisturbed
  <2> QED
    BY <2>2, <2>3
<1> QED
  BY <1>2, <1>3 DEF Unlist

\* The approval: the save is over, so every chunk it wrote is there to be marked.
LEMMA ApproveAnswerOK ==
    ASSUME QAInv, NEW w \in Request, ApproveAnswer(w)
    PROVE  CallStepOK
<1> DEFINE c == calls[w]
<1>1. /\ c.pc = "ingest" /\ c \in Call /\ c # NoCall
      /\ c.op = "confirm" /\ c.to \in QAPath /\ c.answer \in Body
      /\ IngestReturned(w) /\ UNCHANGED jobs
  BY CallFields DEF ApproveAnswer, CallPC, QAInv, CallOK, ConfirmPC
<1>2. CASE CallTo(w, "failed") /\ UNCHANGED storeVars
  BY <1>1, <1>2, StillStep, EndOfCall DEF QAInv, CallPC, vars, storeVars
<1>3. CASE Approve(c.to) /\ CallTo(w, "close")
  <2>1. /\ calls' \in [Request -> Call \cup {NoCall}]
        /\ calls'[w].pc = "close" /\ calls'[w].op = "confirm"
        /\ calls'[w].to = c.to /\ calls'[w].answer = c.answer
        /\ \A v \in Request \ {w} : calls'[v] = calls[v]
    BY <1>1, <1>3, CallMoves DEF QAInv, CallPC
  <2>2. /\ UNCHANGED <<docs, chunks, vecs, now>>
        /\ approved' = approved \cup ChunksOf(c.to)
    BY <1>3 DEF Approve
  <2>3. JobsGoOn /\ OwnersKept /\ OrdFollowsPc'
    BY <1>1 DEF JobsGoOn, OwnersKept, Over, TookOver, QAInv, IInv, OrdFollowsPc
  <2>4. TypeOK'
    BY <1>1, <2>2 DEF QAInv, IInv, TypeOK, StoreTypeOK, ChunksOf
  <2>5. IInv'
    BY <2>2, <2>3, <2>4, QuietStep DEF QAInv
  <2>6. Undisturbed
    BY <2>2, <2>3 DEF Undisturbed, TextsStayGone, ApprovalsStay, Live
  <2>7. IngestReturned(w)' /\ Written(c.to, w)' \subseteq approved'
    BY <1>1, <2>1, <2>2 DEF IngestReturned, Written, ChunksOf
  <2>8. CallOK(w)'
    BY <1>1, <2>1, <2>7 DEF CallOK, ConfirmPC
  <2> QED
    BY <1>1, <2>1, <2>5, <2>6, <2>8, CallsKept DEF CallStepOK
<1> QED
  BY <1>1, <1>2, <1>3 DEF ApproveAnswer

LEMMA CloseOK ==
    ASSUME QAInv, NEW w \in Request, Close(w)
    PROVE  CallStepOK
<1>1. calls[w].pc \in CallPC /\ UNCHANGED vars
  BY DEF Close, CallPC
<1>2. PICK pc \in {"done", "refused", "failed"} : CallTo(w, pc)
  BY DEF Close
<1> QED
  BY <1>1, <1>2, StillStep, EndOfCall DEF QAInv, vars

\* The lookup: a document it finds published has an owner, which has taken the
\* place over and will write no more.
LEMMA LookOK ==
    ASSUME QAInv, NEW w \in Request, Look(w)
    PROVE  CallStepOK
<1> DEFINE c == calls[w]
           named == tickets[c.ticket].doc
<1>1. /\ c.pc = "look" /\ c \in Call /\ c # NoCall /\ c.op \in WayOut
      /\ c.doc = Nothing /\ c.saw = Nothing /\ UNCHANGED vars
  BY CallFields DEF Look, CallPC, QAInv, CallOK
<1>2. IInv' /\ Undisturbed
  BY <1>1, StillStep DEF QAInv
<1>3. CASE CallTo(w, "refused") \/ CallTo(w, "failed")
  BY <1>1, <1>2, <1>3, EndOfCall DEF CallPC, vars
<1>4. CASE CallTo(w, "settle")
  <2>1. /\ calls' \in [Request -> Call \cup {NoCall}]
        /\ calls'[w].pc = "settle" /\ calls'[w].op = c.op
        /\ calls'[w].doc = c.doc /\ calls'[w].saw = c.saw
        /\ \A v \in Request \ {w} : calls'[v] = calls[v]
    BY <1>1, <1>4, CallMoves DEF QAInv, CallPC
  <2>2. CallOK(w)'
    BY <1>1, <2>1 DEF CallOK, ConfirmPC
  <2> QED
    BY <1>1, <1>2, <2>1, <2>2, CallsKept DEF CallStepOK, vars
<1>5. CASE /\ Exists(c.ticket) /\ named # Nothing
           /\ calls' = [calls EXCEPT ![w].pc = "remove", ![w].doc = named,
                          ![w].saw = Published(named)]
  <2>1. named \in QAPath /\ named \in Path
    BY <1>5, QAPathAssumption DEF Exists, TicketRow
  <2>2. PICK saw \in Request \cup {Nothing} :
           /\ saw = Published(named)
           /\ saw # Nothing => saw \in Request /\ Over(saw) /\ Live(named)
    <3>1. CASE Published(named) # Nothing
      <4>1. Live(named) /\ jobs[docs[named].by].pc # "insert"
        BY <3>1 DEF Published
      <4>2. docs[named] # NoRow
        BY <4>1 DEF Live
      <4>3. docs \in [Path -> Row \cup {NoRow}]
        BY DEF QAInv, IInv, TypeOK, StoreTypeOK
      <4>4. docs[named] \in Row
        BY <2>1, <4>2, <4>3
      <4>5. docs[named].by \in Request /\ TookOver(docs[named].by)
        BY <2>1, <4>2, <4>4 DEF Row, QAInv, IInv, RowHasOwner
      <4> QED
        BY <4>1, <4>5 DEF Published, TookOver, Over
    <3>2. CASE Published(named) = Nothing
      BY <3>2
    <3> QED
      BY <3>1, <3>2
  <2> DEFINE first == [c EXCEPT !.pc = "remove"]
             second == [first EXCEPT !.doc = named]
             read == [second EXCEPT !.saw = saw]
  <2>3. calls' = [calls EXCEPT ![w] = read]
    BY <1>1, <1>5, <2>2 DEF QAInv, QATypeOK
  <2>4. first \in Call /\ first.pc = "remove" /\ first.op = c.op
    BY <1>1 DEF Call, CallPC
  <2> HIDE DEF first
  <2>5. second \in Call /\ second.pc = "remove" /\ second.op = c.op /\ second.doc = named
    BY <2>1, <2>4 DEF Call
  <2> HIDE DEF second
  <2>6. /\ read \in Call /\ read.pc = "remove" /\ read.op = c.op
        /\ read.doc = named /\ read.saw = saw
    BY <2>2, <2>5 DEF Call
  <2> HIDE DEF read
  <2>7. /\ calls' \in [Request -> Call \cup {NoCall}] /\ calls'[w] = read
        /\ \A v \in Request \ {w} : calls'[v] = calls[v]
    BY <2>3, <2>6 DEF QAInv, QATypeOK
  <2>8. CallOK(w)'
    BY <1>1, <2>1, <2>2, <2>6, <2>7 DEF CallOK, ConfirmPC, Over, Live, vars
  <2> QED
    BY <1>1, <1>2, <2>7, <2>8, CallsKept DEF CallStepOK, vars
<1> QED
  BY <1>1, <1>3, <1>4, <1>5 DEF Look

\* The removal: the text the call saw is gone when it settles.
LEMMA UnpublishOK ==
    ASSUME QAInv, NEW w \in Request, Unpublish(w)
    PROVE  CallStepOK
<1> DEFINE c == calls[w]
<1>1. /\ c.pc = "remove" /\ c \in Call /\ c # NoCall /\ c.op \in WayOut
      /\ c.doc \in Path
      /\ c.saw # Nothing => /\ c.saw \in Request /\ Over(c.saw)
                            /\ Live(c.doc) \/ Written(c.doc, c.saw) = {}
      /\ UNCHANGED jobs
  BY CallFields, QAPathAssumption DEF Unpublish, CallPC, QAInv, CallOK, Call
<1>2. JobsGoOn /\ OwnersKept /\ OrdFollowsPc'
  BY <1>1 DEF JobsGoOn, OwnersKept, Over, TookOver, QAInv, IInv, OrdFollowsPc
<1>3. CASE CallTo(w, "failed") /\ UNCHANGED storeVars
  BY <1>1, <1>3, StillStep, EndOfCall DEF QAInv, CallPC, vars, storeVars
<1>4. CASE RemoveDocument(c.doc) /\ CallTo(w, "settle")
  <2>1. /\ calls' \in [Request -> Call \cup {NoCall}]
        /\ calls'[w].pc = "settle" /\ calls'[w].op = c.op
        /\ calls'[w].doc = c.doc /\ calls'[w].saw = c.saw
        /\ \A v \in Request \ {w} : calls'[v] = calls[v]
    BY <1>1, <1>4, CallMoves DEF QAInv, CallPC
  <2>2. TypeOK'
    BY <1>1, <1>4, RemoveTyped DEF QAInv, IInv, TypeOK
  <2>3. IInv' /\ Undisturbed
    BY <1>1, <1>2, <1>4, <2>2, RemoveStep, RemoveUndisturbed DEF QAInv, Undisturbed
  <2>4. /\ docs'[c.doc].state # "live"
        /\ chunks' = chunks \/ \A k \in chunks' : k.doc # c.doc
        /\ Live(c.doc) => \A k \in chunks' : k.doc # c.doc
    BY <1>1, <1>4, RemovedIsGone DEF QAInv, ChunksOf
  <2>5. c.saw # Nothing => ~Answers(c.doc, c.saw)'
    BY <1>1, <2>1, <2>4 DEF Answers, Live, Written
  <2>6. CallOK(w)'
    BY <1>1, <2>1, <2>5 DEF CallOK, ConfirmPC, Over, Answers, Live, Written
  <2> QED
    BY <1>1, <2>1, <2>3, <2>6, CallsKept DEF CallStepOK
<1> QED
  BY <1>1, <1>3, <1>4 DEF Unpublish

LEMMA SettleOK ==
    ASSUME QAInv, NEW w \in Request, Settle(w)
    PROVE  CallStepOK
<1>1. calls[w].pc \in CallPC /\ UNCHANGED vars
  BY DEF Settle, CallPC
<1>2. PICK pc \in {"done", "refused", "failed"} : CallTo(w, pc)
  BY DEF Settle
<1> QED
  BY <1>1, <1>2, StillStep, EndOfCall DEF QAInv, vars

LEMMA ServerCrashOK ==
    ASSUME QAInv, ServerCrash
    PROVE  CallStepOK
<1>1. Die(Server) /\ Server \in Process
  BY DEF ServerCrash, Process
<1>2. /\ IInv' /\ Undisturbed
      /\ \A v \in Request : jobs[v] = Idle => jobs'[v] = Idle
  BY <1>1, DieStep, DieUndisturbed DEF QAInv
<1>3. ASSUME NEW v \in Request
      PROVE  calls'[v] \in Call \cup {NoCall} /\ CallOK(v)'
  <2>1. CASE calls[v].pc \in CallPC
    <3>1. calls[v] \in Call
      BY <2>1, CallFields DEF QAInv
    <3>2. calls'[v] = [calls[v] EXCEPT !.pc = "crashed"]
      BY <2>1 DEF ServerCrash
    <3>3. calls'[v] \in Call /\ calls'[v].pc = "crashed"
      BY <3>1, <3>2 DEF Call
    <3> QED
      BY <3>3 DEF CallOK, ConfirmPC
  <2>2. CASE calls[v].pc \notin CallPC
    <3>1. calls'[v] = calls[v]
      BY <2>2 DEF ServerCrash
    <3> QED
      BY <1>2, <3>1, CallKept DEF QAInv, QATypeOK
  <2> QED
    BY <2>1, <2>2
<1>4. calls' \in [Request -> Call \cup {NoCall}]
  <2>1. \E f : calls' = [v \in Request |-> f[v]]
    <3>1. calls' = [v \in Request |-> calls'[v]]
      BY DEF ServerCrash
    <3> QED
      BY <3>1
  <2> QED
    BY <1>3, <2>1
<1> QED
  BY <1>2, <1>3, <1>4 DEF CallStepOK

\* Every step of the loop.
LEMMA CallsStepOK ==
    ASSUME QAInv, [QANext]_qaVars
    PROVE  CallStepOK
<1>1. ASSUME UNCHANGED <<vars, calls>>
      PROVE  CallStepOK
  <2>1. IInv' /\ Undisturbed
    BY <1>1, StillStep DEF QAInv
  <2> QED
    BY <1>1, <2>1, CallKept DEF CallStepOK, QAInv, QATypeOK, vars
<1>2. ASSUME NEW t \in Ticket, NEW q \in Question, OpenTicket(t, q)
      PROVE  CallStepOK
  BY <1>1, <1>2 DEF OpenTicket, vars
<1>3. ASSUME NEW t \in Ticket, NEW a \in Body, Draft(t, a)
      PROVE  CallStepOK
  BY <1>1, <1>3 DEF Draft, vars
<1>4. ASSUME NEW w \in Request, BeginCall(w) \/ CallWork(w)
      PROVE  CallStepOK
  BY <1>4, BeginCallOK, UnlistOK, ApproveAnswerOK, CloseOK, LookOK, UnpublishOK, SettleOK
     DEF CallWork
<1>5. CASE LibraryStep
  BY <1>5, LibraryStepUndisturbed, CallKept
     DEF CallStepOK, QAInv, QATypeOK, LibraryStep, loopVars
<1>6. CASE UNCHANGED qaVars
  BY <1>1, <1>6 DEF qaVars, vars
<1> QED
  BY <1>2, <1>3, <1>4, <1>5, <1>6, ServerCrashOK DEF QANext

-------------------------------------------------------------------------------
(***************************************************************************)
(* The tickets. A step of the loop leaves every ticket alone, or takes one *)
(* along an edge of its lifecycle; EdgeOf says which, with the fields.     *)
(***************************************************************************)
Filed(t, q) ==
    /\ tickets[t] = Unfiled /\ ~Covered(q)
    /\ tickets'[t] \in TicketRow
    /\ tickets'[t].status = "open" /\ tickets'[t].question = q /\ tickets'[t].doc = Nothing

Drafted(t) ==
    /\ Pending(t) /\ tickets[t] \in TicketRow /\ tickets'[t] \in TicketRow
    /\ tickets'[t].status = "answered" /\ tickets'[t].question = tickets[t].question
    /\ tickets'[t].doc = tickets[t].doc

ConfirmedBy(t, w) ==
    /\ calls[w].pc = "close" /\ calls[w].ticket = t /\ calls'[w].pc = "done"
    /\ tickets[t] \in TicketRow /\ tickets'[t] \in TicketRow
    /\ tickets[t].status \in {"open", "answered", "confirmed"}
    /\ tickets'[t].status = "confirmed" /\ tickets'[t].question = tickets[t].question
    /\ tickets'[t].doc = calls[w].to /\ calls[w].to \in QAPath
    /\ tickets'[t].answer = calls[w].answer

TakenBack(t) ==
    /\ tickets[t] \in TicketRow /\ tickets'[t] \in TicketRow
    /\ tickets[t].status = "confirmed" /\ ~Covered(tickets[t].question)
    /\ tickets'[t].status = "answered" /\ tickets'[t].question = tickets[t].question
    /\ tickets'[t].doc = Nothing

Dismissed(t) ==
    /\ tickets[t] \in TicketRow /\ tickets'[t] \in TicketRow
    /\ tickets[t].status \in {"open", "answered", "confirmed"}
    /\ tickets'[t].status = "rejected" /\ tickets'[t].question = tickets[t].question
    /\ tickets'[t].doc = Nothing

Dropped(t) == tickets[t] \in TicketRow /\ tickets'[t] = Gone

EdgeOf(t) ==
    \/ \E q \in Question : Filed(t, q)
    \/ Drafted(t)
    \/ \E w \in Request : ConfirmedBy(t, w)
    \/ TakenBack(t) \/ Dismissed(t) \/ Dropped(t)

\* One ticket moves, the others stay.
OneMoves ==
    \E t \in Ticket :
        /\ EdgeOf(t)
        /\ \E row : tickets' = [tickets EXCEPT ![t] = row]

LEMMA CloseMoves ==
    ASSUME QAInv, NEW w \in Request, Close(w), tickets' # tickets
    PROVE  OneMoves
<1> DEFINE t == calls[w].ticket
           a == calls[w].answer
           to == calls[w].to
<1>1. /\ calls[w] \in Call /\ calls[w] # NoCall /\ calls[w].pc = "close" /\ t \in Ticket
      /\ to \in QAPath /\ a \in Body
  BY CallFields DEF Close, CallPC, QAInv, CallOK, ConfirmPC, Call
<1>2. /\ tickets[t].status \in {"open", "answered", "confirmed"}
      /\ CallTo(w, "done")
      /\ tickets' = [tickets EXCEPT ![t].status = "confirmed", ![t].answer = a, ![t].doc = to]
  BY DEF Close
<1>3. tickets[t] \in TicketRow
  BY <1>1, <1>2 DEF QAInv, QATypeOK
<1> DEFINE first == [tickets[t] EXCEPT !.status = "confirmed"]
           second == [first EXCEPT !.answer = a]
           row == [second EXCEPT !.doc = to]
<1>4. tickets' = [tickets EXCEPT ![t] = row]
  BY <1>1, <1>2 DEF QAInv, QATypeOK
<1>5. /\ first \in TicketRow /\ first.status = "confirmed"
      /\ first.question = tickets[t].question
  BY <1>3 DEF TicketRow
<1> HIDE DEF first
<1>6. /\ second \in TicketRow /\ second.status = "confirmed"
      /\ second.question = tickets[t].question /\ second.answer = a
  BY <1>1, <1>5 DEF TicketRow
<1> HIDE DEF second
<1>7. /\ row \in TicketRow /\ row.status = "confirmed"
      /\ row.question = tickets[t].question /\ row.doc = to /\ row.answer = a
  BY <1>1, <1>6 DEF TicketRow
<1> HIDE DEF row
<1>8. tickets'[t] = row
  BY <1>1, <1>4 DEF QAInv, QATypeOK
<1>9. calls'[w].pc = "done"
  BY <1>1, <1>2, CallMoves DEF QAInv
<1>10. ConfirmedBy(t, w)
  BY <1>1, <1>2, <1>3, <1>7, <1>8, <1>9 DEF ConfirmedBy
<1> QED
  BY <1>1, <1>4, <1>10 DEF OneMoves, EdgeOf

LEMMA SettleMoves ==
    ASSUME QAInv, NEW w \in Request, Settle(w), tickets' # tickets
    PROVE  OneMoves
<1> DEFINE t == calls[w].ticket
           op == calls[w].op
<1>1. /\ calls[w] \in Call /\ t \in Ticket /\ op \in WayOut
  BY CallFields DEF Settle, CallPC, QAInv, CallOK, Call
<1>2. /\ MayLeave(op, t)
      /\ ~(op = "retract" /\ Covered(tickets[t].question))
      /\ tickets' = [tickets EXCEPT ![t] = Left(op, t)]
  BY DEF Settle
<1>3. tickets'[t] = Left(op, t)
  BY <1>1, <1>2 DEF QAInv, QATypeOK
<1>4. CASE op = "delete"
  <2>1. Dropped(t)
    BY <1>2, <1>3, <1>4 DEF Dropped, MayLeave, Left, Exists
  <2> QED
    BY <1>1, <1>2, <2>1 DEF OneMoves, EdgeOf
<1>5. CASE op = "retract" \/ op = "reject"
  <2>1. tickets[t] \in TicketRow
    <3>1. tickets[t].status \in {"open", "answered", "confirmed"}
      BY <1>2, <1>5 DEF MayLeave
    <3> QED
      BY <1>1, <3>1 DEF QAInv, QATypeOK
  <2> DEFINE status == IF op = "retract" THEN "answered" ELSE "rejected"
             first == [tickets[t] EXCEPT !.status = status]
             row == [first EXCEPT !.doc = Nothing]
  <2>2. tickets'[t] = row
    BY <1>3, <1>5 DEF Left
  <2>3. first \in TicketRow /\ first.status = status /\ first.question = tickets[t].question
    BY <2>1 DEF TicketRow
  <2> HIDE DEF first
  <2>4. /\ row \in TicketRow /\ row.status = status
        /\ row.question = tickets[t].question /\ row.doc = Nothing
    BY <2>3 DEF TicketRow
  <2> HIDE DEF row
  <2>5. TakenBack(t) \/ Dismissed(t)
    BY <1>2, <1>5, <2>1, <2>2, <2>4 DEF MayLeave, TakenBack, Dismissed
  <2> QED
    BY <1>1, <1>2, <2>5 DEF OneMoves, EdgeOf
<1> QED
  BY <1>1, <1>4, <1>5 DEF WayOut

LEMMA TicketMoves ==
    ASSUME QAInv, [QANext]_qaVars
    PROVE  UNCHANGED tickets \/ OneMoves
<1>1. ASSUME NEW t \in Ticket, NEW q \in Question, OpenTicket(t, q)
      PROVE  OneMoves
  <2> DEFINE row == [status |-> "open", question |-> q, answer |-> Nothing, doc |-> Nothing]
  <2>1. /\ row \in TicketRow /\ row.status = "open" /\ row.question = q
        /\ row.doc = Nothing
    BY DEF TicketRow
  <2>2. tickets' = [tickets EXCEPT ![t] = row] /\ tickets[t] = Unfiled /\ ~Covered(q)
    BY <1>1 DEF OpenTicket
  <2> HIDE DEF row
  <2>3. tickets'[t] = row
    BY <2>2 DEF QAInv, QATypeOK
  <2>4. Filed(t, q)
    BY <2>1, <2>2, <2>3 DEF Filed
  <2> QED
    BY <2>2, <2>4 DEF OneMoves, EdgeOf
<1>2. ASSUME NEW t \in Ticket, NEW a \in Body, Draft(t, a)
      PROVE  OneMoves
  <2> DEFINE first == [tickets[t] EXCEPT !.status = "answered"]
             row == [first EXCEPT !.answer = a]
  <2>1. tickets[t] \in TicketRow
    BY <1>2 DEF Draft, Pending, QAInv, QATypeOK
  <2>2. tickets' = [tickets EXCEPT ![t] = row]
    BY <1>2 DEF Draft, QAInv, QATypeOK
  <2>3. /\ first \in TicketRow /\ first.status = "answered"
        /\ first.question = tickets[t].question /\ first.doc = tickets[t].doc
    BY <2>1 DEF TicketRow
  <2> HIDE DEF first
  <2>4. /\ row \in TicketRow /\ row.status = "answered"
        /\ row.question = tickets[t].question /\ row.doc = tickets[t].doc
    BY <2>3 DEF TicketRow
  <2> HIDE DEF row
  <2>5. tickets'[t] = row
    BY <2>2 DEF QAInv, QATypeOK
  <2>6. Drafted(t)
    BY <1>2, <2>1, <2>4, <2>5 DEF Draft, Drafted
  <2> QED
    BY <2>2, <2>6 DEF OneMoves, EdgeOf
<1>3. ASSUME NEW w \in Request, BeginCall(w) \/ CallWork(w)
      PROVE  UNCHANGED tickets \/ OneMoves
  BY <1>3, CloseMoves, SettleMoves
     DEF BeginCall, Confirm, Leave, CallWork, Unlist, ApproveAnswer, Look, Unpublish
<1> QED
  BY <1>1, <1>2, <1>3 DEF QANext, ServerCrash, LibraryStep, loopVars, qaVars

-------------------------------------------------------------------------------
LEMMA EdgeTyped ==
    ASSUME QAInv, NEW t \in Ticket, EdgeOf(t)
    PROVE  /\ tickets'[t] \in TicketRow \cup {Gone}
           /\ tickets'[t] \in TicketRow =>
                 (tickets'[t].status = "confirmed" <=> tickets'[t].doc # Nothing)
<1>1. CASE \E q \in Question : Filed(t, q)
  BY <1>1 DEF Filed
<1>2. CASE Drafted(t)
  BY <1>2 DEF Drafted, QAInv, DocIffConfirmed, Exists, Pending
<1>3. CASE \E w \in Request : ConfirmedBy(t, w)
  <2>1. Nothing \notin QAPath
    BY NothingAssumption, QAPathAssumption
  <2> QED
    BY <1>3, <2>1 DEF ConfirmedBy
<1>4. CASE TakenBack(t) \/ Dismissed(t)
  BY <1>4 DEF TakenBack, Dismissed
<1>5. CASE Dropped(t)
  <2>1. Gone \notin TicketRow
    BY DEF TicketRow
  <2> QED
    BY <1>5, <2>1 DEF Dropped
<1> QED
  BY <1>1, <1>2, <1>3, <1>4, <1>5 DEF EdgeOf

LEMMA QAInvStep == QAInv /\ [QANext]_qaVars => QAInv'
<1> SUFFICES ASSUME QAInv, [QANext]_qaVars
             PROVE  QAInv'
  OBVIOUS
<1>1. CallStepOK
  BY CallsStepOK
<1>2. CASE UNCHANGED tickets
  <2>1. QATypeOK' /\ DocIffConfirmed'
    BY <1>1, <1>2 DEF CallStepOK, IInv, QAInv, QATypeOK, DocIffConfirmed, Exists
  <2> QED
    BY <1>1, <2>1 DEF CallStepOK, QAInv
<1>3. CASE OneMoves
  <2>0. PICK t \in Ticket : \E row : EdgeOf(t) /\ tickets' = [tickets EXCEPT ![t] = row]
    BY <1>3 DEF OneMoves
  <2>1. PICK row : EdgeOf(t) /\ tickets' = [tickets EXCEPT ![t] = row]
    BY <2>0
  <2>2. /\ tickets'[t] = row
        /\ \A s \in Ticket \ {t} : tickets'[s] = tickets[s]
    BY <2>1 DEF QAInv, QATypeOK
  <2>3. /\ row \in TicketRow \cup {Gone}
        /\ row \in TicketRow => (row.status = "confirmed" <=> row.doc # Nothing)
    BY <2>1, <2>2, EdgeTyped
  <2>4. QATypeOK'
    BY <1>1, <2>1, <2>3 DEF CallStepOK, IInv, QAInv, QATypeOK
  <2>5. DocIffConfirmed'
    BY <2>2, <2>3 DEF QAInv, DocIffConfirmed, Exists
  <2> QED
    BY <1>1, <2>4, <2>5 DEF CallStepOK, QAInv
<1> QED
  BY <1>2, <1>3, TicketMoves

LEMMA QAInitInv == QAInit => QAInv
<1> SUFFICES ASSUME QAInit
             PROVE  QAInv
  OBVIOUS
<1>1. IInv /\ TypeOK
  BY InitIInv DEF QAInit, IInv
<1>2. QATypeOK
  BY <1>1 DEF QAInit, QATypeOK
<1>3. DocIffConfirmed
  BY DEF QAInit, DocIffConfirmed, Exists, TicketRow
<1>4. \A w \in Request : CallOK(w)
  BY DEF QAInit, CallOK, ConfirmPC
<1> QED
  BY <1>1, <1>2, <1>3, <1>4 DEF QAInv

LEMMA QAInvariance == QASpec => []QAInv
BY QAInitInv, QAInvStep, PTL DEF QASpec

\* Tickets, calls and the library under them keep their types.
THEOREM QATypeCorrect == QASpec => []QATypeOK
<1>1. QAInv => QATypeOK
  BY DEF QAInv
<1> QED
  BY <1>1, QAInvariance, PTL

\* A ticket names a document exactly while it is confirmed, however confirms,
\* retracts, rejects and deletes of it overlap, fail and die (tickets.go).
THEOREM DocIffConfirmedCorrect == QASpec => []DocIffConfirmed
<1>1. QAInv => DocIffConfirmed
  BY DEF QAInv
<1> QED
  BY <1>1, QAInvariance, PTL

\* With ticket calls over it the library still gives a save that got through its
\* ingest its whole text: a confirm's save is one among the others (rag.go).
THEOREM LoopKeepsSaves == QASpec => [](SavedIsIndexed /\ RefusedWroteNothing)
<1>1. QAInv => SavedIsIndexed
  BY IngestedAreIndexed DEF QAInv
<1>2. QAInv => RefusedWroteNothing
  BY DEF QAInv, IInv, RowHasOwner, ChunkHasWriter, TookOver, RefusedWroteNothing
<1> QED
  BY <1>1, <1>2, QAInvariance, PTL

\* Whatever step records an answer as confirmed is the last of the confirm that
\* brought it, and unless that answer has no chunk its ingest wrote it and the whole
\* of it is live and approved, or its document was removed or taken over since
\* (qa.go Confirm).
THEOREM TicketClosesLastCorrect == QASpec => TicketClosesLast
<1> DEFINE ClosesLast ==
      \A t \in Ticket :
          /\ tickets'[t] # tickets[t] /\ tickets'[t].status = "confirmed"
          => \E w \in Request, p \in QAPath :
                /\ calls[w].pc \in CallPC /\ calls'[w] # calls[w]
                /\ calls[w].op = "confirm" /\ calls[w].ticket = t
                /\ calls[w].to = p /\ tickets'[t].doc = p
                /\ tickets'[t].answer = calls[w].answer
                /\ Pieces[calls[w].answer] # 0 =>
                      /\ IngestWrote(w)
                      /\ \/ Live(p) /\ docs[p].by = w
                            /\ Indexed(p) /\ Written(p, w) \subseteq approved
                         \/ docs[p].by # w
                         \/ ~Live(p)
<1>1. QAInv /\ [QANext]_qaVars => ClosesLast
  <2> SUFFICES ASSUME QAInv, [QANext]_qaVars, NEW t \in Ticket,
                      tickets'[t] # tickets[t], tickets'[t].status = "confirmed"
               PROVE  \E w \in Request, p \in QAPath :
                        /\ calls[w].pc \in CallPC /\ calls'[w] # calls[w]
                        /\ calls[w].op = "confirm" /\ calls[w].ticket = t
                        /\ calls[w].to = p /\ tickets'[t].doc = p
                        /\ tickets'[t].answer = calls[w].answer
                        /\ Pieces[calls[w].answer] # 0 =>
                              /\ IngestWrote(w)
                              /\ \/ Live(p) /\ docs[p].by = w
                                    /\ Indexed(p) /\ Written(p, w) \subseteq approved
                                 \/ docs[p].by # w
                                 \/ ~Live(p)
    OBVIOUS
  <2>0. PICK s \in Ticket : \E row : EdgeOf(s) /\ tickets' = [tickets EXCEPT ![s] = row]
    BY TicketMoves DEF OneMoves
  <2>1. PICK row : EdgeOf(s) /\ tickets' = [tickets EXCEPT ![s] = row]
    BY <2>0
  <2>2. s = t
    BY <2>1 DEF QAInv, QATypeOK
  <2>3. PICK w \in Request : ConfirmedBy(t, w)
    <3>1. ~Dropped(t)
      BY DEF Dropped
    <3> QED
      BY <2>1, <2>2, <3>1 DEF EdgeOf, Filed, Drafted, TakenBack, Dismissed
  <2> DEFINE p == calls[w].to
  <2>4. /\ calls[w].pc \in CallPC /\ calls'[w] # calls[w]
        /\ calls[w].ticket = t /\ p \in QAPath /\ tickets'[t].doc = p
        /\ tickets'[t].answer = calls[w].answer
    BY <2>3 DEF ConfirmedBy, CallPC
  <2>5. /\ calls[w].op = "confirm" /\ IngestReturned(w)
        /\ Written(p, w) \subseteq approved
    BY <2>3 DEF ConfirmedBy, QAInv, CallOK, ConfirmPC
  <2>6. Pieces[calls[w].answer] # 0 => IngestWrote(w)
    BY <2>5 DEF IngestReturned, IngestWrote
  <2>7. ASSUME Live(p), docs[p].by = w, IngestWrote(w)
        PROVE  Indexed(p)
    <3>1. p \in Path
      BY <2>4, QAPathAssumption
    <3>2. w \in Ingested
      BY <2>7 DEF IngestWrote, Ingested
    <3> QED
      BY <2>7, <3>1, <3>2, IngestedAreIndexed DEF QAInv, SavedIsIndexed
  <2> QED
    BY <2>4, <2>5, <2>6, <2>7
<1>2. QAInv /\ [QANext]_qaVars => [ClosesLast]_qaVars
  BY <1>1
<1> QED
  BY <1>2, QAInvariance, PTL DEF QASpec, TicketClosesLast

\* A way out that comes to its end was at its last step.
LEMMA SettleEndsIt ==
    ASSUME QAInv, [QANext]_qaVars, NEW w \in Request,
           calls[w].pc \in CallPC, calls[w].op \in WayOut, calls'[w].pc = "done"
    PROVE  calls[w].pc = "settle"
<1>1. calls[w] \in Call /\ calls[w] # NoCall /\ calls'[w] # calls[w]
  BY CallFields DEF QAInv, CallPC
<1>2. ~ServerCrash
  <2> SUFFICES ASSUME ServerCrash PROVE FALSE
    OBVIOUS
  <2>1. calls'[w] = [calls[w] EXCEPT !.pc = "crashed"]
    BY DEF ServerCrash
  <2> QED
    BY <1>1, <2>1 DEF Call
<1>3. PICK v \in Request : BeginCall(v) \/ CallWork(v)
  BY <1>1, <1>2 DEF QANext, OpenTicket, Draft, LibraryStep, loopVars, qaVars
<1>4. CASE BeginCall(v)
  <2>1. calls[v] = NoCall /\ \A u \in Request \ {v} : calls'[u] = calls[u]
    BY <1>4 DEF BeginCall, Confirm, Leave, QAInv, QATypeOK
  <2> QED
    BY <1>1, <2>1
<1>5. CASE CallWork(v)
  <2>1. v = w
    BY <1>1, <1>5 DEF CallWork, Unlist, ApproveAnswer, Close, Look, Unpublish, Settle,
                      CallTo, QAInv, QATypeOK
  <2>2. ~Close(w)
    BY DEF Close, QAInv, CallOK, ConfirmPC, WayOut
  <2>3. \A pc \in {"ingest", "close", "settle", "refused", "failed"} : ~CallTo(w, pc)
    BY <1>1, CallMoves DEF QAInv, CallPC
  <2>4. ~Look(w)
    <3> SUFFICES ASSUME Look(w) PROVE FALSE
      OBVIOUS
    <3> DEFINE named == tickets[calls[w].ticket].doc
               saw == Published(named)
    <3>1. calls' = [calls EXCEPT ![w].pc = "remove", ![w].doc = named, ![w].saw = saw]
      BY <2>3 DEF Look
    <3> HIDE DEF named, saw
    <3> DEFINE first == [calls[w] EXCEPT !.pc = "remove"]
               second == [first EXCEPT !.doc = named]
               read == [second EXCEPT !.saw = saw]
    <3>2. calls'[w] = read
      BY <1>1, <3>1 DEF QAInv, QATypeOK
    <3>3. read.pc = "remove"
      BY <1>1 DEF Call
    <3> QED
      BY <3>2, <3>3
  <2> QED
    BY <1>5, <2>1, <2>2, <2>3, <2>4 DEF CallWork, Unlist, ApproveAnswer, Unpublish, Settle
<1> QED
  BY <1>3, <1>4, <1>5

\* Whatever was saved, renamed, confirmed or removed meanwhile, nothing of the text
\* a retract, a reject or a delete found published answers when it settles: neither
\* its row nor a chunk of it (qa.go unpublish).
THEOREM UnpublishedFirstCorrect == QASpec => UnpublishedFirst
<1> DEFINE GoneFirst ==
      \A w \in Request :
          LET c == calls[w] IN
          /\ c.pc \in CallPC /\ c.op \in WayOut
          /\ calls'[w].pc = "done"
          /\ c.doc # Nothing /\ c.saw # Nothing
          => ~Answers(c.doc, c.saw)
<1>1. QAInv /\ [QANext]_qaVars => GoneFirst
  <2> SUFFICES ASSUME QAInv, [QANext]_qaVars, NEW w \in Request,
                      calls[w].pc \in CallPC, calls[w].op \in WayOut,
                      calls'[w].pc = "done",
                      calls[w].doc # Nothing, calls[w].saw # Nothing
               PROVE  ~Answers(calls[w].doc, calls[w].saw)
    OBVIOUS
  <2>1. calls[w].pc = "settle"
    BY SettleEndsIt
  <2> QED
    BY <2>1 DEF QAInv, CallOK
<1>2. QAInv /\ [QANext]_qaVars => [GoneFirst]_qaVars
  BY <1>1
<1> QED
  BY <1>2, QAInvariance, PTL DEF QASpec, UnpublishedFirst

-------------------------------------------------------------------------------
(***************************************************************************)
(* The loop seen from the library under it: a step of the library, or one  *)
(* of the two things only a ticket call does. A withdrawal takes out a     *)
(* document that is no longer wanted and may start the save of a confirm;  *)
(* an approval marks chunks.                                               *)
(***************************************************************************)
StartsConfirm(w) ==
    /\ jobs[w] = Idle
    /\ \E j \in Job : j.pc = "embed" /\ jobs' = [jobs EXCEPT ![w] = j]

Withdraws(w, p) ==
    /\ RemoveDocument(p) \/ UNCHANGED storeVars
    /\ StartsConfirm(w) \/ UNCHANGED jobs

LEMMA LoopFromBelow ==
    ASSUME QAInv, [QANext]_qaVars
    PROVE  \/ [Next]_vars
           \/ \E w \in Request, p \in Path : Withdraws(w, p)
           \/ \E p \in Path : Approve(p) /\ UNCHANGED jobs
<1>1. CASE UNCHANGED vars
  BY <1>1
<1>2. CASE LibraryStep
  BY <1>2 DEF LibraryStep, Next, Process
<1>3. CASE ServerCrash
  <2>1. CASE \E w \in Request : RunsIn(w, Server)
    BY <1>3, <2>1 DEF ServerCrash, Crash, Next, Process
  <2>2. CASE ~ \E w \in Request : RunsIn(w, Server)
    <3>1. jobs' = [w \in Request |-> jobs[w]]
      BY <1>3, <2>2 DEF ServerCrash, Die
    <3>2. UNCHANGED vars
      BY <1>3, <3>1 DEF ServerCrash, Die, storeVars, vars, QAInv, IInv, TypeOK
    <3> QED
      BY <3>2
  <2> QED
    BY <2>1, <2>2
<1>4. ASSUME NEW w \in Request, Unlist(w)
      PROVE  UNCHANGED vars \/ \E p \in Path : Withdraws(w, p)
  <2> DEFINE c == calls[w]
             j == NewJob("embed", "confirm", c.to, c.to, c.answer)
  <2>1. /\ jobs[w] = Idle /\ c.to \in QAPath /\ c.answer \in Body
        /\ c.doc \in QAPath \cup {Nothing}
    BY <1>4, CallFields DEF Unlist, CallPC, QAInv, CallOK, ConfirmPC, Call
  <2>2. j \in Job /\ j.pc = "embed"
    BY <2>1, QAPathAssumption DEF NewJob, Job, InFlight, Kind
  <2> SUFFICES ASSUME ~UNCHANGED vars
               PROVE  \E p \in Path : Withdraws(w, p)
    OBVIOUS
  <2>3. jobs' = jobs \/ jobs' = [jobs EXCEPT ![w] = j]
    BY <1>4 DEF Unlist, vars
  <2> HIDE DEF j
  <2>4. StartsConfirm(w) \/ UNCHANGED jobs
    BY <2>1, <2>2, <2>3 DEF StartsConfirm
  <2>5. c.to \in Path /\ (c.doc # Nothing => c.doc \in Path)
    BY <2>1, QAPathAssumption
  <2>6. \/ c.doc # Nothing /\ RemoveDocument(c.doc)
        \/ UNCHANGED storeVars
    BY <1>4 DEF Unlist, vars, storeVars
  <2> QED
    BY <2>4, <2>5, <2>6 DEF Withdraws
<1>5. ASSUME NEW w \in Request, Unpublish(w)
      PROVE  \E p \in Path : Withdraws(w, p)
  <2>1. calls[w].doc \in Path
    BY <1>5, QAPathAssumption DEF Unpublish, QAInv, CallOK
  <2> QED
    BY <1>5, <2>1 DEF Unpublish, Withdraws
<1>6. ASSUME NEW w \in Request, ApproveAnswer(w)
      PROVE  UNCHANGED vars \/ \E p \in Path : Approve(p) /\ UNCHANGED jobs
  <2>1. calls[w].to \in Path
    BY <1>6, QAPathAssumption DEF ApproveAnswer, QAInv, CallOK, ConfirmPC
  <2> QED
    BY <1>6, <2>1 DEF ApproveAnswer, vars, storeVars
<1>7. ASSUME NEW w \in Request, BeginCall(w) \/ Close(w) \/ Look(w) \/ Settle(w)
      PROVE  UNCHANGED vars
  BY <1>7 DEF BeginCall, Confirm, Leave, Close, Look, Settle
<1>8. ASSUME NEW t \in Ticket
      PROVE  /\ \A q \in Question : OpenTicket(t, q) => UNCHANGED vars
             /\ \A a \in Body : Draft(t, a) => UNCHANGED vars
  BY DEF OpenTicket, Draft
<1>9. UNCHANGED qaVars => UNCHANGED vars
  BY DEF qaVars, vars
<1> QED
  BY <1>1, <1>2, <1>3, <1>4, <1>5, <1>6, <1>7, <1>8, <1>9 DEF QANext, CallWork

\* The save of a confirm has taken nothing over when it starts.
LEMMA StartKeepsBegun ==
    ASSUME IInv, NEW w \in Request, StartsConfirm(w) \/ UNCHANGED jobs
    PROVE  Begun' = Begun
<1>1. CASE UNCHANGED jobs
  BY <1>1 DEF Begun, TookOver
<1>2. CASE StartsConfirm(w)
  <2>1. PICK j \in Job : j.pc = "embed" /\ jobs' = [jobs EXCEPT ![w] = j]
    BY <1>2 DEF StartsConfirm
  <2>2. jobs'[w] = j /\ \A v \in Request : v # w => jobs'[v] = jobs[v]
    BY <2>1 DEF IInv, TypeOK
  <2>3. ~TookOver(w) /\ ~TookOver(w)'
    BY <1>2, <2>1, <2>2 DEF StartsConfirm, TookOver
  <2> QED
    BY <2>2, <2>3, BegunKept
<1> QED
  BY <1>1, <1>2

\* With ticket calls over it the library still implements the shelf: a confirm
\* and a way out are a save and a removal among the others (qa.go).
THEOREM LoopImplementsShelf == QASpec => ImplementsShelf
<1>1. QAInit => TheShelf!ShelfInit
  BY ShelfStart DEF QAInit
<1>2. QAInv /\ [QANext]_qaVars => [TheShelf!ShelfNext]_<<ShelfPlace, Begun>>
  <2> SUFFICES ASSUME QAInv, [QANext]_qaVars
               PROVE  TheShelf!ShelfNext \/ UNCHANGED <<ShelfPlace, Begun>>
    OBVIOUS
  <2>1. CASE [Next]_vars
    BY <2>1, ShelfStep DEF QAInv
  <2>2. ASSUME NEW w \in Request, NEW p \in Path, Withdraws(w, p)
        PROVE  TheShelf!ShelfNext \/ UNCHANGED <<ShelfPlace, Begun>>
    <3>1. Begun' = Begun
      BY <2>2, StartKeepsBegun DEF Withdraws, QAInv
    <3>2. CASE RemoveDocument(p)
      <4>1. TheShelf!Withdraw(p) \/ UNCHANGED <<ShelfPlace, Begun>>
        BY <3>1, <3>2, RemoveWithdraws DEF QAInv
      <4> QED
        BY <4>1 DEF TheShelf!ShelfNext
    <3>3. CASE UNCHANGED storeVars
      BY <3>1, <3>3, ShelfStutter DEF storeVars
    <3> QED
      BY <2>2, <3>2, <3>3 DEF Withdraws
  <2>3. ASSUME NEW p \in Path, Approve(p), UNCHANGED jobs
        PROVE  UNCHANGED <<ShelfPlace, Begun>>
    <3>1. Begun' = Begun
      BY <2>3 DEF Begun, TookOver
    <3> QED
      BY <2>3, <3>1, ShelfStutter DEF Approve
  <2> QED
    BY <2>1, <2>2, <2>3, LoopFromBelow
<1> QED
  BY <1>1, <1>2, QAInvariance, PTL
     DEF QASpec, ImplementsShelf, TheShelf!ShelfSpec, TheShelf!shelfVars, Begun

\* And no move loses its source before its destination answers: what the calls
\* take out of the library is never taken out by the save of somebody else's
\* move (upload.go Update).
THEOREM LoopKeepsMoves == QASpec => MoveDropsLast
<1>1. QAInv /\ [QANext]_qaVars => [DropsLast]_vars
  <2> SUFFICES ASSUME QAInv, [QANext]_qaVars
               PROVE  DropsLast \/ UNCHANGED vars
    OBVIOUS
  <2>1. CASE [Next]_vars
    BY <2>1, DropsLastStep DEF QAInv
  <2>2. ASSUME NEW w \in Request, StartsConfirm(w) \/ UNCHANGED jobs
        PROVE  DropsLast
    <3>1. \A v \in Request : jobs[v] # Idle => jobs'[v] = jobs[v]
      BY <2>2 DEF StartsConfirm, QAInv, IInv, TypeOK
    <3> QED
      BY <3>1 DEF DropsLast
  <2>3. ASSUME UNCHANGED jobs
        PROVE  DropsLast
    BY <2>3 DEF DropsLast
  <2> QED
    BY <2>1, <2>2, <2>3, LoopFromBelow DEF Withdraws
<1> QED
  BY <1>1, QAInvariance, PTL DEF QASpec, MoveDropsLast, DropsLast

\* Vectors and chunks stay together under the loop too, while the DELETEs of
\* UpsertDocument succeed (store.go).
THEOREM LoopKeepsVectors ==
    ASSUME "delete" \notin Faults
    PROVE  QASpec => []VectorsMatchChunks
<1>1. QAInit => VectorsMatchChunks
  BY DEF QAInit, Init, StoreInit, VectorsMatchChunks
<1>2. QAInv /\ VectorsMatchChunks /\ [QANext]_qaVars => VectorsMatchChunks'
  <2> SUFFICES ASSUME QAInv, VectorsMatchChunks, [QANext]_qaVars
               PROVE  VectorsMatchChunks'
    OBVIOUS
  <2>1. CASE [Next]_vars
    BY <2>1, VectorsStep
  <2>2. ASSUME NEW w \in Request, NEW p \in Path, Withdraws(w, p)
        PROVE  VectorsMatchChunks'
    BY <2>2 DEF Withdraws, RemoveDocument, storeVars, VectorsMatchChunks
  <2>3. ASSUME NEW p \in Path, Approve(p)
        PROVE  VectorsMatchChunks'
    BY <2>3 DEF Approve, VectorsMatchChunks
  <2> QED
    BY <2>1, <2>2, <2>3, LoopFromBelow
<1> QED
  BY <1>1, <1>2, QAInvariance, PTL DEF QASpec

-------------------------------------------------------------------------------
(***************************************************************************)
(* The queue implements the desk.                                          *)
(***************************************************************************)
\* What the desk shows of one ticket.
ItemOf(t) ==
    IF Exists(t)
    THEN [stage |-> tickets[t].status, question |-> tickets[t].question]
    ELSE [stage |-> tickets[t].status]

LEMMA DeskOfItems ==
    /\ DeskOf = [t \in Ticket |-> ItemOf(t)]
    /\ DeskOf' = [t \in Ticket |-> ItemOf(t)']
BY DEF DeskOf, ItemOf

LEMMA ItemFields ==
    ASSUME QATypeOK, NEW t \in Ticket
    PROVE  /\ DeskOf[t].stage = tickets[t].status
           /\ tickets[t] \in TicketRow => DeskOf[t].question = tickets[t].question
BY DEF QATypeOK, DeskOf, Exists

\* What is no ticket yet, or no more.
LEMMA NoTickets ==
    /\ Unfiled \notin TicketRow /\ Unfiled.status = "unfiled"
    /\ Gone \notin TicketRow /\ Gone.status = "gone"
BY DEF TicketRow

LEMMA NoItems ==
    ASSUME NEW t \in Ticket
    PROVE  /\ tickets[t] = Unfiled => ItemOf(t) = [stage |-> "unfiled"]
           /\ tickets'[t] = Gone => ItemOf(t)' = [stage |-> "gone"]
<1> HIDE DEF Unfiled, Gone
<1>1. ASSUME tickets[t] = Unfiled
      PROVE  ItemOf(t) = [stage |-> "unfiled"]
  <2>1. ItemOf(t) = [stage |-> tickets[t].status] /\ tickets[t].status = "unfiled"
    BY <1>1, NoTickets DEF ItemOf, Exists
  <2> QED
    BY <2>1
<1>2. ASSUME tickets'[t] = Gone
      PROVE  ItemOf(t)' = [stage |-> "gone"]
  <2>1. ItemOf(t)' = [stage |-> tickets'[t].status] /\ tickets'[t].status = "gone"
    BY <1>2, NoTickets DEF ItemOf, Exists
  <2> QED
    BY <2>1
<1> QED
  BY <1>1, <1>2

\* The desk and the table agree on what is pending and what it covers.
LEMMA SamePending ==
    ASSUME QATypeOK
    PROVE  /\ \A t \in Ticket : TheDesk!Pending(t) <=> Pending(t)
           /\ \A q : TheDesk!Covered(q) <=> Covered(q)
<1>1. \A t \in Ticket : TheDesk!Pending(t) <=> Pending(t)
  BY ItemFields DEF TheDesk!Pending, Pending
<1>2. \A t \in Ticket : Pending(t) => tickets[t] \in TicketRow
  BY DEF Pending, QATypeOK
<1> QED
  BY <1>1, <1>2, ItemFields DEF TheDesk!Covered, Covered

\* A ticket that stays a ticket of the same question moves to its new status.
LEMMA StageMoves ==
    ASSUME QATypeOK, QATypeOK', NEW t \in Ticket,
           NEW row, tickets' = [tickets EXCEPT ![t] = row],
           tickets[t] \in TicketRow, tickets'[t] \in TicketRow,
           tickets'[t].question = tickets[t].question
    PROVE  TheDesk!MoveTo(t, tickets'[t].status)
<1> DEFINE stage == tickets'[t].status
<1>1. \A s \in Ticket \ {t} : tickets'[s] = tickets[s]
  BY DEF QATypeOK
<1>2. \A s \in Ticket \ {t} : ItemOf(s)' = ItemOf(s)
  BY <1>1 DEF ItemOf, Exists
<1>3. /\ ItemOf(t) = [stage |-> tickets[t].status, question |-> tickets[t].question]
      /\ ItemOf(t)' = [stage |-> stage, question |-> tickets[t].question]
  BY DEF ItemOf, Exists
<1>4. ItemOf(t)' = [ItemOf(t) EXCEPT !.stage = stage]
  BY <1>3
<1>5. DeskOf' = [DeskOf EXCEPT ![t].stage = stage]
  BY <1>2, <1>4, DeskOfItems
<1> QED
  BY <1>5 DEF TheDesk!MoveTo

LEMMA EdgeRefines ==
    ASSUME QAInv, QAInv', OneMoves
    PROVE  TheDesk!DeskNext \/ UNCHANGED DeskOf
<1>0. PICK t \in Ticket : \E row : EdgeOf(t) /\ tickets' = [tickets EXCEPT ![t] = row]
  BY DEF OneMoves
<1>1. PICK row : EdgeOf(t) /\ tickets' = [tickets EXCEPT ![t] = row]
  BY <1>0
<1>2. QATypeOK /\ QATypeOK'
  BY DEF QAInv
<1>3. \A s \in Ticket \ {t} : ItemOf(s)' = ItemOf(s)
  BY <1>1, <1>2 DEF ItemOf, Exists, QATypeOK
<1>4. \A item : ItemOf(t)' = item => DeskOf' = [DeskOf EXCEPT ![t] = item]
  BY <1>3, DeskOfItems
<1>5. ASSUME tickets[t] \in TicketRow, tickets'[t] \in TicketRow,
             tickets'[t].question = tickets[t].question
      PROVE  /\ TheDesk!MoveTo(t, tickets'[t].status)
             /\ DeskOf[t].stage = tickets[t].status
             /\ DeskOf[t].question = tickets[t].question
  BY <1>1, <1>2, <1>5, StageMoves, ItemFields
<1>6. CASE \E q \in Question : Filed(t, q)
  <2>1. PICK q \in Question : Filed(t, q)
    BY <1>6
  <2>2. ItemOf(t)' = [stage |-> "open", question |-> q]
    BY <2>1 DEF Filed, ItemOf, Exists
  <2>3. DeskOf[t] = [stage |-> "unfiled"]
    BY <2>1, NoItems, DeskOfItems DEF Filed
  <2>4. TheDesk!File(t, q)
    BY <1>2, <1>4, <2>1, <2>2, <2>3, SamePending DEF Filed, TheDesk!File, TheDesk!NotYet
  <2> QED
    BY <2>4 DEF TheDesk!DeskNext
<1>7. CASE Drafted(t)
  <2>1. TheDesk!Answer(t)
    BY <1>2, <1>5, <1>7, SamePending DEF Drafted, TheDesk!Answer
  <2> QED
    BY <2>1 DEF TheDesk!DeskNext
<1>8. CASE \E w \in Request : ConfirmedBy(t, w)
  <2>1. CASE tickets[t].status = "confirmed"
    <3>1. ItemOf(t)' = ItemOf(t)
      BY <1>8, <2>1 DEF ConfirmedBy, ItemOf, Exists
    <3> QED
      BY <1>3, <3>1, DeskOfItems
  <2>2. CASE tickets[t].status # "confirmed"
    <3>1. TheDesk!Publish(t)
      BY <1>2, <1>5, <1>8, <2>2, SamePending DEF ConfirmedBy, Pending, TheDesk!Publish
    <3> QED
      BY <3>1 DEF TheDesk!DeskNext
  <2> QED
    BY <2>1, <2>2
<1>9. CASE TakenBack(t)
  <2>1. TheDesk!TakeBack(t)
    BY <1>2, <1>5, <1>9, SamePending DEF TakenBack, TheDesk!TakeBack
  <2> QED
    BY <2>1 DEF TheDesk!DeskNext
<1>10. CASE Dismissed(t)
  <2>1. TheDesk!Dismiss(t)
    BY <1>5, <1>10 DEF Dismissed, TheDesk!Dismiss
  <2> QED
    BY <2>1 DEF TheDesk!DeskNext
<1>11. CASE Dropped(t)
  <2>1. ItemOf(t)' = [stage |-> "gone"]
    BY <1>11, NoItems DEF Dropped
  <2>2. DeskOf[t].stage \notin {"unfiled", "gone"}
    BY <1>2, <1>11, ItemFields DEF Dropped, TicketRow
  <2>0. DeskOf[t] \notin {TheDesk!NotYet, TheDesk!Dropped}
    BY <2>2 DEF TheDesk!NotYet, TheDesk!Dropped
  <2>3. TheDesk!Drop(t)
    BY <1>4, <2>1, <2>0 DEF TheDesk!Drop, TheDesk!Dropped
  <2> QED
    BY <2>3 DEF TheDesk!DeskNext
<1> QED
  BY <1>1, <1>6, <1>7, <1>8, <1>9, <1>10, <1>11 DEF EdgeOf

\* The queue implements the desk: however calls that read a ticket first and
\* settle it last overlap, it moves along the edges of its lifecycle only, stays
\* dismissed or dropped, and no question is pending twice (tickets.go).
THEOREM LoopImplementsDesk == QASpec => ImplementsDesk
<1>1. QAInit => TheDesk!DeskInit
  <2> SUFFICES ASSUME QAInit PROVE TheDesk!DeskInit
    OBVIOUS
  <2>1. \A t \in Ticket : ItemOf(t) = [stage |-> "unfiled"]
    BY NoItems DEF QAInit
  <2> QED
    BY <2>1, DeskOfItems DEF TheDesk!DeskInit, TheDesk!NotYet
<1>2. QAInv /\ QAInv' /\ [QANext]_qaVars => [TheDesk!DeskNext]_DeskOf
  <2> SUFFICES ASSUME QAInv, QAInv', [QANext]_qaVars
               PROVE  TheDesk!DeskNext \/ UNCHANGED DeskOf
    OBVIOUS
  <2>1. CASE UNCHANGED tickets
    BY <2>1 DEF DeskOf, Exists
  <2> QED
    BY <2>1, TicketMoves, EdgeRefines
<1> QED
  BY <1>1, <1>2, QAInvariance, PTL DEF QASpec, ImplementsDesk, TheDesk!DeskSpec

===============================================================================
