-------------------------------- MODULE QALoop --------------------------------
(***************************************************************************)
(* The QA loop (src/internal/rag/qa.go, src/internal/db/tickets.go): a     *)
(* question the documents do not answer becomes a ticket, a BA's answer to *)
(* it becomes a document under qa/, and retract, reject and delete take it *)
(* out again. A call reads the ticket, works on the library and settles    *)
(* the ticket last, each in a transaction of its own; the tables are the   *)
(* library's, so removals and edits of a qa/ document run in between.      *)
(***************************************************************************)
EXTENDS Library

CONSTANTS
    Ticket,     \* ticket ids; one is never used twice
    Question,   \* questions, up to normalise
    TicketPath  \* TicketPath[t]: the name qa/ticket-N.md of ticket t

\* The empty string of a column or of a form field.
Nothing == ""

ASSUME TicketPathAssumption == TicketPath \in [Ticket -> QAPath]
ASSUME NothingAssumption == Nothing \notin Path \cup Body \cup Request

VARIABLES
    tickets,    \* [Ticket -> Unfiled, Gone, or the row]
    calls       \* [Request -> NoCall, or the ticket call the request is]

loopVars == <<tickets, calls>>
qaVars == <<docs, chunks, vecs, approved, now, jobs, tickets, calls>>

Unfiled == [status |-> "unfiled"]
Gone == [status |-> "gone"]

TicketRow == [status: {"open", "answered", "confirmed", "rejected"},
              question: Question, answer: Body \cup {Nothing},
              doc: QAPath \cup {Nothing}]

Exists(t) == tickets[t] \in TicketRow

Pending(t) == tickets[t].status \in {"open", "answered"}

Covered(q) == \E t \in Ticket : Pending(t) /\ tickets[t].question = q

NoCall == [pc |-> "none"]

(***************************************************************************)
(* Where a call stands. A confirm: unlist (the ticket is read), ingest     *)
(* (the renamed document is out, jobs[w] is the save), close (the chunks   *)
(* are approved).  The three ways out: look (nothing read), remove (the    *)
(* document path is read), settle (the document is out).  refused: the     *)
(* call found the ticket in a state it may not leave, or found no ticket.  *)
(* doc is the document path the call read, to the one a confirm publishes, *)
(* and saw the save whose text was published at doc at that moment: the    *)
(* code does not keep it, no action reads it, and UnpublishedFirst is      *)
(* about it.                                                               *)
(***************************************************************************)
WayOut == {"retract", "reject", "delete"}

CallPC == {"unlist", "ingest", "close", "look", "remove", "settle"}

Call == [op: WayOut \cup {"confirm"}, ticket: Ticket,
         pc: CallPC \cup {"done", "refused", "failed", "crashed"},
         doc: QAPath \cup {Nothing}, to: QAPath \cup {Nothing},
         answer: Body \cup {Nothing}, saw: Request \cup {Nothing}]

QATypeOK ==
    /\ TypeOK
    /\ tickets \in [Ticket -> TicketRow \cup {Unfiled, Gone}]
    /\ calls \in [Request -> Call \cup {NoCall}]

QAInit ==
    /\ Init
    /\ tickets = [t \in Ticket |-> Unfiled]
    /\ calls = [w \in Request |-> NoCall]

-------------------------------------------------------------------------------
\* A ticket that covers the question already is the answer: nothing changes.
OpenTicket(t, q) ==
    /\ tickets[t] = Unfiled
    /\ ~Covered(q)
    /\ tickets' = [tickets EXCEPT ![t] =
                     [status |-> "open", question |-> q, answer |-> Nothing, doc |-> Nothing]]
    /\ UNCHANGED <<vars, calls>>

Draft(t, a) ==
    /\ Pending(t)
    /\ tickets' = [tickets EXCEPT ![t].status = "answered", ![t].answer = a]
    /\ UNCHANGED <<vars, calls>>

-------------------------------------------------------------------------------
CallTo(w, pc) == calls' = [calls EXCEPT ![w].pc = pc]

\* The name a confirmed answer gets: the one the BA typed, else the one the
\* ticket has, else the one made of its id.
QAPathFor(t, name) ==
    IF name # Nothing THEN name
    ELSE IF tickets[t].doc # Nothing THEN tickets[t].doc
    ELSE TicketPath[t]

\* Confirm reads the ticket. Whatever its status is, the call goes on.
Confirm(w, t, a, name) ==
    /\ calls[w] = NoCall /\ jobs[w] = Idle
    /\ Exists(t)
    /\ calls' = [calls EXCEPT ![w] =
                   [op |-> "confirm", ticket |-> t, pc |-> "unlist",
                    doc |-> tickets[t].doc, to |-> QAPathFor(t, name),
                    answer |-> a, saw |-> Nothing]]
    /\ UNCHANGED <<vars, tickets>>

\* A rename takes the old document out first; then the ingest begins. An
\* answer with no chunk in it (a heading, a comment) is ingested as nothing.
Unlist(w) ==
    LET c == calls[w] IN
    /\ c.pc = "unlist"
    /\ UNCHANGED tickets
    /\ \/ /\ IF c.doc \notin {Nothing, c.to} THEN RemoveDocument(c.doc)
             ELSE UNCHANGED storeVars
          /\ jobs' = IF Pieces[c.answer] = 0 THEN jobs
                     ELSE [jobs EXCEPT ![w] =
                             NewJob("embed", "confirm", c.to, c.to, c.answer)]
          /\ CallTo(w, "ingest")
       \/ /\ "store" \in Faults
          /\ CallTo(w, "failed")
          /\ UNCHANGED vars

\* The ingest that counts as returned only when it wrote something.
IngestWrote(w) == jobs[w].pc = "done"

\* The ingest of call w came back without an error.
IngestReturned(w) ==
    \/ jobs[w].pc = "done"
    \/ jobs[w] = Idle /\ Pieces[calls[w].answer] = 0

\* The approval that does not wait for the ingest.
ApproveAtOnce(w) ==
    /\ calls[w].pc = "ingest"
    /\ Approve(calls[w].to)
    /\ CallTo(w, "close")
    /\ UNCHANGED <<jobs, tickets>>

ApproveAnswer(w) ==
    /\ calls[w].pc = "ingest"
    /\ IngestReturned(w)
    /\ UNCHANGED <<jobs, tickets>>
    /\ \/ Approve(calls[w].to) /\ CallTo(w, "close")
       \/ "store" \in Faults /\ CallTo(w, "failed") /\ UNCHANGED storeVars

\* The bookkeeping with the status condition of its UPDATE missing.
CloseAnyway(w) ==
    LET t == calls[w].ticket IN
    /\ calls[w].pc = "close"
    /\ UNCHANGED vars
    /\ Exists(t)
    /\ CallTo(w, "done")
    /\ tickets' = [tickets EXCEPT ![t].status = "confirmed",
                     ![t].answer = calls[w].answer, ![t].doc = calls[w].to]

\* The bookkeeping that does not write doc_path.
CloseUnnamed(w) ==
    LET t == calls[w].ticket IN
    /\ calls[w].pc = "close"
    /\ UNCHANGED vars
    /\ tickets[t].status \in {"open", "answered", "confirmed"}
    /\ CallTo(w, "done")
    /\ tickets' = [tickets EXCEPT ![t].status = "confirmed", ![t].answer = calls[w].answer]

\* Confirm's last step: the ticket.
Close(w) ==
    LET t == calls[w].ticket IN
    /\ calls[w].pc = "close"
    /\ UNCHANGED vars
    /\ \/ /\ tickets[t].status \in {"open", "answered", "confirmed"}
          /\ CallTo(w, "done")
          /\ tickets' = [tickets EXCEPT ![t].status = "confirmed",
                           ![t].answer = calls[w].answer, ![t].doc = calls[w].to]
       \/ /\ tickets[t].status \notin {"open", "answered", "confirmed"}
          /\ CallTo(w, "refused")
          /\ UNCHANGED tickets
       \/ "store" \in Faults /\ CallTo(w, "failed") /\ UNCHANGED tickets

-------------------------------------------------------------------------------
\* Retract asks first whether the ticket is confirmed; reject and delete do
\* not.
Leave(w, op, t) ==
    /\ calls[w] = NoCall /\ jobs[w] = Idle
    /\ Exists(t)
    /\ op = "retract" => tickets[t].status = "confirmed"
    /\ calls' = [calls EXCEPT ![w] =
                   [op |-> op, ticket |-> t, pc |-> "look", doc |-> Nothing,
                    to |-> Nothing, answer |-> Nothing, saw |-> Nothing]]
    /\ UNCHANGED <<vars, tickets>>

\* The save whose text answers at p, all that it has written: one that is still
\* writing has published no text yet.
Published(p) ==
    IF Live(p) /\ jobs[docs[p].by].pc # "insert" THEN docs[p].by ELSE Nothing

\* unpublish reads the ticket; with no document there is nothing to remove.
Look(w) ==
    LET t == calls[w].ticket
        named == tickets[t].doc IN
    /\ calls[w].pc = "look"
    /\ UNCHANGED <<vars, tickets>>
    /\ \/ /\ Exists(t) /\ named = Nothing
          /\ CallTo(w, "settle")
       \/ /\ Exists(t) /\ named # Nothing
          /\ calls' = [calls EXCEPT ![w].pc = "remove", ![w].doc = named,
                                    ![w].saw = Published(named)]
       \/ ~Exists(t) /\ CallTo(w, "refused")
       \/ "store" \in Faults /\ CallTo(w, "failed")

\* unpublish that makes the name of the id, as an answer nobody renamed has it.
UnpublishById(w) ==
    /\ calls[w].pc = "remove"
    /\ UNCHANGED <<jobs, tickets>>
    /\ \/ RemoveDocument(TicketPath[calls[w].ticket]) /\ CallTo(w, "settle")
       \/ "store" \in Faults /\ CallTo(w, "failed") /\ UNCHANGED storeVars

Unpublish(w) ==
    /\ calls[w].pc = "remove"
    /\ UNCHANGED <<jobs, tickets>>
    /\ \/ RemoveDocument(calls[w].doc) /\ CallTo(w, "settle")
       \/ "store" \in Faults /\ CallTo(w, "failed") /\ UNCHANGED storeVars

\* The row store.Retract, store.Reject and store.DeleteTicket leave, and when
\* their WHERE lets them touch it.
Left(op, t) ==
    CASE op = "retract" -> [tickets[t] EXCEPT !.status = "answered", !.doc = Nothing]
      [] op = "reject" -> [tickets[t] EXCEPT !.status = "rejected", !.doc = Nothing]
      [] op = "delete" -> Gone

MayLeave(op, t) ==
    CASE op = "retract" -> tickets[t].status = "confirmed"
      [] op = "reject" -> tickets[t].status \in {"open", "answered", "confirmed"}
      [] op = "delete" -> Exists(t)

\* The last step of a way out: the ticket. tickets_open_q refuses a retract
\* whose question has been filed again.
Settle(w) ==
    LET t == calls[w].ticket
        op == calls[w].op
        twice == op = "retract" /\ Covered(tickets[t].question) IN
    /\ calls[w].pc = "settle"
    /\ UNCHANGED vars
    /\ \/ /\ MayLeave(op, t) /\ ~twice
          /\ CallTo(w, "done")
          /\ tickets' = [tickets EXCEPT ![t] = Left(op, t)]
       \/ /\ MayLeave(op, t) /\ twice
          /\ CallTo(w, "failed")
          /\ UNCHANGED tickets
       \/ /\ ~MayLeave(op, t)
          /\ CallTo(w, "refused")
          /\ UNCHANGED tickets
       \/ "store" \in Faults /\ CallTo(w, "failed") /\ UNCHANGED tickets

\* The server dies with every call and every save it was running.
ServerCrash ==
    /\ \E w \in Request : calls[w].pc \in CallPC \/ RunsIn(w, Server)
    /\ Die(Server)
    /\ calls' = [w \in Request |->
                   IF calls[w].pc \in CallPC THEN [calls[w] EXCEPT !.pc = "crashed"]
                   ELSE calls[w]]
    /\ UNCHANGED tickets

-------------------------------------------------------------------------------
BeginCall(w) ==
    \E t \in Ticket :
        \/ \E a \in Body, name \in QAPath \cup {Nothing} : Confirm(w, t, a, name)
        \/ \E op \in WayOut : Leave(w, op, t)

CallWork(w) ==
    \/ Unlist(w) \/ ApproveAnswer(w) \/ Close(w)
    \/ Look(w) \/ Unpublish(w) \/ Settle(w)

\* What the library does beside the loop. The command line dies alone.
LibraryStep ==
    /\ UNCHANGED loopVars
    /\ \/ \E w \in Request : calls[w] = NoCall /\ Arrive(w)
       \/ \E w \in Request : Work(w)
       \/ \E p \in Path : Remove(p)
       \/ Crash(CommandLine)
       \/ Tick /\ UNCHANGED jobs

QANext ==
    \/ \E t \in Ticket, q \in Question : OpenTicket(t, q)
    \/ \E t \in Ticket, a \in Body : Draft(t, a)
    \/ \E w \in Request : BeginCall(w) \/ CallWork(w)
    \/ ServerCrash
    \/ LibraryStep

QASpec == QAInit /\ [][QANext]_qaVars

\* As in the library: a handler that has started runs on.
LoopFairness ==
    \A w \in Request : WF_qaVars(CallWork(w)) /\ WF_qaVars(Work(w) /\ UNCHANGED loopVars)

QAFairSpec == QASpec /\ LoopFairness

-------------------------------------------------------------------------------
\* A ticket names a document exactly when it is confirmed: the ticket "must
\* stop naming a document that no longer answers" (tickets.go:115-118).
DocIffConfirmed ==
    \A t \in Ticket :
        Exists(t) => (tickets[t].status = "confirmed" <=> tickets[t].doc # Nothing)

\* The ticket closes last: a step that records an answer as confirmed belongs
\* to a confirm that has ingested it as a document; the whole of it is live and
\* approved, or somebody else has removed it or taken it over since
\* (qa.go:118-123). An answer with nothing to ingest is no document: of those see
\* ConfirmedIsBacked.
TicketClosesLast ==
    [][\A t \in Ticket :
          /\ tickets'[t] # tickets[t] /\ tickets'[t].status = "confirmed"
          => \E w \in Request, p \in QAPath :
                /\ calls[w].pc \in CallPC /\ calls'[w] # calls[w]
                /\ calls[w].op = "confirm" /\ calls[w].ticket = t
                /\ calls[w].to = p /\ tickets'[t].doc = p
                /\ tickets'[t].answer = calls[w].answer
                /\ Pieces[calls[w].answer] # 0 =>
                      /\ IngestWrote(w)
                      /\ \/ Live(p) /\ docs[p].by = w
                            /\ Indexed(p) /\ Written(p, w) \subseteq approved
                         \/ docs[p].by # w
                         \/ ~Live(p)]_qaVars

\* The text that save w wrote at p still answers: its row names it, or a chunk of
\* it is there, which hits finds whatever the row says (store.go:310-319).
Answers(p, w) == (Live(p) /\ docs[p].by = w) \/ Written(p, w) # {}

\* The document goes first: when a retract, a reject or a delete settles its
\* ticket, the text it found published under that ticket answers no more, not
\* with a single chunk, whatever was saved, renamed, confirmed or removed
\* meanwhile (qa.go:97-103). A text still being written is not yet published: the
\* rest of it may come after the removal (SettledHasOneText).
UnpublishedFirst ==
    [][\A w \in Request :
          LET c == calls[w] IN
          /\ c.pc \in CallPC /\ c.op \in WayOut
          /\ calls'[w].pc = "done"
          /\ c.doc # Nothing /\ c.saw # Nothing
          => ~Answers(c.doc, c.saw)]_qaVars

\* The queue as the desk of a BA.
DeskOf ==
    [t \in Ticket |->
       IF Exists(t)
       THEN [stage |-> tickets[t].status, question |-> tickets[t].question]
       ELSE [stage |-> tickets[t].status]]

TheDesk == INSTANCE Desk WITH desk <- DeskOf

\* The queue implements the desk: calls that read a ticket and settle it later
\* never move it along an edge it does not have, never bring back one that was
\* dismissed or dropped, and never leave one question pending twice
\* (tickets.go:28-34, schema.sql:62-65).
ImplementsDesk == TheDesk!DeskSpec

-------------------------------------------------------------------------------
(***************************************************************************)
(* What the comments say, checked by runs that find what contradicts it.   *)
(***************************************************************************)
Running(w) ==
    calls[w].pc \in CallPC
    /\ ~(calls[w].pc = "ingest" /\ jobs[w].pc \in {"refused", "failed", "crashed"})

Quiet == Settled /\ \A w \in Request : ~Running(w)

\* Once nothing runs, an answer a confirm published is live only while a
\* confirmed ticket names it: "the ticket and the corpus can never disagree
\* about whether an answer is live" (qa.go:24-25).
LiveMeansConfirmed ==
    Quiet => \A p \in Path :
        Live(p) /\ jobs[docs[p].by].kind = "confirm"
        => \E t \in Ticket : tickets[t].status = "confirmed" /\ tickets[t].doc = p

\* Once nothing runs, a confirmed ticket is "indexed + approved; the next DEV gets
\* a citation" (tickets.go:43): its document is live and has chunks, all of them
\* approved.
ConfirmedIsBacked ==
    Quiet => \A t \in Ticket : tickets[t].status = "confirmed" =>
        LET p == tickets[t].doc IN
        Live(p) /\ ChunksOf(p) # {} /\ ChunksOf(p) \subseteq approved

-------------------------------------------------------------------------------
\* Every ticket call ends, whatever fails and whoever dies, and no place stays
\* half indexed but after a failed transaction or a crash (qa.go:81-175).
CallsEnd == \A w \in Request : Running(w) ~> ~Running(w)

LoopProgress == CallsEnd /\ IndexingEnds
===============================================================================
