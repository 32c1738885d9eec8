------------------------------- MODULE MCQALoop -------------------------------
(***************************************************************************)
(* Small instances of QALoop for TLC: two names under qa/, tickets that    *)
(* share a question, and answers of no chunk, one chunk or two. r3 is a    *)
(* request of the past: it publishes an answer to t1 before anybody else   *)
(* begins, or it never comes. So two more requests, a way out and whatever *)
(* comes between its reading and its settling, meet at a published answer. *)
(***************************************************************************)
EXTENDS QALoop, TLC

CONSTANTS doc, qa1, qa2, t1, t2, r1, r2, r3, q1, blank, short, other, long

MCPieces == [b \in Body |-> CASE b = blank -> 0 [] b = long -> 2 [] OTHER -> 1]

MCTicketPath == [t \in Ticket |-> IF t = t1 THEN qa1 ELSE qa2]

MCRests(w) == UNCHANGED <<jobs[w], calls[w]>>

\* r3 confirms t1, the first thing that happens, and nothing fails.
MCFirst ==
    /\ \A w \in Request \ {r3} : calls[w] = NoCall /\ jobs[w] = Idle /\ MCRests(w)
    /\ \A t \in Ticket \ {t1} : tickets[t] = Unfiled
    /\ \A p \in Path : docs[p] = NoRow \/ docs[p].by = r3
    /\ tickets[t1].status = "open" /\ ~MCRests(r3)
    /\ calls'[r3] # NoCall /\ calls'[r3].op = "confirm"
    /\ calls'[r3].answer = short /\ calls'[r3].to = qa1
    /\ calls'[r3].pc \in CallPC \cup {"done"} /\ jobs'[r3].pc \notin {"refused", "failed"}

\* Then r1 takes t1 out, beside whatever r2 does.
MCThen ==
    /\ calls[r3].pc = "done" /\ MCRests(r3)
    /\ jobs'[r1] = Idle
    /\ calls'[r1] # NoCall => calls'[r1].op \in WayOut /\ calls'[r1].ticket = t1

MCNext ==
    /\ QANext
    /\ \/ calls[r3] = NoCall /\ MCRests(r3)
       \/ MCFirst
       \/ MCThen

MCSpec == QAInit /\ [][MCNext]_qaVars /\ LoopFairness

\* The queue alone: nobody removes or edits a document beside it, which a BA may
\* (qa.go:101-103).
MCAlone ==
    \/ \E t \in Ticket, q \in Question : OpenTicket(t, q)
    \/ \E w \in Request : BeginCall(w) \/ CallWork(w)
    \/ UNCHANGED loopVars /\ \E w \in Request : Work(w)

MCAloneSpec == QAInit /\ [][MCAlone]_qaVars

MCSymmetry == Permutations(Request)
===============================================================================
