----------------------------- MODULE MCTextToAnswer ----------------------------
(***************************************************************************)
(* Four machines in one run: a text becomes chunks (Splitting), a question *)
(* finds chunks and becomes an answer (Question), where none was found the *)
(* BA writes it (TicketPanel), and keeps the documents in order            *)
(* (LibraryPanel). They share no state, so part says which of them a       *)
(* behaviour runs; the others rest.                                        *)
(*                                                                         *)
(* Splitting: short, big, full and oversized paragraphs, one with a line   *)
(* longer than the limit, and a table longer than the limit. Question: a   *)
(* document of three chunks, one of none and one that a person vouched     *)
(* for; a model of a small window and one of unknown window; threads with  *)
(* blank turns and with turns too long for the window. TicketPanel: one    *)
(* ticket to answer and one already in the knowledge base. LibraryPanel:   *)
(* two documents.                                                          *)
(***************************************************************************)
EXTENDS Splitting, Question, TicketPanel, LibraryPanel, TLC

CONSTANTS guide, note, qa, t1, t2, words, d1, d2

VARIABLE part
vars == <<part, splitVars, askVars, panelVars, libraryVars>>

Plain(lines) == [lines |-> lines, table |-> FALSE]
MCParagraph ==
    {Plain(<<200>>), Plain(<<800>>), Plain(<<2390>>), Plain(<<1900, 1900, 2500>>),
     [lines |-> <<60, 40, 1300, 1300, 2390>>, table |-> TRUE]}

MCPieces == guide :> 3 @@ note :> 0 @@ qa :> 1
MCSize == [c \in {guide, note, qa} \X (1..3) |-> IF c[2] = 2 THEN 20 ELSE 9]
MCModels == <<[name |-> "small", window |-> 20], [name |-> "plain", window |-> 0]>>
MCByPath == <<guide, note, qa>>
MCLibraries == {<<guide, note, qa>>, <<guide, qa>>, <<qa>>}

\* A question in one short document, and one over all of them.
MCTopic == [question |-> "topic", scope |-> {qa}, fresh |-> FALSE, model |-> "small",
            websearch |-> FALSE, history |-> <<>>]
MCWide == {[MCTopic EXCEPT !.scope = {guide, qa}, !.model = m] : m \in {"small", "plain"}}
MCTurn == {[q |-> 2, a |-> 0], [q |-> 2, a |-> 6], [q |-> 3, a |-> 17], [q |-> 3, a |-> 40]}

\* Every way a question may go, and the threads that may stand behind it.
MCAsks ==
    {[MCTopic EXCEPT !.question = w, !.history = h] :
        w \in Wording, h \in {<<>>, <<[q |-> 2, a |-> 6]>>}}
    \cup {[MCTopic EXCEPT !.model = m] : m \in {"", "plain", "gone"}}
    \cup {[MCTopic EXCEPT !.websearch = TRUE], [MCTopic EXCEPT !.fresh = TRUE]}
    \cup {[MCTopic EXCEPT !.question = "hello", !.model = m, !.history = h] :
            m \in {"small", "plain"}, h \in BoundedSeq(MCTurn, 4)}
    \cup MCWide

\* One plain question, for what happens at the end of its stream.
MCOne == {MCTopic}

MCEarlier ==
    {{}, {[key |-> KeyOf(MCTopic), sig |-> <<qa>>, text |-> <<"words", "[1]">>,
           cites |-> <<[n |-> 1, of |-> <<qa, 1>>]>>]}}

MCInit ==
    /\ SplitInit /\ AskInit /\ PanelInit /\ LibraryPanelInit
    /\ part \in {"text", "question", "queue", "library"}
    /\ live = CASE ask \in MCWide -> <<guide, qa>>
                [] corpusAskOf(ask.question) # "notCorpusAsk" -> <<guide, note, qa>>
                [] OTHER -> <<qa>>
    /\ ask \in MCWide => rows = {}
    /\ part # "question" => ask = MCTopic /\ rows = {}
    /\ tickets[t1].status = "open" /\ tickets[t2].status = "confirmed"

\* Only a narrow question is left: what comes after does not depend on what was found.
MCStays == ask \in MCWide => here'

MCNext ==
    /\ part' = part
    /\ \/ part = "text" /\ SplitNext /\ UNCHANGED <<askVars, panelVars, libraryVars>>
       \/ part = "question" /\ AskNext /\ MCStays /\ UNCHANGED <<splitVars, panelVars, libraryVars>>
       \/ part = "queue" /\ PanelNext /\ UNCHANGED <<splitVars, askVars, libraryVars>>
       \/ part = "library" /\ LibraryPanelNext /\ UNCHANGED <<splitVars, askVars, panelVars>>

MCSpec == MCInit /\ [][MCNext]_vars

\* The types of all four: of the text and its chunks (chunk.go), of the
\* question on its way to an answer (rag.go, store.go), and of the queue and the
\* library on the BA's screen (tickets.js, library.js, importer.js).
TextTypeOK == SplitTypeOK /\ AskTypeOK /\ PanelTypeOK /\ LibraryPanelTypeOK
===============================================================================
