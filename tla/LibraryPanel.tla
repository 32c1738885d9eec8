----------------------------- MODULE LibraryPanel ------------------------------
(***************************************************************************)
(* Where a BA keeps the library in a browser page (src/web/ui/src:         *)
(* composables/library.js, importer.js, corpus.js, lib/upload.js): the     *)
(* list with its ticks, its form and its removals, and above it the card   *)
(* that imports files and removes single documents. Each of the two sends  *)
(* requests of its own while the other works, and the list they show is    *)
(* the one the shell fetched last. What the server does within a request   *)
(* is module Library; here it is which documents answer before and after.  *)
(***************************************************************************)
EXTENDS Integers, Sequences, FiniteSets

CONSTANTS
    Path,
    MaxRequests,    \* bound on the edits, saves, removals, clearings and imported
                    \* files, and on what others save or remove
    MaxLists        \* bound on the lists in flight

ASSUME LibraryPanelAssumption == {MaxRequests, MaxLists} \subseteq Nat

VARIABLES
    answering,  \* the server's library: the documents that answer
    documents,  \* the list on screen
    lists,      \* the fetches of it in flight, in the order they were sent
    selected,   \* the ticked paths, in the list or not
    sure,       \* what was pressed once: a path, Ticked, or Nothing
    task,       \* what the list's own buttons wait for
    form,       \* Closed, New, or the path being edited
    errands,    \* the imports and removals of the card under way
    importing,  \* whether the card says that it imports
    imported,   \* the report the card shows, or NoReport
    asked,      \* the document the card asks about, or Nothing
    removing,   \* the document the card is removing, or Nothing
    key,        \* whether sessionStorage holds a password
    writable,   \* whether the screen thinks so, and shows the card
    sent        \* how many there were; only the bound reads it

table == <<selected, sure, task, form>>
card == <<errands, importing, imported, asked, removing>>
access == <<key, writable>>
libraryVars == <<answering, documents, lists, table, card, access, sent>>

Nothing == "nothing"
Ticked == "ticked"
Closed == "closed"
New == "new"
NoReport == <<>>

\* What has come back to a request: 400 with the list of what was refused, some
\* other error, or the gate's no.
Outcome == {"none", "ok", "refused", "failed", "locked"}

Idle == [kind |-> "idle"]
Task ==
    {Idle}
    \cup [kind: {"edit", "drop"}, path: Path, auth: BOOLEAN, reply: Outcome]
    \cup [kind: {"save"}, from: Path, path: Path, auth: BOOLEAN, reply: Outcome]
    \cup [kind: {"batch"}, path: Path, todo: SUBSET Path, auth: BOOLEAN, reply: Outcome]

\* One request after another, while the card that sent them is here or gone.
Errand == [n: 1..MaxRequests, kind: {"import", "remove"}, todo: Seq(Path),
           uploaded: SUBSET Path, auth: BOOLEAN, reply: Outcome, here: BOOLEAN]
Report == {<<uploaded>> : uploaded \in SUBSET Path}

\* The types of the library, the page and what is in flight between them.
LibraryPanelTypeOK ==
    /\ {answering, documents, selected} \subseteq SUBSET Path
    /\ \A i \in DOMAIN lists : lists[i] = <<>> \/ lists[i][1] \in SUBSET Path
    /\ sure \in Path \cup {Ticked, Nothing} /\ form \in Path \cup {New, Closed}
    /\ task \in Task /\ {asked, removing} \subseteq Path \cup {Nothing}
    /\ errands \subseteq Errand /\ (imported = NoReport \/ imported \in Report)
    /\ {importing, key, writable} \subseteq BOOLEAN

LibraryPanelInit ==
    /\ answering = Path /\ documents = Path /\ lists = <<>>
    /\ selected = {} /\ sure = Nothing /\ task = Idle /\ form = Closed
    /\ errands = {} /\ importing = FALSE /\ imported = NoReport
    /\ asked = Nothing /\ removing = Nothing
    /\ key = TRUE /\ writable = TRUE
    /\ sent = 0

-------------------------------------------------------------------------------
\* refresh: ask for the list. One beyond the bound counts as one never sent.
FetchList == lists' = IF Len(lists) < MaxLists THEN Append(lists, <<>>) ELSE lists

\* The server reads its library for one of the fetches.
ReadList(i) ==
    /\ lists[i] = <<>>
    /\ lists' = [lists EXCEPT ![i] = <<answering>>]
    /\ UNCHANGED <<answering, documents, table, card, access, sent>>

\* loadCorpus resolves in any order, and to an empty list when it cannot.
ListArrives(i) ==
    /\ lists' = SubSeq(lists, 1, i - 1) \o SubSeq(lists, i + 1, Len(lists))
    /\ documents' \in {{}} \cup {lists[i][k] : k \in DOMAIN lists[i]}
    /\ UNCHANGED <<answering, table, card, access, sent>>

Send(n) == sent + n <= MaxRequests /\ sent' = sent + n

Others ==
    /\ Send(1)
    /\ \E p \in Path : answering' \in {answering \cup {p}, answering \ {p}} \ {answering}
    /\ UNCHANGED <<documents, lists, table, card, access>>

-------------------------------------------------------------------------------
(***************************************************************************)
(* The list: ticks and presses                                             *)
(***************************************************************************)
busy == task # Idle

\* Every button of the list waits while it is busy, and hides when locked.
Free == ~busy /\ writable
OnlyRows == UNCHANGED <<answering, documents, lists, card, access, sent>>

\* What is ticked and in the list.
picked == selected \cap documents

\* toggle, toggleGroup and toggleAll: some rows of the list, as they are
\* narrowed, are ticked together, or unticked when all of them were.
Toggle(some) ==
    /\ Free
    /\ selected' = IF some \subseteq selected THEN selected \ some ELSE selected \cup some
    /\ sure' = IF sure = Ticked THEN Nothing ELSE sure
    /\ UNCHANGED <<task, form>> /\ OnlyRows

clearSelection ==
    /\ Free /\ picked # {}
    /\ selected' = {} /\ sure' = IF sure = Ticked THEN Nothing ELSE sure
    /\ UNCHANGED <<task, form>> /\ OnlyRows

\* arm and armAll: one question at a time.
Arm(what) ==
    /\ Free /\ sure # what
    /\ what = Ticked => picked # {}
    /\ sure' = what
    /\ UNCHANGED <<selected, task, form>> /\ OnlyRows

create ==
    /\ Free /\ form' = New
    /\ UNCHANGED <<selected, sure, task>> /\ OnlyRows

\* The buttons, and the Escape key, which asks nobody.
cancelForm ==
    /\ form # Closed /\ form' = Closed
    /\ UNCHANGED <<selected, sure, task>> /\ OnlyRows

Starts(what) ==
    /\ task' = what
    /\ UNCHANGED <<answering, documents, lists, card, access>>

\* A document is read anew before it is edited.
editDocument(p) ==
    /\ Free /\ Send(1)
    /\ Starts([kind |-> "edit", path |-> p, auth |-> key, reply |-> "none"])
    /\ UNCHANGED <<selected, sure, form>>

\* The form is there although the screen has been locked. A new document goes
\* to its path, whether or not there is one.
save(to) ==
    /\ form # Closed /\ ~busy /\ Send(1)
    /\ Starts([kind |-> "save", from |-> IF form = New THEN to ELSE form, path |-> to,
               auth |-> key, reply |-> "none"])
    /\ UNCHANGED <<selected, sure, form>>

drop(p) ==
    /\ Free /\ sure = p /\ sure' = Nothing /\ Send(1)
    /\ Starts([kind |-> "drop", path |-> p, auth |-> key, reply |-> "none"])
    /\ UNCHANGED <<selected, form>>

\* dropSelected, up to its first request; todo is what comes after it.
Batch(paths, p) ==
    [kind |-> "batch", path |-> p, todo |-> paths \ {p}, auth |-> key, reply |-> "none"]

\* A clearing that unticks what it is about to ask for.
dropOptimistically ==
    /\ Free /\ sure = Ticked /\ sure' = Nothing /\ Send(1)
    /\ \E p \in picked : Starts(Batch(picked, p))
    /\ selected' = selected \ picked
    /\ UNCHANGED form

dropSelected ==
    /\ Free /\ sure = Ticked /\ sure' = Nothing /\ Send(1)
    /\ \E p \in picked : Starts(Batch(picked, p))
    /\ UNCHANGED <<selected, form>>

-------------------------------------------------------------------------------
(***************************************************************************)
(* The server, and the errors on the way                                   *)
(***************************************************************************)
\* A request that fails may have been carried out all the same.
Anyhow(after) == {<<"ok", after>>, <<"failed", after>>}

\* What a write may come to: it is <<reply, the library after it>>.
Gated(auth, after) ==
    {<<"failed", answering>>, <<"locked", answering>>} \cup (IF auth THEN after ELSE {})

Removed(p) == IF p \in answering THEN Anyhow(answering \ {p}) ELSE {}

\* A removed document still reads, so an edit of one starts all the same. A
\* move writes the new address first, and may end there.
TaskEnds ==
    CASE task.kind = "edit" -> {<<"ok", answering>>, <<"failed", answering>>}
      [] task.kind = "save" ->
            LET written == answering \cup {task.path} IN
            Gated(task.auth, Anyhow(written \ ({task.from} \ {task.path}))
                               \cup {<<"failed", written>>})
      [] OTHER -> Gated(task.auth, Removed(task.path))

ServeTask ==
    /\ busy /\ task.reply = "none"
    /\ \E end \in TaskEnds : task' = [task EXCEPT !.reply = end[1]] /\ answering' = end[2]
    /\ UNCHANGED <<documents, lists, selected, sure, form, card, access, sent>>

ErrandEnds(e) ==
    LET p == Head(e.todo) IN
    Gated(e.auth, IF e.kind = "remove" THEN Removed(p)
                    ELSE Anyhow(answering \cup {p}) \cup {<<"refused", answering>>})

ServeErrand(e) ==
    /\ e.reply = "none"
    /\ \E end \in ErrandEnds(e) :
          /\ errands' = (errands \ {e}) \cup {[e EXCEPT !.reply = end[1]]}
          /\ answering' = end[2]
    /\ UNCHANGED <<documents, lists, table, importing, imported, asked, removing,
                   access, sent>>

-------------------------------------------------------------------------------
(***************************************************************************)
(* What the list's buttons do with the answer                              *)
(***************************************************************************)
\* onLocked: the password is forgotten and the card goes, with all it holds;
\* what it has sent goes on.
Lock ==
    /\ key' = FALSE /\ writable' = FALSE
    /\ errands' = {[e EXCEPT !.here = FALSE] : e \in errands}
    /\ importing' = FALSE /\ imported' = NoReport
    /\ asked' = Nothing /\ removing' = Nothing

edited ==
    /\ task.kind = "edit" /\ task.reply # "none" /\ task' = Idle
    /\ form' = IF task.reply = "ok" THEN task.path ELSE form
    /\ UNCHANGED <<selected, sure>> /\ OnlyRows

\* The end of save and of drop.
settled ==
    /\ task.kind \in {"save", "drop"} /\ task.reply # "none" /\ task' = Idle
    /\ \/ /\ task.reply = "ok" /\ FetchList
          /\ form' = IF task.kind = "save" \/ form = task.path THEN Closed ELSE form
          /\ UNCHANGED <<card, access>>
       \/ task.reply = "failed" /\ UNCHANGED <<lists, form, card, access>>
       \/ task.reply = "locked" /\ Lock /\ UNCHANGED <<lists, form>>
    /\ UNCHANGED <<answering, documents, selected, sure, sent>>

\* One removal of a clearing, and the next of them or the end: a failure goes
\* on, the gate's no does not, and the list is fetched either way.
cleared ==
    /\ task.kind = "batch" /\ task.reply # "none"
    /\ IF task.reply = "ok"
       THEN /\ selected' = selected \ {task.path}
            /\ form' = IF form = task.path THEN Closed ELSE form
       ELSE UNCHANGED <<selected, form>>
    /\ IF task.reply = "locked" THEN Lock ELSE UNCHANGED <<card, access>>
    /\ IF task.reply = "locked" \/ task.todo = {}
       THEN task' = Idle /\ FetchList
       ELSE (\E p \in task.todo : task' = Batch(task.todo, p)) /\ UNCHANGED lists
    /\ UNCHANGED <<answering, documents, sure, sent>>

-------------------------------------------------------------------------------
(***************************************************************************)
(* The card                                                                *)
(***************************************************************************)
Sends(kind, todo) ==
    /\ Send(Len(todo))
    /\ errands' = errands \cup {[n |-> sent', kind |-> kind, todo |-> todo, uploaded |-> {},
                                 auth |-> key, reply |-> "none", here |-> TRUE]}
    /\ UNCHANGED <<answering, documents, lists, table, access>>

\* The buttons wait for the import before, and the drop zone does not.
importDocs(files) ==
    /\ writable /\ Sends("import", files)
    /\ importing' = TRUE /\ imported' = NoReport
    /\ UNCHANGED <<asked, removing>>

askRemove(p) ==
    /\ writable /\ p \in documents /\ asked = Nothing /\ removing = Nothing
    /\ asked' = p
    /\ UNCHANGED <<answering, documents, lists, table, errands, importing, imported, removing,
                   access, sent>>

cancelRemove ==
    /\ asked # Nothing /\ asked' = Nothing
    /\ UNCHANGED <<answering, documents, lists, table, errands, importing, imported, removing,
                   access, sent>>

confirmRemove ==
    /\ asked # Nothing /\ Sends("remove", <<asked>>)
    /\ asked' = Nothing /\ removing' = asked
    /\ UNCHANGED <<importing, imported>>

\* The list is fetched by a card that is still here.
indexed(e) == IF e.here THEN FetchList ELSE UNCHANGED lists

\* sendOne takes an answer for a report only if it says that it is JSON. The
\* server says so of what it indexed; of a refusal it says so after the status
\* line is written, too late for it to be sent (documents.go:147-150).
IsJson(reply) == reply = "ok"

\* One file of an import has landed: the next, or the report of them all.
fileDone(e) ==
    LET up == e.uploaded \cup {Head(e.todo)} IN
    /\ e.kind = "import" /\ IsJson(e.reply)
    /\ IF Tail(e.todo) # <<>>
       THEN /\ errands' = (errands \ {e}) \cup {[e EXCEPT !.todo = Tail(e.todo), !.uploaded = up,
                                                         !.auth = key, !.reply = "none"]}
            /\ UNCHANGED <<lists, importing, imported>>
       ELSE /\ errands' = errands \ {e} /\ indexed(e)
            /\ importing' = (importing /\ ~e.here)
            /\ imported' = IF e.here THEN <<up>> ELSE imported
    /\ UNCHANGED <<answering, documents, table, asked, removing, access, sent>>

removeDone(e) ==
    /\ e.kind = "remove" /\ e.reply = "ok"
    /\ errands' = errands \ {e} /\ indexed(e)
    /\ removing' = IF e.here THEN Nothing ELSE removing
    /\ UNCHANGED <<answering, documents, table, importing, imported, asked, access, sent>>

\* A request throws, and with it everything that was to come after it.
thrown(e) ==
    /\ e.reply # "none" /\ ~IsJson(e.reply)
    /\ IF e.reply = "locked" /\ e.here
       THEN /\ key' = FALSE /\ writable' = FALSE
            /\ errands' = {[d EXCEPT !.here = FALSE] : d \in errands \ {e}}
            /\ importing' = FALSE /\ imported' = NoReport
            /\ asked' = Nothing /\ removing' = Nothing
       ELSE /\ key' = (key /\ e.reply # "locked") /\ errands' = errands \ {e}
            /\ importing' = (importing /\ ~(e.here /\ e.kind = "import"))
            /\ removing' = IF e.here /\ e.kind = "remove" THEN Nothing ELSE removing
            /\ UNCHANGED <<writable, imported, asked>>
    /\ UNCHANGED <<answering, documents, lists, table, sent>>

\* The password is asked for again, and verified; a new card is shown.
unlockLibrary ==
    /\ ~writable /\ writable' = TRUE /\ key' = TRUE
    /\ UNCHANGED <<answering, documents, lists, table, card, sent>>

-------------------------------------------------------------------------------
\* The files of one import, each of them once.
Files == {f \in UNION {[1..n -> Path] : n \in 1..MaxRequests} :
            \A i, j \in DOMAIN f : f[i] = f[j] => i = j}

LibraryPanelNext ==
    \/ Others \/ unlockLibrary
    \/ \E i \in DOMAIN lists : ReadList(i) \/ ListArrives(i)
    \/ \E some \in SUBSET documents \ {{}} : Toggle(some)
    \/ clearSelection \/ create \/ cancelForm
    \/ \E what \in documents \cup {Ticked} : Arm(what)
    \/ \E p \in documents : editDocument(p) \/ drop(p)
    \/ \E p \in Path : save(p)
    \/ dropSelected \/ ServeTask \/ edited \/ settled \/ cleared
    \/ \E files \in Files : importDocs(files)
    \/ \E p \in Path : askRemove(p)
    \/ cancelRemove \/ confirmRemove
    \/ \E e \in errands : ServeErrand(e) \/ fileDone(e) \/ removeDone(e) \/ thrown(e)

LibraryPanelSpec == LibraryPanelInit /\ [][LibraryPanelNext]_libraryVars

-------------------------------------------------------------------------------
\* "What survives a partial run is the selection: the removed ones drop out, the
\* failures stay ticked" (library.js:409-410): while documents are being cleared,
\* one loses its tick only when the server has said that it was removed.
FailuresStayTicked ==
    [][task.kind = "batch" \/ task'.kind = "batch"
       => selected \ selected' \subseteq {p \in Path : task.kind = "batch"
                                            /\ task.path = p /\ task.reply = "ok"}]_libraryVars

\* "Partial success is reported, not hidden: importing eight files where one is
\* a PDF should index the seven and name the eighth" (documents.go:51-53): an
\* import in which the server refused a file reports those that landed before it,
\* unless it goes on.
PartialIsReported ==
    [][\A e \in errands :
          /\ e.kind = "import" /\ e.here /\ e.reply = "refused" /\ e.uploaded # {}
          /\ e.n \notin {d.n : d \in errands'}
          => imported' # NoReport /\ e.uploaded \subseteq imported'[1]]_libraryVars
===============================================================================
