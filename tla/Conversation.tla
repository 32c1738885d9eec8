----------------------------- MODULE Conversation -----------------------------
(***************************************************************************)
(* The thread of one browser page (src/web/ui/src: composables/            *)
(* conversation.js, lib/chat.js, lib/session.js): questions, the streams   *)
(* that answer them, stop, regenerate, reset, and the copy of the thread   *)
(* in localStorage. JavaScript runs one callback at a time, so a callback, *)
(* with the watcher of the thread that follows it, is one action; what     *)
(* interleaves is the user, the network, the debounce timer and the        *)
(* browser, which may hide, show or discard the page.                      *)
(***************************************************************************)
EXTENDS ListFolds, FiniteSets

CONSTANTS
    RECALL_TURNS,   \* how many earlier turns ride along with a question
    MAX_TURNS,      \* how many turns are saved
    MaxSeq,         \* bound on the ids of turns
    MaxResets       \* bound on resets

ASSUME LengthsAssumption == RECALL_TURNS \in Nat \ {0} /\ MAX_TURNS \in Nat \ {0}
ASSUME BoundsAssumption == MaxSeq \in Nat /\ MaxResets \in Nat

VARIABLES
    turns,      \* the thread on screen
    seq,        \* the last id given to a turn
    busy,       \* whether an answer is being waited for
    live,       \* the requests in flight
    run,        \* the id of the turn stop() would abort, or 0
    pending,    \* the snapshot save() took last
    timer,      \* whether the debounce timer is set
    stored,     \* what localStorage holds
    full,       \* whether localStorage refuses writes: quota or private mode
    shown,      \* whether the page is visible
    era         \* how many resets there were; only properties read it

memory == <<turns, seq, busy, live, run>>
session == <<pending, timer, stored>>
convVars == <<turns, seq, busy, live, run, pending, timer, stored, full, shown, era>>

\* Neither the snapshot nor localStorage holds an empty thread.
None == <<>>

\* text is how much of the answer is there.  redone: asked again while later
\* turns followed it; era: the resets before it. Only properties read these.
Turn == [id: 1..MaxSeq, text: {"none", "part", "whole"}, streaming: BOOLEAN,
         stopped: BOOLEAN, error: BOOLEAN, redone: BOOLEAN, era: 0..MaxResets]

\* A request of chat.js. done: the last frame has come.  history: the turns
\* sent along.
Request == [turn: 1..MaxSeq, aborted: BOOLEAN, done: BOOLEAN, history: Seq(Turn)]

ConvTypeOK ==
    /\ turns \in Seq(Turn)
    /\ pending \in Seq(Turn) /\ Len(pending) <= MAX_TURNS
    /\ stored \in Seq(Turn) /\ Len(stored) <= MAX_TURNS
    /\ \A r \in live : r \in Request /\ Len(r.history) <= RECALL_TURNS
    /\ seq \in 0..MaxSeq /\ run \in 0..MaxSeq /\ era \in 0..MaxResets
    /\ {busy, timer, full, shown} \subseteq BOOLEAN

ConvInit ==
    /\ turns = <<>> /\ seq = 0
    /\ busy = FALSE /\ live = {} /\ run = 0
    /\ pending = None /\ timer = FALSE /\ stored = None
    /\ full \in BOOLEAN
    /\ shown = TRUE
    /\ era = 0

-------------------------------------------------------------------------------
(***************************************************************************)
(* session.js                                                              *)
(***************************************************************************)
\* The newest n elements of a sequence: slice(-n).
Newest(s, n) == SubSeq(s, IF Len(s) > n THEN Len(s) - n + 1 ELSE 1, Len(s))

\* A settling that forgets the answers cut short.
settleQuietly(t) == [t EXCEPT !.streaming = FALSE]

\* A turn as it is saved: one that streams is settled as stopped.
settle(t) == [t EXCEPT !.streaming = FALSE, !.stopped = @ \/ t.streaming]

Snapshot(list) == [i \in DOMAIN Newest(list, MAX_TURNS) |-> settle(Newest(list, MAX_TURNS)[i])]

\* A debounce that keeps the snapshot it is already waiting with.
saveFirst(list) ==
    /\ pending' = IF timer THEN pending ELSE Snapshot(list)
    /\ timer' = TRUE
    /\ UNCHANGED stored

save(list) ==
    /\ pending' = Snapshot(list)
    /\ timer' = TRUE
    /\ UNCHANGED stored

\* A clear that leaves the snapshot to the timer.
clearStored ==
    /\ stored' = None
    /\ UNCHANGED <<pending, timer>>

clear == pending' = None /\ timer' = FALSE /\ stored' = None

\* The snapshot stays pending after it is written. A refused write is ignored.
flush ==
    /\ timer' = FALSE
    /\ stored' = IF pending = None \/ full THEN stored ELSE pending
    /\ UNCHANGED pending

\* The deep watcher of the thread, after a callback that changed it.
Watch(list) == IF list # <<>> THEN save(list) ELSE clear

-------------------------------------------------------------------------------
(***************************************************************************)
(* conversation.js                                                         *)
(***************************************************************************)
newTurn == [id |-> seq + 1, text |-> "none", streaming |-> TRUE, stopped |-> FALSE,
            error |-> FALSE, redone |-> FALSE, era |-> era]

\* The turns that have an answer to replay.
Answered(list) == {t \in ToSet(list) : t.text # "none" /\ ~t.error /\ ~t.stopped}

\* Those before the i-th, the newest of them.
threadBefore(list, i) ==
    Newest(Only(SubSeq(list, 1, i - 1), Answered(list)), RECALL_TURNS)

\* stream(turn), up to its await.
Stream(list, i) ==
    /\ busy' = TRUE
    /\ live' = live \cup {[turn |-> list[i].id, aborted |-> FALSE, done |-> FALSE,
                           history |-> threadBefore(list, i)]}
    /\ run' = list[i].id

ask ==
    /\ shown /\ ~busy
    /\ seq < MaxSeq /\ seq' = seq + 1
    /\ turns' = Append(turns, newTurn)
    /\ Stream(turns', Len(turns'))
    /\ Watch(turns')
    /\ UNCHANGED <<full, shown, era>>

\* Every turn on screen offers it, not the last one only.
regenerate(i) ==
    /\ shown /\ ~busy
    /\ turns' = [turns EXCEPT ![i].text = "none", ![i].streaming = TRUE,
                              ![i].stopped = FALSE, ![i].error = FALSE,
                              ![i].redone = i < Len(turns)]
    /\ Stream(turns', i)
    /\ Watch(turns')
    /\ UNCHANGED <<seq, full, shown, era>>

\* The abort of chat.js; the stream ends when the fetch rejects.
Abort == {IF r.turn = run THEN [r EXCEPT !.aborted = TRUE] ELSE r : r \in live}

\* Only the last turn is marked as stopped.
stop ==
    /\ shown /\ busy
    /\ live' = Abort
    /\ IF turns # <<>> /\ turns[Len(turns)].streaming
       THEN turns' = [turns EXCEPT ![Len(turns)].stopped = TRUE]
       ELSE UNCHANGED turns
    /\ IF turns' # turns THEN Watch(turns') ELSE UNCHANGED session
    /\ UNCHANGED <<seq, busy, run, full, shown, era>>

\* The reset that makes room for the next question at once.
resetAtOnce ==
    /\ shown
    /\ era < MaxResets /\ era' = era + 1
    /\ live' = Abort
    /\ turns' = <<>>
    /\ busy' = FALSE
    /\ clear
    /\ UNCHANGED <<seq, run, full, shown>>

\* reset: stop(), then an empty thread, cleared by hand and by the watcher. The
\* stream it aborts is still there, for a turn that no longer is.
reset ==
    /\ shown
    /\ era < MaxResets /\ era' = era + 1
    /\ live' = Abort
    /\ turns' = <<>>
    /\ clear
    /\ UNCHANGED <<seq, busy, run, full, shown>>

-------------------------------------------------------------------------------
(***************************************************************************)
(* What a stream brings: its callbacks write to the turn it was started    *)
(* for, which the page may not show any more.                              *)
(***************************************************************************)
Assign(turn, fields) ==
    [f \in DOMAIN turn |-> IF f \in DOMAIN fields THEN fields[f] ELSE turn[f]]

Update(r, fields) ==
    LET changed == [i \in DOMAIN turns |->
                      IF turns[i].id = r.turn THEN Assign(turns[i], fields) ELSE turns[i]] IN
    /\ turns' = changed
    /\ IF changed # turns THEN Watch(changed) ELSE UNCHANGED session

Token(r) ==
    /\ ~r.aborted /\ ~r.done
    /\ Update(r, [text |-> "part"])
    /\ UNCHANGED <<seq, busy, live, run, full, shown, era>>

\* The done frame. The body has still to end.
Done(r) ==
    /\ ~r.aborted /\ ~r.done
    /\ live' = (live \ {r}) \cup {[r EXCEPT !.done = TRUE]}
    /\ Update(r, [text |-> "whole"])
    /\ UNCHANGED <<seq, busy, run, full, shown, era>>

\* The end of a stream that only settles a turn it still finds.
SettleShown(r) ==
    /\ r.aborted \/ r.done
    /\ live' = live \ {r}
    /\ Update(r, [streaming |-> FALSE])
    /\ IF \E i \in DOMAIN turns : turns[i].id = r.turn
       THEN busy' = FALSE /\ run' = 0
       ELSE UNCHANGED <<busy, run>>
    /\ UNCHANGED <<seq, full, shown, era>>

\* The body ends, or the abort lands: run.done resolves, and finally runs.
Resolve(r) ==
    /\ r.aborted \/ r.done
    /\ live' = live \ {r}
    /\ busy' = FALSE /\ run' = 0
    /\ Update(r, [streaming |-> FALSE])
    /\ UNCHANGED <<seq, full, shown, era>>

\* No server, an error status, an error frame, or a connection that breaks.
Reject(r) ==
    /\ ~r.aborted
    /\ live' = live \ {r}
    /\ busy' = FALSE /\ run' = 0
    /\ Update(r, [streaming |-> FALSE, error |-> TRUE])
    /\ UNCHANGED <<seq, full, shown, era>>

-------------------------------------------------------------------------------
\* The debounce timer fires.
Fire ==
    /\ timer
    /\ flush
    /\ UNCHANGED <<memory, full, shown, era>>

\* visibilitychange or pagehide: the page may not run again after this.
Hide ==
    /\ shown /\ shown' = FALSE
    /\ flush
    /\ UNCHANGED <<memory, full, era>>

Show ==
    /\ ~shown /\ shown' = TRUE
    /\ UNCHANGED <<memory, session, full, era>>

Greatest(S) == IF S = {} THEN 0 ELSE CHOOSE n \in S : \A m \in S : m <= n

\* The page is loaded anew, after it was hidden and closed, reloaded or
\* evicted, or after it crashed: load() is all that is left of it.
Load ==
    /\ turns' = [i \in DOMAIN stored |-> settle(stored[i])]
    /\ seq' = Greatest({stored[i].id : i \in DOMAIN stored})
    /\ busy' = FALSE /\ live' = {} /\ run' = 0
    /\ pending' = None /\ timer' = FALSE
    /\ shown' = TRUE
    /\ UNCHANGED <<stored, full, era>>

-------------------------------------------------------------------------------
Frame(r) == Token(r) \/ Done(r)

Ends(r) == Resolve(r) \/ Reject(r)

ConvNext ==
    \/ ask
    \/ \E i \in DOMAIN turns : regenerate(i)
    \/ stop
    \/ reset
    \/ \E r \in live : Frame(r) \/ Ends(r)
    \/ Fire \/ Hide \/ Show \/ Load

\* The server ends every stream it is sending and an abort lands.
ConvFairness == WF_convVars(\E r \in live : Ends(r))

ConvSpec == ConvInit /\ [][ConvNext]_convVars /\ ConvFairness

-------------------------------------------------------------------------------
\* One stream at a time, whatever is stopped, reset and asked again: busy, the
\* request in flight and run stand for one another, and the turn that streams
\* is the one that request answers. A turn left streaming by nobody would show
\* a spinner for good; a stream that nobody can stop would be worse.
OneStream ==
    /\ Cardinality(live) <= 1
    /\ busy <=> live # {}
    /\ \A r \in live : run = r.turn
    /\ \A i \in DOMAIN turns :
          turns[i].streaming <=> \E r \in live : r.turn = turns[i].id

\* What a reader resets is gone: no turn from before the last reset is shown,
\* waits to be written or is stored, although a stream of the old thread may
\* still end, the timer may be set and the page may be hidden and loaded again
\* (conversation.js reset, session.js clear).
ResetForgets ==
    \A list \in {turns, pending, stored} :
        \A i \in DOMAIN list : list[i].era = era

\* An answer cut short says so, on screen, in the snapshot and in storage, so
\* that it is not replayed to the model as a whole one (conversation.js:72-75,
\* session.js:97-101). Excepted is an answer cut while it was asked again above
\* later turns: stop() does not mark it.
HalfIsMarked ==
    \A list \in {turns, pending, stored} :
        \A i \in DOMAIN list :
            list[i].text = "part" /\ ~list[i].streaming /\ ~list[i].redone
            => list[i].stopped \/ list[i].error

\* "The debounce never costs a lost answer" (session.js:69-71): unless storage
\* refuses writes, a page that is hidden leaves in storage exactly what was on
\* screen, as far back as is kept, whatever was saved or was waiting before.
HideKeepsTheThread == [][shown /\ ~shown' /\ ~full => stored' = Snapshot(turns)]_convVars

\* The page does not stay busy: also when the turn it was busy with has been
\* reset away.
BusyEnds == busy ~> ~busy

-------------------------------------------------------------------------------
\* Only turns that have a whole answer are sent with a question: "`stopped` is
\* what closes it" (conversation.js:27-35).
HistoryIsWhole ==
    \A r \in live : \A i \in DOMAIN r.history : r.history[i].text = "whole"
===============================================================================
