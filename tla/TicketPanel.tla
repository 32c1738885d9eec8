------------------------------ MODULE TicketPanel ------------------------------
(***************************************************************************)
(* The BA's screen of one browser page (src/web/ui/src: composables/       *)
(* tickets.js, qaloop.js, components/TicketCard.vue) over the server's     *)
(* queue. The page shows the list it fetched last; a press sends a move    *)
(* and the answer comes back later, while the BA goes on typing, presses   *)
(* on other cards, leaves the screen and comes back, and another BA works  *)
(* on the same queue. A list may be lost, or show what is no longer so by  *)
(* the time it arrives. What the server does within one move is module     *)
(* QALoop; here it is the statement of tickets.go that settles it.         *)
(***************************************************************************)
EXTENDS Integers, Sequences, FiniteSets

CONSTANTS
    Ticket,
    Text,       \* answers that are not blank
    MaxPresses, \* bound on the moves sent from this page
    MaxEvents,  \* bound on the moves of others, the imports and the times the
                \* screen is left
    MaxReads    \* bound on the lists in flight

ASSUME PanelAssumption == {MaxPresses, MaxEvents, MaxReads} \subseteq Nat

VARIABLES
    tickets,    \* the server's table: [Ticket -> a ticket, or Deleted]
    queue,      \* what the page shows: a function from some of Ticket
    drafts,     \* [Ticket -> what is in its box, or Undefined]
    working,    \* the ticket being written, or Nobody
    editing,    \* the published ticket whose box is open, or Nobody
    armed,      \* the destructive button pressed once: <<ticket, action>>, or <<>>
    pass,       \* whether sessionStorage holds a password
    unlocked,   \* whether the screen thinks so
    open,       \* whether the screen is the one in view
    moves,      \* the moves in flight
    reads,      \* the queue fetches in flight, in the order they were sent
    presses, events     \* how many there were; only the bounds read them

screen == <<drafts, working, editing, armed>>
gate == <<pass, unlocked>>
counts == <<presses, events>>
panelVars == <<tickets, queue, screen, gate, open, moves, reads, counts>>

Nobody == "nobody"
Undefined == "undefined"
Blank == ""

\* What a box may hold. A box of spaces alone is left out.
Typed == Text \cup {Blank}

Status == {"open", "answered", "confirmed", "rejected"}
TicketRow == [status: Status, answer: Text \cup {Blank}]
Deleted == [status |-> "deleted"]

Action == {"draft", "confirm", "retract", "reject", "delete"}
Destructive == {"reject", "delete"}

\* A move in flight: the answer that was in the box, whether it carries a
\* password, what came back, and whether the screen that sent it is still
\* there. n tells presses apart.
MoveReply == [kind: {"ticket"}, ticket: TicketRow] \cup [kind: {"none", "deleted", "failed", "locked"}]
Call == [n: 1..MaxPresses, ticket: Ticket, action: Action, answer: Text \cup {Blank},
         auth: BOOLEAN, reply: MoveReply, here: BOOLEAN]

Pending == [kind |-> "none"]
Failed == [kind |-> "failed"]

\* The types of the table, the page and what is in flight between them.
PanelTypeOK ==
    /\ DOMAIN tickets = Ticket
    /\ \A t \in Ticket : tickets[t] = Deleted \/ tickets[t] \in TicketRow
    /\ DOMAIN queue \subseteq Ticket /\ \A t \in DOMAIN queue : queue[t] \in TicketRow
    /\ drafts \in [Ticket -> Typed \cup {Undefined}]
    /\ {working, editing} \subseteq Ticket \cup {Nobody}
    /\ armed = <<>> \/ armed \in Ticket \X Destructive
    /\ {pass, unlocked, open} \subseteq BOOLEAN
    /\ moves \subseteq Call /\ Cardinality(moves) <= presses

-------------------------------------------------------------------------------
\* The moves of the store, as the WHERE of each statement has them.
Exists(t) == tickets[t] # Deleted
Unsettled == {"open", "answered"}

Allowed(t, action, answer) ==
    /\ Exists(t)
    /\ CASE action = "draft" -> tickets[t].status \in Unsettled
         [] action = "confirm" -> answer # Blank /\ tickets[t].status # "rejected"
         [] action = "retract" -> tickets[t].status = "confirmed"
         [] action = "reject" -> tickets[t].status # "rejected"
         [] OTHER -> TRUE

Moved(t, action, answer) ==
    CASE action = "draft" -> [status |-> "answered", answer |-> answer]
      [] action = "confirm" -> [status |-> "confirmed", answer |-> answer]
      [] action = "retract" -> [tickets[t] EXCEPT !.status = "answered"]
      [] action = "reject" -> [tickets[t] EXCEPT !.status = "rejected"]
      [] OTHER -> Deleted

\* Everybody else: a question is filed only with nothing in its boxes yet.
Another ==
    /\ events < MaxEvents /\ events' = events + 1
    /\ \E t \in Ticket, action \in Action, answer \in Text :
          Allowed(t, action, answer)
          /\ tickets' = [tickets EXCEPT ![t] = Moved(t, action, answer)]
    /\ UNCHANGED <<queue, screen, gate, open, moves, reads, presses>>

\* The list is what is not deleted.
Queue == [t \in {u \in Ticket : Exists(u)} |-> tickets[t]]

-------------------------------------------------------------------------------
\* The boxes after a refresh, when a list refills them all.
seedAll(list) == [t \in Ticket |-> IF t \in DOMAIN list THEN list[t].answer ELSE drafts[t]]

\* The watcher of the list fills the boxes nobody has touched.
seed(list) ==
    [t \in Ticket |-> IF t \in DOMAIN list /\ drafts[t] = Undefined
                      THEN list[t].answer ELSE drafts[t]]

PanelInit ==
    /\ tickets \in [Ticket -> {[status |-> "open", answer |-> Blank]}
                             \cup [status: {"answered", "confirmed"}, answer: Text]]
    /\ queue = tickets
    /\ drafts = [t \in Ticket |-> queue[t].answer]
    /\ working = Nobody /\ editing = Nobody /\ armed = <<>>
    /\ pass = TRUE /\ unlocked = TRUE /\ open = TRUE
    /\ moves = {} /\ reads = <<>>
    /\ presses = 0 /\ events = 0

\* What a card lets its buttons do.
Busy(t) == working = t
correcting(t) == editing = t
Box(t) == IF drafts[t] = Undefined THEN Blank ELSE drafts[t]
Card(t) == open /\ t \in DOMAIN queue
Working(t) == queue[t].status \in Unsettled
HasForm(t) == IF Working(t) THEN unlocked ELSE queue[t].status = "confirmed" /\ correcting(t)
IsArmed(t, action) == armed = <<t, action>>

TypeInto(t) ==
    /\ Card(t) /\ HasForm(t)
    /\ \E text \in Typed \ {Box(t)} : drafts' = [drafts EXCEPT ![t] = text]
    /\ UNCHANGED <<tickets, queue, working, editing, armed, gate, open, moves, reads, counts>>

edit(t) ==
    /\ Card(t) /\ unlocked /\ queue[t].status = "confirmed" /\ ~correcting(t) /\ ~Busy(t)
    /\ drafts' = [drafts EXCEPT ![t] = queue[t].answer]
    /\ editing' = t /\ armed' = <<>>
    /\ UNCHANGED <<tickets, queue, working, gate, open, moves, reads, counts>>

cancel(t) ==
    /\ Card(t) /\ unlocked /\ queue[t].status = "confirmed" /\ correcting(t) /\ ~Busy(t)
    /\ drafts' = [drafts EXCEPT ![t] = queue[t].answer]
    /\ editing' = Nobody
    /\ UNCHANGED <<tickets, queue, working, armed, gate, open, moves, reads, counts>>

\* The buttons of a settled card that have to be pressed twice.
Guarded(t) ==
    IF queue[t].status = "confirmed" /\ ~correcting(t) THEN Destructive
    ELSE IF queue[t].status = "rejected" THEN {"delete"} ELSE {}

arm(t, action) ==
    /\ Card(t) /\ unlocked /\ action \in Guarded(t) /\ ~Busy(t) /\ ~IsArmed(t, action)
    /\ armed' = <<t, action>>
    /\ UNCHANGED <<tickets, queue, drafts, working, editing, gate, open, moves, reads, counts>>

\* The buttons that act on the press they receive.
Pressable(t) ==
    {action \in Guarded(t) : IsArmed(t, action)}
    \cup (IF Working(t) THEN {"reject"} ELSE {})
    \cup (IF HasForm(t) /\ Box(t) # Blank THEN {"confirm"} ELSE {})
    \cup (IF Working(t) /\ Box(t) # Blank THEN {"draft"} ELSE {})
    \cup (IF queue[t].status = "confirmed" /\ ~correcting(t) THEN {"retract"} ELSE {})

\* move and remove up to the request: one value holds the ticket at work.
Press(t, action) ==
    /\ Card(t) /\ unlocked /\ ~Busy(t) /\ action \in Pressable(t)
    /\ presses < MaxPresses /\ presses' = presses + 1
    /\ working' = t /\ armed' = <<>>
    /\ moves' = moves \cup {[n |-> presses', ticket |-> t, action |-> action,
                             answer |-> Box(t), auth |-> pass,
                             reply |-> Pending, here |-> TRUE]}
    /\ UNCHANGED <<tickets, queue, drafts, editing, gate, open, reads, events>>

Answered(c, reply) == moves' = (moves \ {c}) \cup {[c EXCEPT !.reply = reply]}

\* The server moves the ticket or refuses, or the password is no longer good;
\* and whatever it did, its word may be lost on the way.
Serve(c) ==
    /\ c.reply = Pending
    /\ \/ /\ c.auth /\ Allowed(c.ticket, c.action, c.answer)
          /\ tickets' = [tickets EXCEPT ![c.ticket] = Moved(c.ticket, c.action, c.answer)]
          /\ \/ Answered(c, IF c.action = "delete" THEN [kind |-> "deleted"]
                            ELSE [kind |-> "ticket", ticket |-> tickets'[c.ticket]])
             \/ Answered(c, Failed)
       \/ Answered(c, Failed) /\ UNCHANGED tickets
       \/ Answered(c, [kind |-> "locked"]) /\ UNCHANGED tickets
    /\ UNCHANGED <<queue, screen, gate, open, reads, counts>>

\* refresh: ask for the list. One beyond the bound counts as lost.
Fetch == reads' = IF Len(reads) < MaxReads THEN Append(reads, <<>>) ELSE reads

\* The boxes and buttons once a move has gone through.
Took(c) ==
    /\ drafts' = [drafts EXCEPT ![c.ticket] =
                    IF c.action = "delete" THEN Undefined ELSE c.reply.ticket.answer]
    /\ editing' = Nobody /\ working' = Nobody
    /\ UNCHANGED <<gate, armed>>

\* onLocked: nothing is fetched. A refused password is forgotten, and its form
\* comes back.
Refused(c) ==
    /\ pass' = (pass /\ c.reply.kind # "locked")
    /\ unlocked' = (unlocked /\ c.reply.kind # "locked")
    /\ working' = Nobody
    /\ UNCHANGED <<drafts, editing, armed>>

\* The end of move and remove. A screen that was left hears nothing: its
\* state went with it, and so did the listener that would have refreshed.
SettleMove(c) ==
    /\ c.reply # Pending /\ moves' = moves \ {c}
    /\ IF ~c.here
       THEN /\ pass' = (pass /\ c.reply.kind # "locked")
            /\ UNCHANGED <<screen, unlocked, reads>>
       ELSE IF c.reply.kind \in {"ticket", "deleted"}
       THEN Took(c) /\ Fetch
       ELSE Refused(c) /\ UNCHANGED reads
    /\ UNCHANGED <<tickets, queue, open, counts>>

\* The server reads its table for one of the fetches, and answers.
Read(i) ==
    /\ reads[i] = <<>>
    /\ reads' = [reads EXCEPT ![i] = <<Queue>>]
    /\ UNCHANGED <<tickets, queue, screen, gate, open, moves, counts>>

\* A list arrives, in any order, and replaces the one on screen; or it does
\* not, and nothing is said.
Arrive(i) ==
    /\ reads' = SubSeq(reads, 1, i - 1) \o SubSeq(reads, i + 1, Len(reads))
    /\ \/ /\ reads[i] # <<>> /\ queue' = reads[i][1]
          /\ drafts' = IF open THEN seed(queue') ELSE drafts
       \/ UNCHANGED <<queue, drafts>>
    /\ UNCHANGED <<tickets, working, editing, armed, gate, open, moves, counts>>

\* The other screen: this one is unmounted with everything in its boxes.
GoAway ==
    /\ open /\ open' = FALSE /\ events < MaxEvents /\ events' = events + 1
    /\ drafts' = [t \in Ticket |-> Undefined]
    /\ working' = Nobody /\ editing' = Nobody /\ armed' = <<>>
    /\ moves' = {[c EXCEPT !.here = FALSE] : c \in moves}
    /\ Fetch
    /\ UNCHANGED <<tickets, queue, gate, presses>>

\* And back: the boxes are filled from the list the shell holds.
ComeBack ==
    /\ ~open /\ open' = TRUE
    /\ drafts' = seed(queue) /\ unlocked' = pass
    /\ Fetch
    /\ UNCHANGED <<tickets, queue, working, editing, armed, pass, moves, counts>>

\* The password is asked for again, and verified.
unlock ==
    /\ open /\ ~unlocked /\ unlocked' = TRUE /\ pass' = TRUE
    /\ UNCHANGED <<tickets, queue, screen, open, moves, reads, counts>>

\* An import that landed says that something changed too.
baChanged ==
    /\ open /\ events < MaxEvents /\ events' = events + 1
    /\ Fetch
    /\ UNCHANGED <<tickets, queue, screen, gate, open, moves, presses>>

PanelNext ==
    \/ \E t \in Ticket :
          \/ TypeInto(t) \/ edit(t) \/ cancel(t)
          \/ \E action \in Destructive : arm(t, action)
          \/ \E action \in Action : Press(t, action)
    \/ \E c \in moves : Serve(c) \/ SettleMove(c)
    \/ \E i \in DOMAIN reads : Read(i) \/ Arrive(i)
    \/ Another \/ GoAway \/ ComeBack \/ unlock \/ baChanged

PanelSpec == PanelInit /\ [][PanelNext]_panelVars

-------------------------------------------------------------------------------
\* What is in a box is replaced by the BA, by the answer to a move of the same
\* ticket, or with the screen; never by a list that arrives and never by what
\* happens to another ticket: "someone typing an answer must not have it
\* overwritten by the next queue refresh" (tickets.js:9-10).
TypedIsKept ==
    [][\A t \in Ticket :
          drafts[t] # Undefined /\ drafts'[t] # drafts[t] /\ open'
          => queue' = queue /\ \A c \in moves : c.n \in {d.n : d \in moves'} \/ c.ticket = t]_panelVars

\* "The id of the ticket currently being written, or null - one at a time, so a
\* double-tap cannot confirm twice" (TicketCard.vue:58-59).
ConfirmedOnce ==
    \A c, d \in moves :
        c.ticket = d.ticket /\ c.action = "confirm" /\ d.action = "confirm" => c = d
===============================================================================
