------------------------------ MODULE PanelProofs ------------------------------
(***************************************************************************)
(* Theorems about the BA's two panels. What is typed into a ticket is kept *)
(* (TicketPanel), for any tickets, any texts and however many moves and    *)
(* lists are under way; a clearing unticks only what was removed           *)
(* (LibraryPanel), for any documents and however many requests and lists   *)
(* are in flight. Last, that the run of MCTextToAnswer is these panels,    *)
(* the splitting and the question side by side, so that what is proved of  *)
(* each holds of it.                                                       *)
(***************************************************************************)
EXTENDS MCTextToAnswer, SplittingProofs, QuestionProofs

-----------------------------------------------------------------------------
(* The tickets: what is typed is kept.                                     *)

\* There is one box for each ticket.
Boxes == drafts = [t \in Ticket |-> drafts[t]]

LEMMA BoxesStep == Boxes /\ [PanelNext]_panelVars => Boxes'
<1> SUFFICES ASSUME Boxes, [PanelNext]_panelVars PROVE Boxes'
  OBVIOUS
<1> USE DEF Boxes
<1>1. ASSUME NEW t \in Ticket, TypeInto(t) PROVE Boxes'
  BY <1>1 DEF TypeInto
<1>2. ASSUME NEW t \in Ticket, edit(t) \/ cancel(t) PROVE Boxes'
  BY <1>2 DEF edit, cancel
<1>3. ASSUME NEW t \in Ticket, NEW action, arm(t, action) \/ Press(t, action) PROVE Boxes'
  BY <1>3 DEF arm, Press
<1>4. ASSUME NEW c \in moves, Serve(c) PROVE Boxes'
  BY <1>4 DEF Serve, screen
<1>5. ASSUME NEW c \in moves, SettleMove(c) PROVE Boxes'
  BY <1>5 DEF SettleMove, Took, Refused, screen
<1>6. ASSUME NEW i \in DOMAIN reads, Read(i) PROVE Boxes'
  BY <1>6 DEF Read, screen
<1>7. ASSUME NEW i \in DOMAIN reads, Arrive(i) PROVE Boxes'
  BY <1>7 DEF Arrive, seed
<1>8. CASE Another \/ unlock \/ baChanged
  BY <1>8 DEF Another, unlock, baChanged, screen
<1>9. CASE GoAway \/ ComeBack
  BY <1>9 DEF GoAway, ComeBack, seed
<1>10. CASE UNCHANGED panelVars
  BY <1>10 DEF panelVars, screen
<1> QED
  BY <1>1, <1>2, <1>3, <1>4, <1>5, <1>6, <1>7, <1>8, <1>9, <1>10 DEF PanelNext

\* What TypedIsKept says of a step.
Kept ==
    \A t \in Ticket :
        drafts[t] # Undefined /\ drafts'[t] # drafts[t] /\ open'
        => queue' = queue /\ \A c \in moves : c.n \in {d.n : d \in moves'} \/ c.ticket = t

\* A step that leaves the moves in flight and the list alone may change any box.
LEMMA NothingEnds == ASSUME queue' = queue, moves \subseteq moves' PROVE Kept
BY DEF Kept

\* A step that leaves the boxes alone takes nothing from them.
LEMMA NothingTyped == ASSUME drafts' = drafts PROVE Kept
BY DEF Kept

\* The watcher of the list fills only boxes that nobody has touched.
LEMMA SeedKeeps ==
    ASSUME NEW list, drafts' = seed(list) PROVE Kept
BY DEF Kept, seed

\* The answer to a move changes the box of its ticket alone.
LEMMA SettleKeeps == ASSUME Boxes, NEW c \in moves, SettleMove(c) PROVE Kept
<1>1. queue' = queue /\ moves' = moves \ {c}
  BY DEF SettleMove
<1>2. CASE Took(c)
  <2> SUFFICES ASSUME NEW t \in Ticket, drafts'[t] # drafts[t], NEW d \in moves
               PROVE  d.n \in {e.n : e \in moves'} \/ d.ticket = t
    BY <1>1 DEF Kept
  <2>1. t = c.ticket
    BY <1>2 DEF Took, Boxes
  <2> QED
    BY <1>1, <2>1
<1>3. CASE drafts' = drafts
  BY <1>3, NothingTyped
<1> QED
  BY <1>2, <1>3 DEF SettleMove, Refused, screen

LEMMA StepKeeps == Boxes /\ [PanelNext]_panelVars => Kept
<1> SUFFICES ASSUME Boxes, [PanelNext]_panelVars PROVE Kept
  OBVIOUS
<1>1. ASSUME NEW t \in Ticket, TypeInto(t) \/ edit(t) \/ cancel(t) PROVE Kept
  BY <1>1, NothingEnds DEF TypeInto, edit, cancel
<1>2. ASSUME NEW t \in Ticket, NEW action, arm(t, action) \/ Press(t, action) PROVE Kept
  BY <1>2, NothingTyped DEF arm, Press
<1>3. ASSUME NEW c \in moves, Serve(c) PROVE Kept
  BY <1>3, NothingTyped DEF Serve, screen
<1>4. ASSUME NEW c \in moves, SettleMove(c) PROVE Kept
  BY <1>4, SettleKeeps
<1>5. ASSUME NEW i \in DOMAIN reads, Read(i) PROVE Kept
  BY <1>5, NothingTyped DEF Read, screen
<1>6. ASSUME NEW i \in DOMAIN reads, Arrive(i) PROVE Kept
  BY <1>6, NothingTyped, SeedKeeps DEF Arrive
<1>7. CASE Another \/ unlock \/ baChanged
  BY <1>7, NothingTyped DEF Another, unlock, baChanged, screen
<1>8. CASE GoAway
  BY <1>8 DEF GoAway, Kept
<1>9. CASE ComeBack
  BY <1>9, SeedKeeps DEF ComeBack
<1>10. CASE UNCHANGED panelVars
  BY <1>10, NothingTyped DEF panelVars, screen
<1> QED
  BY <1>1, <1>2, <1>3, <1>4, <1>5, <1>6, <1>7, <1>8, <1>9, <1>10 DEF PanelNext

\* No list that arrives and no move of another ticket replaces what stands in a
\* box, while the screen is there (tickets.js).
THEOREM TypedIsKeptCorrect == PanelSpec => TypedIsKept
<1>1. PanelInit => Boxes
  BY DEF PanelInit, Boxes
<1>2. Boxes /\ [PanelNext]_panelVars => [Kept]_panelVars
  BY StepKeeps
<1> QED
  BY <1>1, <1>2, BoxesStep, PTL DEF PanelSpec, TypedIsKept, Kept

-----------------------------------------------------------------------------
(* The tickets: what is where.                                             *)

\* What the page may show, and what a list may bring.
TicketList == UNION {[some -> TicketRow] : some \in SUBSET Ticket}

TicketsTyped == tickets \in [Ticket -> TicketRow \cup {Deleted}]
QueueTyped == queue \in TicketList
ReadsTyped == reads \in Seq({<<>>} \cup {<<list>> : list \in TicketList})
BoxesTyped ==
    /\ drafts \in [Ticket -> Typed \cup {Undefined}]
    /\ working \in Ticket \cup {Nobody} /\ editing \in Ticket \cup {Nobody}
    /\ armed = <<>> \/ armed \in Ticket \X Destructive
GateTyped == pass \in BOOLEAN /\ unlocked \in BOOLEAN /\ open \in BOOLEAN
\* A move answered without a ticket was a deletion; each was counted.
MovesTyped ==
    /\ moves \subseteq Call /\ \A c \in moves : c.reply.kind = "deleted" => c.action = "delete"
    /\ IsFiniteSet(moves) /\ presses \in 0..MaxPresses /\ Cardinality(moves) <= presses

TicketTypes ==
    TicketsTyped /\ QueueTyped /\ ReadsTyped /\ BoxesTyped /\ GateTyped /\ MovesTyped

LEMMA TicketListIs ==
    ASSUME NEW list \in TicketList
    PROVE  DOMAIN list \subseteq Ticket /\ \A t \in DOMAIN list : list[t] \in TicketRow
BY DEF TicketList

LEMMA TicketsAreTyped == TicketTypes => PanelTypeOK
<1> SUFFICES ASSUME TicketTypes PROVE PanelTypeOK
  OBVIOUS
<1>1. DOMAIN tickets = Ticket /\ \A t \in Ticket : tickets[t] = Deleted \/ tickets[t] \in TicketRow
  BY DEF TicketTypes, TicketsTyped
<1>2. DOMAIN queue \subseteq Ticket /\ \A t \in DOMAIN queue : queue[t] \in TicketRow
  BY TicketListIs DEF TicketTypes, QueueTyped
<1>3. /\ drafts \in [Ticket -> Typed \cup {Undefined}]
      /\ {working, editing} \subseteq Ticket \cup {Nobody}
      /\ armed = <<>> \/ armed \in Ticket \X Destructive
  BY DEF TicketTypes, BoxesTyped
<1>4. {pass, unlocked, open} \subseteq BOOLEAN
  BY DEF TicketTypes, GateTyped
<1>5. moves \subseteq Call /\ Cardinality(moves) <= presses
  BY DEF TicketTypes, MovesTyped
<1> QED BY <1>1, <1>2, <1>3, <1>4, <1>5 DEF PanelTypeOK

\* What a step leaves alone keeps its type.
LEMMA TypesKept ==
    ASSUME TicketTypes
    PROVE  /\ UNCHANGED tickets => TicketsTyped'
           /\ UNCHANGED queue => QueueTyped'
           /\ UNCHANGED reads => ReadsTyped'
           /\ UNCHANGED screen => BoxesTyped'
           /\ UNCHANGED <<gate, open>> => GateTyped'
           /\ UNCHANGED <<moves, presses>> => MovesTyped'
BY DEF TicketTypes, TicketsTyped, QueueTyped, ReadsTyped, BoxesTyped, GateTyped, MovesTyped,
       screen, gate

\* What the store makes of a ticket it may move.
LEMMA MovedTyped ==
    ASSUME TicketsTyped, NEW t \in Ticket, NEW action \in Action, NEW answer \in Typed,
           Allowed(t, action, answer)
    PROVE  /\ Moved(t, action, answer) \in TicketRow \cup {Deleted}
           /\ action # "delete" => Moved(t, action, answer) \in TicketRow
           /\ action = "delete" => Moved(t, action, answer) = Deleted
<1>1. tickets[t] \in TicketRow
  BY DEF TicketsTyped, Allowed, Exists
<1>2. [tickets[t] EXCEPT !.status = "answered"] \in TicketRow
  BY <1>1 DEF TicketRow, Status
<1>3. [tickets[t] EXCEPT !.status = "rejected"] \in TicketRow
  BY <1>1 DEF TicketRow, Status
<1>4. /\ [status |-> "answered", answer |-> answer] \in TicketRow
      /\ [status |-> "confirmed", answer |-> answer] \in TicketRow
  BY DEF TicketRow, Status, Typed
<1>5. CASE action = "draft"
  BY <1>4, <1>5 DEF Moved
<1>6. CASE action = "confirm"
  BY <1>4, <1>6 DEF Moved
<1>7. CASE action = "retract"
  BY <1>2, <1>7 DEF Moved
<1>8. CASE action = "reject"
  BY <1>3, <1>8 DEF Moved
<1>9. CASE action = "delete"
  BY <1>9 DEF Moved
<1> QED BY <1>5, <1>6, <1>7, <1>8, <1>9 DEF Action

LEMMA TableMoves ==
    ASSUME TicketsTyped, NEW t \in Ticket, NEW row \in TicketRow \cup {Deleted},
           tickets' = [tickets EXCEPT ![t] = row]
    PROVE  TicketsTyped' /\ tickets'[t] = row
<1>1. tickets \in [Ticket -> TicketRow \cup {Deleted}]
  BY DEF TicketsTyped
<1> QED BY <1>1 DEF TicketsTyped

\* The list is of rows.
LEMMA QueueIsListed == TicketsTyped => Queue \in TicketList
<1> SUFFICES ASSUME TicketsTyped PROVE Queue \in TicketList
  OBVIOUS
<1> DEFINE there == {u \in Ticket : Exists(u)}
<1>1. \A u \in there : tickets[u] \in TicketRow
  BY DEF TicketsTyped, Exists
<1> HIDE DEF there
<1>2. [t \in there |-> tickets[t]] \in [there -> TicketRow]
  BY <1>1
<1>3. there \in SUBSET Ticket
  BY DEF there
<1> QED BY <1>2, <1>3 DEF Queue, TicketList, there

\* A list less, more, or answered.
LEMMA ReadsMove ==
    ASSUME ReadsTyped
    PROVE  /\ Fetch => ReadsTyped'
           /\ \A i \in DOMAIN reads :
                 /\ reads[i] = <<>> \/ reads[i][1] \in TicketList
                 /\ reads' = SubSeq(reads, 1, i - 1) \o SubSeq(reads, i + 1, Len(reads)) => ReadsTyped'
                 /\ \A list \in TicketList : reads' = [reads EXCEPT ![i] = <<list>>] => ReadsTyped'
<1> DEFINE T == {<<>>} \cup {<<list>> : list \in TicketList}
<1>1. reads \in Seq(T) /\ <<>> \in T
  BY DEF ReadsTyped
<1>2. \A x \in T : x = <<>> \/ x[1] \in TicketList
  OBVIOUS
<1>3. \A list \in TicketList : <<list>> \in T
  OBVIOUS
<1> HIDE DEF T
<1>4. Fetch => reads' \in Seq(T)
  BY ONLY <1>1 DEF Fetch
<1>5. ASSUME NEW i \in DOMAIN reads
      PROVE  /\ reads[i] = <<>> \/ reads[i][1] \in TicketList
             /\ reads' = SubSeq(reads, 1, i - 1) \o SubSeq(reads, i + 1, Len(reads)) => reads' \in Seq(T)
             /\ \A list \in TicketList : reads' = [reads EXCEPT ![i] = <<list>>] => reads' \in Seq(T)
  <2>1. reads[i] \in T
    BY ONLY <1>1, <1>5
  <2>2. SubSeq(reads, 1, i - 1) \o SubSeq(reads, i + 1, Len(reads)) \in Seq(T)
    <3>1. SubSeq(reads, 1, i - 1) \in Seq(T) /\ SubSeq(reads, i + 1, Len(reads)) \in Seq(T)
      BY ONLY <1>1, <1>5
    <3> QED BY ONLY <3>1
  <2>3. \A x \in T : [reads EXCEPT ![i] = x] \in Seq(T)
    BY ONLY <1>1, <1>5
  <2> QED BY <1>2, <1>3, <2>1, <2>2, <2>3
<1> QED BY <1>4, <1>5 DEF ReadsTyped, T

\* The boxes that a list fills.
LEMMA SeedTyped ==
    ASSUME BoxesTyped, NEW list \in TicketList
    PROVE  seed(list) \in [Ticket -> Typed \cup {Undefined}]
<1>1. drafts \in [Ticket -> Typed \cup {Undefined}]
  BY DEF BoxesTyped
<1>2. \A t \in DOMAIN list : list[t].answer \in Typed
  BY TicketListIs DEF TicketRow, Typed
<1> QED BY <1>1, <1>2 DEF seed

\* What a box reads is typed, and so is a card's answer.
LEMMA CardsTyped ==
    ASSUME BoxesTyped, QueueTyped, NEW t \in Ticket
    PROVE  /\ Box(t) \in Typed
           /\ t \in DOMAIN queue => queue[t].answer \in Typed
           /\ \A typed \in Typed \cup {Undefined} :
                 [drafts EXCEPT ![t] = typed] \in [Ticket -> Typed \cup {Undefined}]
<1>1. drafts \in [Ticket -> Typed \cup {Undefined}]
  BY DEF BoxesTyped
<1>2. Box(t) \in Typed
  BY <1>1 DEF Box, Typed
<1>3. t \in DOMAIN queue => queue[t].answer \in Typed
  BY TicketListIs DEF QueueTyped, TicketRow, Typed
<1>4. \A typed \in Typed \cup {Undefined} :
         [drafts EXCEPT ![t] = typed] \in [Ticket -> Typed \cup {Undefined}]
  BY <1>1
<1> QED BY <1>2, <1>3, <1>4

LEMMA TypingTyped ==
    ASSUME TicketTypes, NEW t \in Ticket, TypeInto(t) \/ edit(t) \/ cancel(t)
    PROVE  TicketTypes'
<1>1. BoxesTyped /\ QueueTyped
  BY DEF TicketTypes
<1>2. /\ UNCHANGED <<tickets, queue, gate, open, moves, reads, presses>>
      /\ editing' \in {editing, t, Nobody} /\ working' = working /\ armed' \in {armed, <<>>}
  BY DEF TypeInto, edit, cancel, counts
<1>3. drafts' \in [Ticket -> Typed \cup {Undefined}]
  <2>1. CASE TypeInto(t)
    BY <1>1, <2>1, CardsTyped DEF TypeInto
  <2>2. CASE edit(t) \/ cancel(t)
    BY <1>1, <2>2, CardsTyped DEF edit, cancel, Card
  <2> QED BY <2>1, <2>2
<1>4. BoxesTyped'
  BY <1>1, <1>2, <1>3 DEF BoxesTyped
<1> QED BY <1>2, <1>4, TypesKept DEF TicketTypes

LEMMA ArmTyped ==
    ASSUME TicketTypes, NEW t \in Ticket, NEW action \in Destructive, arm(t, action)
    PROVE  TicketTypes'
<1>1. BoxesTyped'
  BY DEF TicketTypes, BoxesTyped, arm
<1> QED BY <1>1, TypesKept DEF TicketTypes, arm, counts

\* A move more, a move answered, a move less, and no screen to hear of any.
LEMMA MoreMoves ==
    ASSUME MovesTyped, NEW c \in Call, c.reply.kind # "deleted", presses < MaxPresses,
           presses' = presses + 1, moves' = moves \cup {c}
    PROVE  MovesTyped'
<1>1. moves' \subseteq Call /\ \A d \in moves' : d.reply.kind = "deleted" => d.action = "delete"
  BY DEF MovesTyped
<1>2. presses' \in 0..MaxPresses
  BY PanelAssumption DEF MovesTyped
<1>3. IsFiniteSet(moves) /\ presses \in Nat /\ Cardinality(moves) <= presses
  BY DEF MovesTyped
<1>4. /\ IsFiniteSet(moves') /\ Cardinality(moves) \in Nat
      /\ Cardinality(moves') \in {Cardinality(moves), Cardinality(moves) + 1}
  <2>1. IsFiniteSet(moves \cup {c}) /\ Cardinality(moves) \in Nat
    BY ONLY <1>3, FS_AddElement, FS_CardinalityType
  <2>2. Cardinality(moves \cup {c}) \in {Cardinality(moves), Cardinality(moves) + 1}
    BY ONLY <1>3, FS_AddElement
  <2> QED BY <2>1, <2>2
<1>5. Cardinality(moves') <= presses'
  BY <1>3, <1>4
<1> QED BY <1>1, <1>2, <1>4, <1>5 DEF MovesTyped

LEMMA FewerMoves ==
    ASSUME MovesTyped, UNCHANGED presses, moves' \subseteq Call,
           \A d \in moves' : d.reply.kind = "deleted" => d.action = "delete",
           NEW f, f \in Surjection(moves, moves') \/ moves' \subseteq moves
    PROVE  MovesTyped'
<1>1. IsFiniteSet(moves) /\ presses \in Nat /\ Cardinality(moves) <= presses
  BY DEF MovesTyped
<1>2. IsFiniteSet(moves') /\ Cardinality(moves') <= Cardinality(moves)
  <2>1. CASE f \in Surjection(moves, moves')
    BY ONLY <1>1, <2>1, FS_Surjection
  <2>2. CASE moves' \subseteq moves
    BY ONLY <1>1, <2>2, FS_Subset
  <2> QED BY <2>1, <2>2
<1>3. Cardinality(moves) \in Nat /\ Cardinality(moves') \in Nat
  BY <1>1, <1>2, FS_CardinalityType
<1>4. Cardinality(moves') <= presses
  BY ONLY <1>1, <1>2, <1>3
<1> QED BY <1>2, <1>4 DEF MovesTyped

LEMMA AnsweredTyped ==
    ASSUME MovesTyped, UNCHANGED presses, NEW c \in moves, NEW r \in MoveReply,
           r.kind = "deleted" => c.action = "delete", Answered(c, r)
    PROVE  MovesTyped'
<1> DEFINE d == [c EXCEPT !.reply = r]
           f == [e \in moves |-> IF e = c THEN d ELSE e]
<1>1. c \in Call /\ \A e \in moves : e \in Call /\ (e.reply.kind = "deleted" => e.action = "delete")
  BY DEF MovesTyped
<1>2. d \in Call /\ d.reply = r /\ d.action = c.action
  BY <1>1 DEF Call
<1>3. moves' = (moves \ {c}) \cup {d}
  BY DEF Answered
<1> HIDE DEF d
<1>4. f \in Surjection(moves, moves')
  <2>1. \A e \in moves : f[e] \in moves'
    BY <1>3
  <2>2. \A g \in moves' : \E e \in moves : f[e] = g
    BY <1>3
  <2> QED BY <2>1, <2>2 DEF Surjection
<1>5. moves' \subseteq Call /\ \A e \in moves' : e.reply.kind = "deleted" => e.action = "delete"
  BY <1>1, <1>2, <1>3
<1> HIDE DEF f
<1> QED BY <1>4, <1>5, FewerMoves

LEMMA LeftTyped ==
    ASSUME MovesTyped, UNCHANGED presses, moves' = {[c EXCEPT !.here = FALSE] : c \in moves}
    PROVE  MovesTyped'
<1> DEFINE f == [c \in moves |-> [c EXCEPT !.here = FALSE]]
<1>1. \A c \in moves : c \in Call /\ (c.reply.kind = "deleted" => c.action = "delete")
  BY DEF MovesTyped
<1>2. \A c \in Call : LET d == [c EXCEPT !.here = FALSE]
                      IN  d \in Call /\ d.reply = c.reply /\ d.action = c.action
  BY DEF Call
<1>3. f \in Surjection(moves, moves')
  BY DEF Surjection
<1> HIDE DEF f
<1>4. ASSUME NEW d \in moves' PROVE d \in Call /\ (d.reply.kind = "deleted" => d.action = "delete")
  <2>1. PICK c \in moves : d = [c EXCEPT !.here = FALSE]
    OBVIOUS
  <2>2. d \in Call /\ d.reply = c.reply /\ d.action = c.action
    BY <1>1, <1>2, <2>1
  <2> QED BY <1>1, <2>2
<1> QED BY <1>3, <1>4, FewerMoves

LEMMA PressTyped ==
    ASSUME TicketTypes, NEW t \in Ticket, NEW action \in Action, Press(t, action)
    PROVE  TicketTypes'
<1> DEFINE c == [n |-> presses', ticket |-> t, action |-> action, answer |-> Box(t),
                 auth |-> pass, reply |-> Pending, here |-> TRUE]
<1>1. BoxesTyped /\ QueueTyped /\ GateTyped /\ MovesTyped
  BY DEF TicketTypes
<1>2. presses < MaxPresses /\ presses' = presses + 1 /\ moves' = moves \cup {c}
  BY DEF Press
<1>3. c \in Call /\ c.reply.kind # "deleted"
  <2>1. Box(t) \in Text \cup {Blank}
    BY <1>1, CardsTyped DEF Typed
  <2>2. presses' \in 1..MaxPresses
    BY <1>1, <1>2, PanelAssumption DEF MovesTyped
  <2>3. Pending \in MoveReply /\ Pending.kind # "deleted"
    BY DEF Pending, MoveReply
  <2>4. pass \in BOOLEAN
    BY <1>1 DEF GateTyped
  <2> QED BY <2>1, <2>2, <2>3, <2>4 DEF Call
<1> HIDE DEF c
<1>4. MovesTyped'
  BY <1>1, <1>2, <1>3, MoreMoves
<1>5. BoxesTyped'
  BY <1>1 DEF BoxesTyped, Press
<1> QED BY <1>4, <1>5, TypesKept DEF TicketTypes, Press

LEMMA ServeTyped == ASSUME TicketTypes, NEW c \in moves, Serve(c) PROVE TicketTypes'
<1>1. TicketsTyped /\ MovesTyped /\ c \in Call
  BY DEF TicketTypes, MovesTyped
<1>2. c.ticket \in Ticket /\ c.action \in Action /\ c.answer \in Typed
  BY <1>1 DEF Call, Typed
<1>3. UNCHANGED <<queue, screen, gate, open, reads, presses>>
  BY DEF Serve, counts
<1>4. Failed \in MoveReply /\ Failed.kind # "deleted"
  BY DEF Failed, MoveReply
<1>5. [kind |-> "locked"] \in MoveReply /\ [kind |-> "locked"].kind # "deleted"
  BY DEF MoveReply
<1>6. CASE Answered(c, Failed) /\ UNCHANGED tickets
  BY <1>1, <1>3, <1>4, <1>6, AnsweredTyped, TypesKept DEF TicketTypes
<1>7. CASE Answered(c, [kind |-> "locked"]) /\ UNCHANGED tickets
  BY <1>1, <1>3, <1>5, <1>7, AnsweredTyped, TypesKept DEF TicketTypes
<1>8. CASE /\ Allowed(c.ticket, c.action, c.answer)
           /\ tickets' = [tickets EXCEPT ![c.ticket] = Moved(c.ticket, c.action, c.answer)]
           /\ \/ Answered(c, IF c.action = "delete" THEN [kind |-> "deleted"]
                             ELSE [kind |-> "ticket", ticket |-> tickets'[c.ticket]])
              \/ Answered(c, Failed)
  <2> DEFINE row == Moved(c.ticket, c.action, c.answer)
             r == IF c.action = "delete" THEN [kind |-> "deleted"]
                  ELSE [kind |-> "ticket", ticket |-> tickets'[c.ticket]]
  <2>1. row \in TicketRow \cup {Deleted} /\ (c.action # "delete" => row \in TicketRow)
    BY <1>1, <1>2, <1>8, MovedTyped
  <2>2. TicketsTyped' /\ tickets'[c.ticket] = row
    BY <1>1, <1>2, <1>8, <2>1, TableMoves
  <2> HIDE DEF row
  <2>3. r \in MoveReply /\ (r.kind = "deleted" => c.action = "delete")
    <3>1. CASE c.action = "delete"
      BY <3>1 DEF MoveReply
    <3>2. CASE c.action # "delete"
      BY <2>1, <2>2, <3>2 DEF MoveReply
    <3> QED BY <3>1, <3>2
  <2>4. Answered(c, r) \/ Answered(c, Failed)
    BY <1>8
  <2> HIDE DEF r
  <2>5. MovesTyped'
    BY <1>1, <1>3, <1>4, <2>3, <2>4, AnsweredTyped
  <2> QED BY <1>3, <2>2, <2>5, TypesKept DEF TicketTypes
<1> QED BY <1>6, <1>7, <1>8 DEF Serve

LEMMA SettleTyped == ASSUME TicketTypes, NEW c \in moves, SettleMove(c) PROVE TicketTypes'
<1>1. TicketsTyped /\ QueueTyped /\ ReadsTyped /\ BoxesTyped /\ GateTyped /\ MovesTyped
  BY DEF TicketTypes
<1>2. c \in Call /\ (c.reply.kind = "deleted" => c.action = "delete")
  BY <1>1 DEF MovesTyped
<1>3. MovesTyped'
  <2>1. moves' \subseteq moves /\ UNCHANGED presses
    BY DEF SettleMove, counts
  <2>2. moves' \subseteq Call /\ \A d \in moves' : d.reply.kind = "deleted" => d.action = "delete"
    BY <1>1, <2>1 DEF MovesTyped
  <2> QED BY <1>1, <2>1, <2>2, FewerMoves
<1>4. TicketsTyped' /\ QueueTyped'
  BY TypesKept DEF SettleMove
<1>5. ReadsTyped'
  BY <1>1, ReadsMove, TypesKept DEF SettleMove
<1>6. GateTyped'
  BY <1>1 DEF SettleMove, GateTyped, Took, Refused, gate
<1>7. BoxesTyped'
  <2>1. CASE UNCHANGED screen
    BY <2>1, TypesKept
  <2>2. CASE Refused(c)
    BY <1>1, <2>2 DEF Refused, BoxesTyped
  <2>3. CASE Took(c) /\ c.reply.kind \in {"ticket", "deleted"}
    <3> DEFINE typed == IF c.action = "delete" THEN Undefined ELSE c.reply.ticket.answer
    <3>1. typed \in Typed \cup {Undefined}
      <4>1. CASE c.action = "delete"
        BY <4>1
      <4>2. CASE c.action # "delete"
        <5>1. c.reply \in MoveReply /\ c.reply.kind = "ticket"
          BY <1>2, <2>3, <4>2 DEF Call
        <5>2. c.reply.ticket \in TicketRow
          BY <5>1 DEF MoveReply
        <5> QED BY <4>2, <5>2 DEF TicketRow, Typed
      <4> QED BY <4>1, <4>2
    <3>2. c.ticket \in Ticket
      BY <1>2 DEF Call
    <3>3. drafts' = [drafts EXCEPT ![c.ticket] = typed]
      BY <2>3 DEF Took
    <3> HIDE DEF typed
    <3>4. drafts' \in [Ticket -> Typed \cup {Undefined}]
      BY <1>1, <3>1, <3>2, <3>3, CardsTyped
    <3> QED BY <1>1, <2>3, <3>4 DEF Took, BoxesTyped
  <2> QED BY <2>1, <2>2, <2>3 DEF SettleMove
<1> QED BY <1>3, <1>4, <1>5, <1>6, <1>7 DEF TicketTypes

LEMMA ReadTyped == ASSUME TicketTypes, NEW i \in DOMAIN reads, Read(i) PROVE TicketTypes'
<1>1. ReadsTyped /\ Queue \in TicketList
  BY QueueIsListed DEF TicketTypes
<1>2. reads' = [reads EXCEPT ![i] = <<Queue>>]
  BY DEF Read
<1>3. ReadsTyped'
  BY <1>1, <1>2, ReadsMove
<1> QED BY <1>3, TypesKept DEF TicketTypes, Read, counts

LEMMA ArriveTyped == ASSUME TicketTypes, NEW i \in DOMAIN reads, Arrive(i) PROVE TicketTypes'
<1>1. ReadsTyped /\ BoxesTyped
  BY DEF TicketTypes
<1>2. /\ reads' = SubSeq(reads, 1, i - 1) \o SubSeq(reads, i + 1, Len(reads))
      /\ UNCHANGED <<tickets, working, editing, armed, gate, open, moves, presses>>
  BY DEF Arrive, counts
<1>3. ReadsTyped'
  BY <1>1, <1>2, ReadsMove
<1>4. QueueTyped' /\ BoxesTyped'
  <2>1. CASE UNCHANGED <<queue, drafts>>
    BY <1>2, <2>1, TypesKept DEF screen
  <2>2. CASE /\ reads[i] # <<>> /\ queue' = reads[i][1]
             /\ drafts' = IF open THEN seed(queue') ELSE drafts
    <3>1. queue' \in TicketList
      BY <1>1, <2>2, ReadsMove
    <3>2. seed(queue') \in [Ticket -> Typed \cup {Undefined}]
      BY <1>1, <3>1, SeedTyped
    <3>3. drafts' \in [Ticket -> Typed \cup {Undefined}]
      BY <1>1, <2>2, <3>2 DEF BoxesTyped
    <3> QED BY <1>1, <1>2, <3>1, <3>3 DEF QueueTyped, BoxesTyped
  <2> QED BY <2>1, <2>2 DEF Arrive
<1> QED BY <1>2, <1>3, <1>4, TypesKept DEF TicketTypes

LEMMA ScreenTyped == ASSUME TicketTypes, GoAway \/ ComeBack PROVE TicketTypes'
<1>1. ReadsTyped /\ BoxesTyped /\ GateTyped /\ MovesTyped /\ QueueTyped
  BY DEF TicketTypes
<1>2. UNCHANGED <<tickets, queue, presses>> /\ Fetch
  BY DEF GoAway, ComeBack, counts
<1>3. ReadsTyped'
  BY <1>1, <1>2, ReadsMove
<1>4. MovesTyped'
  BY <1>1, <1>2, LeftTyped, TypesKept DEF GoAway, ComeBack
<1>5. GateTyped'
  BY <1>1 DEF GateTyped, GoAway, ComeBack, gate
<1>6. drafts' \in [Ticket -> Typed \cup {Undefined}]
  <2>1. CASE GoAway
    BY <2>1 DEF GoAway
  <2>2. CASE ComeBack
    BY <1>1, <2>2, SeedTyped DEF ComeBack, QueueTyped
  <2> QED BY <2>1, <2>2
<1>7. /\ working' \in {working, Nobody} /\ editing' \in {editing, Nobody}
      /\ armed' \in {armed, <<>>}
  BY DEF GoAway, ComeBack
<1>8. BoxesTyped'
  BY <1>1, <1>6, <1>7 DEF BoxesTyped
<1> QED BY <1>2, <1>3, <1>4, <1>5, <1>8, TypesKept DEF TicketTypes

LEMMA OutsideTyped == ASSUME TicketTypes, Another \/ unlock \/ baChanged PROVE TicketTypes'
<1>1. TicketsTyped /\ ReadsTyped /\ GateTyped
  BY DEF TicketTypes
<1>2. UNCHANGED <<queue, screen, moves, presses>>
  BY DEF Another, unlock, baChanged, counts
<1>3. TicketsTyped'
  <2>1. CASE UNCHANGED tickets
    BY <2>1, TypesKept
  <2>2. CASE Another
    <3>1. PICK t \in Ticket, action \in Action, answer \in Text :
             /\ Allowed(t, action, answer)
             /\ tickets' = [tickets EXCEPT ![t] = Moved(t, action, answer)]
      BY <2>2 DEF Another
    <3>2. Moved(t, action, answer) \in TicketRow \cup {Deleted}
      BY <1>1, <3>1, MovedTyped DEF Typed
    <3> QED BY <1>1, <3>1, <3>2, TableMoves
  <2> QED BY <2>1, <2>2 DEF unlock, baChanged
<1>4. ReadsTyped'
  BY <1>1, ReadsMove, TypesKept DEF Another, unlock, baChanged
<1>5. GateTyped'
  BY <1>1 DEF GateTyped, Another, unlock, baChanged, gate
<1> QED BY <1>2, <1>3, <1>4, <1>5, TypesKept DEF TicketTypes

LEMMA TicketTypesStep == TicketTypes /\ [PanelNext]_panelVars => TicketTypes'
<1> SUFFICES ASSUME TicketTypes, [PanelNext]_panelVars PROVE TicketTypes'
  OBVIOUS
<1>1. ASSUME NEW t \in Ticket, TypeInto(t) \/ edit(t) \/ cancel(t) PROVE TicketTypes'
  BY <1>1, TypingTyped
<1>2. ASSUME NEW t \in Ticket, NEW action \in Destructive, arm(t, action) PROVE TicketTypes'
  BY <1>2, ArmTyped
<1>3. ASSUME NEW t \in Ticket, NEW action \in Action, Press(t, action) PROVE TicketTypes'
  BY <1>3, PressTyped
<1>4. ASSUME NEW c \in moves, Serve(c) \/ SettleMove(c) PROVE TicketTypes'
  BY <1>4, ServeTyped, SettleTyped
<1>5. ASSUME NEW i \in DOMAIN reads, Read(i) \/ Arrive(i) PROVE TicketTypes'
  BY <1>5, ReadTyped, ArriveTyped
<1>6. CASE GoAway \/ ComeBack \/ Another \/ unlock \/ baChanged
  BY <1>6, ScreenTyped, OutsideTyped
<1>7. CASE UNCHANGED panelVars
  BY <1>7, TypesKept DEF TicketTypes, panelVars, counts
<1> QED BY <1>1, <1>2, <1>3, <1>4, <1>5, <1>6, <1>7 DEF PanelNext

LEMMA TicketTypesInit == PanelInit => TicketTypes
<1> SUFFICES ASSUME PanelInit PROVE TicketTypes
  OBVIOUS
<1>1. tickets \in [Ticket -> TicketRow]
  <2>1. [status |-> "open", answer |-> Blank] \in TicketRow
    BY DEF TicketRow, Status
  <2>2. [status: {"answered", "confirmed"}, answer: Text] \subseteq TicketRow
    BY DEF TicketRow, Status
  <2> QED BY <2>1, <2>2 DEF PanelInit
<1>2. TicketsTyped
  BY <1>1 DEF TicketsTyped
<1>3. QueueTyped
  BY <1>1 DEF PanelInit, QueueTyped, TicketList
<1>4. BoxesTyped
  <2>1. \A row \in TicketRow : row.answer \in Typed
    BY DEF TicketRow, Typed
  <2>2. drafts \in [Ticket -> Typed \cup {Undefined}]
    BY <1>1, <2>1 DEF PanelInit
  <2> QED BY <2>2 DEF PanelInit, BoxesTyped
<1>5. ReadsTyped /\ GateTyped
  <2>1. \A T : <<>> \in Seq(T)
    OBVIOUS
  <2> QED BY <2>1 DEF PanelInit, ReadsTyped, GateTyped
<1>6. MovesTyped
  <2>1. IsFiniteSet({}) /\ Cardinality({}) = 0 /\ 0 \in 0..MaxPresses
    BY FS_EmptySet, PanelAssumption
  <2> QED BY <2>1 DEF PanelInit, MovesTyped
<1> QED BY <1>2, <1>3, <1>4, <1>5, <1>6 DEF TicketTypes

\* Whatever is pressed, lost, answered late or done by another BA, the page shows
\* tickets, its boxes hold text, and no more moves are under way than were sent
\* (tickets.js, TicketCard.vue).
THEOREM PanelTypeCorrect == PanelSpec => []PanelTypeOK
BY TicketTypesInit, TicketTypesStep, TicketsAreTyped, PTL DEF PanelSpec

-----------------------------------------------------------------------------
(* The library: what is where.                                             *)

\* The types of the parts, each for the steps that leave the others alone. Every
\* request is counted, and none of the card is sent for nothing.
ShelfTyped == answering \in SUBSET Path
ListTyped == documents \in SUBSET Path /\ lists \in Seq({<<>>} \cup Report)
TableTyped ==
    /\ selected \in SUBSET Path /\ sure \in Path \cup {Ticked, Nothing}
    /\ task \in Task /\ form \in Path \cup {New, Closed}
CardTyped ==
    /\ errands \subseteq Errand /\ \A e \in errands : e.todo # <<>>
    /\ importing \in BOOLEAN /\ (imported = NoReport \/ imported \in Report)
    /\ {asked, removing} \subseteq Path \cup {Nothing}
AccessTyped == key \in BOOLEAN /\ writable \in BOOLEAN
CountTyped == sent \in 0..MaxRequests

PanelTypes ==
    ShelfTyped /\ ListTyped /\ TableTyped /\ CardTyped /\ AccessTyped /\ CountTyped

\* A reply changes a request in that alone.
LEMMA TaskReplies ==
    ASSUME NEW t \in Task, t # Idle, NEW r \in Outcome
    PROVE  [t EXCEPT !.reply = r] \in Task
<1> DEFINE after == [t EXCEPT !.reply = r]
<1>1. CASE t \in [kind: {"edit", "drop"}, path: Path, auth: BOOLEAN, reply: Outcome]
  <2>1. after \in [kind: {"edit", "drop"}, path: Path, auth: BOOLEAN, reply: Outcome]
    BY <1>1
  <2> QED BY <2>1 DEF Task
<1>2. CASE t \in [kind: {"save"}, from: Path, path: Path, auth: BOOLEAN, reply: Outcome]
  <2>1. after \in [kind: {"save"}, from: Path, path: Path, auth: BOOLEAN, reply: Outcome]
    BY <1>2
  <2> QED BY <2>1 DEF Task
<1>3. CASE t \in [kind: {"batch"}, path: Path, todo: SUBSET Path, auth: BOOLEAN, reply: Outcome]
  <2>1. after \in [kind: {"batch"}, path: Path, todo: SUBSET Path, auth: BOOLEAN, reply: Outcome]
    BY <1>3
  <2> QED BY <2>1 DEF Task
<1> QED BY <1>1, <1>2, <1>3 DEF Task

\* What the list's buttons wait for names a document, and a clearing what is left.
LEMMA TaskParts ==
    ASSUME NEW t \in Task, t # Idle
    PROVE  /\ t.kind \in {"edit", "drop", "save", "batch"} /\ t.path \in Path
           /\ t.kind = "save" => t.from \in Path
           /\ t.kind = "batch" => t.todo \in SUBSET Path
BY DEF Task

LEMMA ErrandReplies ==
    ASSUME NEW e \in Errand, NEW r \in Outcome
    PROVE  /\ [e EXCEPT !.reply = r] \in Errand
           /\ [e EXCEPT !.reply = r].todo = e.todo
BY DEF Errand

LEMMA ErrandLeft ==
    ASSUME NEW e \in Errand
    PROVE  [e EXCEPT !.here = FALSE] \in Errand /\ [e EXCEPT !.here = FALSE].todo = e.todo
BY DEF Errand

\* A fetch more, a fetch answered and a fetch less.
LEMMA FetchTyped ==
    ASSUME lists \in Seq({<<>>} \cup Report), FetchList PROVE lists' \in Seq({<<>>} \cup Report)
<1>1. <<>> \in {<<>>} \cup Report
  OBVIOUS
<1> QED BY <1>1 DEF FetchList

LEMMA ListsTyped ==
    ASSUME lists \in Seq({<<>>} \cup Report)
    PROVE  \A i \in DOMAIN lists : lists[i] = <<>> \/ lists[i][1] \in SUBSET Path
<1> SUFFICES ASSUME NEW i \in DOMAIN lists, lists[i] # <<>> PROVE lists[i][1] \in SUBSET Path
  OBVIOUS
<1>1. lists[i] \in Report
  OBVIOUS
<1> QED BY <1>1 DEF Report

\* What a lock leaves.
LEMMA LockTyped ==
    ASSUME PanelTypes, Lock
    PROVE  /\ errands' \subseteq Errand /\ \A e \in errands' : e.todo # <<>>
           /\ {asked', removing'} \subseteq Path \cup {Nothing} /\ imported' = NoReport
           /\ {importing', key', writable'} \subseteq BOOLEAN
<1>1. errands \subseteq Errand /\ \A e \in errands : e.todo # <<>>
  BY DEF PanelTypes, CardTyped
<1>2. errands' \subseteq Errand /\ \A e \in errands' : e.todo # <<>>
  BY <1>1, ErrandLeft DEF Lock
<1> QED BY <1>2 DEF Lock

LEMMA PanelIsTyped == PanelTypes => LibraryPanelTypeOK
<1> SUFFICES ASSUME PanelTypes PROVE LibraryPanelTypeOK
  OBVIOUS
<1>1. \A i \in DOMAIN lists : lists[i] = <<>> \/ lists[i][1] \in SUBSET Path
  BY ListsTyped DEF PanelTypes, ListTyped
<1>2. {answering, documents, selected} \subseteq SUBSET Path
  BY DEF PanelTypes, ShelfTyped, ListTyped, TableTyped
<1>3. sure \in Path \cup {Ticked, Nothing} /\ form \in Path \cup {New, Closed} /\ task \in Task
  BY DEF PanelTypes, TableTyped
<1>4. /\ {asked, removing} \subseteq Path \cup {Nothing} /\ errands \subseteq Errand
      /\ imported = NoReport \/ imported \in Report
  BY DEF PanelTypes, CardTyped
<1>5. {importing, key, writable} \subseteq BOOLEAN
  BY DEF PanelTypes, CardTyped, AccessTyped
<1> QED BY <1>1, <1>2, <1>3, <1>4, <1>5 DEF LibraryPanelTypeOK

\* A part that a step leaves alone keeps its type.
LEMMA PartsKept ==
    ASSUME PanelTypes
    PROVE  /\ UNCHANGED answering => ShelfTyped'
           /\ UNCHANGED <<documents, lists>> => ListTyped'
           /\ UNCHANGED table => TableTyped'
           /\ UNCHANGED card => CardTyped'
           /\ UNCHANGED access => AccessTyped'
           /\ UNCHANGED sent => CountTyped'
<1>1. ShelfTyped /\ ListTyped /\ TableTyped /\ CardTyped /\ AccessTyped /\ CountTyped
  BY DEF PanelTypes
<1>2. /\ UNCHANGED answering => ShelfTyped'
      /\ UNCHANGED <<documents, lists>> => ListTyped'
      /\ UNCHANGED sent => CountTyped'
  BY <1>1 DEF ShelfTyped, ListTyped, CountTyped
<1>3. UNCHANGED table => TableTyped'
  BY <1>1 DEF TableTyped, table
<1>4. UNCHANGED card => CardTyped'
  BY <1>1 DEF CardTyped, card
<1>5. UNCHANGED access => AccessTyped'
  BY <1>1 DEF AccessTyped, access
<1> QED BY <1>2, <1>3, <1>4, <1>5

LEMMA SendCounts ==
    ASSUME CountTyped, NEW n \in Nat, Send(n)
    PROVE  CountTyped' /\ (n > 0 => sent' \in 1..MaxRequests)
BY LibraryPanelAssumption DEF CountTyped, Send

\* What the list is doing to the table: ticks, presses, the form.
LEMMA TableRowsTyped ==
    ASSUME PanelTypes, OnlyRows, TableTyped' PROVE PanelTypes'
BY PartsKept DEF PanelTypes, OnlyRows

LEMMA TicksTyped ==
    ASSUME PanelTypes, NEW some \in SUBSET documents, Toggle(some) PROVE PanelTypes'
<1>1. TableTyped /\ ListTyped
  BY DEF PanelTypes
<1>2. TableTyped'
  BY <1>1 DEF Toggle, TableTyped, ListTyped
<1> QED BY <1>2, TableRowsTyped DEF Toggle

LEMMA PressesTyped ==
    ASSUME PanelTypes,
           \/ clearSelection \/ create \/ cancelForm \/ edited
           \/ \E what \in documents \cup {Ticked} : Arm(what)
    PROVE  PanelTypes'
<1>1. TableTyped /\ ListTyped
  BY DEF PanelTypes
<1>2. CASE clearSelection
  <2>1. TableTyped'
    BY <1>1, <1>2 DEF clearSelection, TableTyped
  <2> QED BY <1>2, <2>1, TableRowsTyped DEF clearSelection
<1>3. CASE create \/ cancelForm
  <2>1. TableTyped'
    BY <1>1, <1>3 DEF create, cancelForm, TableTyped
  <2> QED BY <1>3, <2>1, TableRowsTyped DEF create, cancelForm
<1>4. CASE edited
  <2>1. Idle \in Task
    BY DEF Task
  <2>2. task.kind = "edit" => task.path \in Path
    <3>1. Idle.kind = "idle"
      BY DEF Idle
    <3> QED BY <1>1, <3>1, TaskParts DEF TableTyped
  <2>3. TableTyped'
    BY <1>1, <1>4, <2>1, <2>2 DEF edited, TableTyped
  <2> QED BY <1>4, <2>3, TableRowsTyped DEF edited
<1>5. ASSUME NEW what \in documents \cup {Ticked}, Arm(what) PROVE PanelTypes'
  <2>1. TableTyped'
    BY <1>1, <1>5 DEF Arm, TableTyped, ListTyped
  <2> QED BY <1>5, <2>1, TableRowsTyped DEF Arm
<1> QED BY <1>2, <1>3, <1>4, <1>5

\* What the list's buttons send.
LEMMA StartsTyped ==
    ASSUME PanelTypes, NEW t \in Task, Starts(t), Send(1),
           selected' = selected, form' = form, sure' \in {sure, Nothing}
    PROVE  PanelTypes'
<1>1. TableTyped /\ CountTyped
  BY DEF PanelTypes
<1>2. TableTyped'
  BY <1>1 DEF Starts, TableTyped
<1>3. CountTyped'
  BY <1>1, SendCounts
<1> QED BY <1>2, <1>3, PartsKept DEF PanelTypes, Starts

LEMMA SendsTyped ==
    ASSUME PanelTypes,
           \/ \E p \in documents : editDocument(p) \/ drop(p)
           \/ \E p \in Path : save(p)
           \/ dropSelected
    PROVE  PanelTypes'
<1>1. TableTyped /\ ListTyped /\ AccessTyped
  BY DEF PanelTypes
<1>2. documents \subseteq Path /\ key \in BOOLEAN /\ form \in Path \cup {New, Closed}
  BY <1>1 DEF TableTyped, ListTyped, AccessTyped
<1>3. "none" \in Outcome
  BY DEF Outcome
<1>4. ASSUME NEW p \in documents, NEW kind \in {"edit", "drop"}
      PROVE  [kind |-> kind, path |-> p, auth |-> key, reply |-> "none"] \in Task
  BY <1>2, <1>3 DEF Task
<1>5. ASSUME NEW p \in documents, editDocument(p) PROVE PanelTypes'
  BY <1>4, <1>5, StartsTyped DEF editDocument
<1>6. ASSUME NEW p \in documents, drop(p) PROVE PanelTypes'
  BY <1>4, <1>6, StartsTyped DEF drop
<1>7. ASSUME NEW p \in Path, save(p) PROVE PanelTypes'
  <2> DEFINE from == IF form = New THEN p ELSE form
             t == [kind |-> "save", from |-> from, path |-> p, auth |-> key, reply |-> "none"]
  <2>1. from \in Path
    BY <1>2, <1>7 DEF save
  <2> HIDE DEF from
  <2>2. t \in Task
    BY <1>2, <1>3, <2>1 DEF Task
  <2>3. Starts(t) /\ Send(1) /\ UNCHANGED <<selected, sure, form>>
    BY <1>7 DEF save, from
  <2> HIDE DEF t
  <2> QED BY <2>2, <2>3, StartsTyped
<1>8. CASE dropSelected
  <2>1. PICK p \in picked : Starts(Batch(picked, p))
    BY <1>8 DEF dropSelected
  <2>2. p \in Path /\ picked \ {p} \in SUBSET Path
    BY <1>2 DEF picked
  <2>3. Batch(picked, p) \in Task
    BY <1>2, <1>3, <2>2 DEF Batch, Task
  <2> QED BY <1>8, <2>1, <2>3, StartsTyped DEF dropSelected
<1> QED BY <1>5, <1>6, <1>7, <1>8

\* What a write comes to leaves a library, and a reply.
LEMMA GatedTyped ==
    ASSUME ShelfTyped, NEW auth, NEW after, after \subseteq Outcome \X SUBSET Path
    PROVE  Gated(auth, after) \subseteq Outcome \X SUBSET Path
BY DEF ShelfTyped, Gated, Outcome

LEMMA RemovedTyped ==
    ASSUME ShelfTyped, NEW p PROVE Removed(p) \subseteq Outcome \X SUBSET Path
BY DEF ShelfTyped, Removed, Anyhow, Outcome

LEMMA ServeTaskTyped == ASSUME PanelTypes, ServeTask PROVE PanelTypes'
<1>1. ShelfTyped /\ task \in Task /\ task # Idle
  BY DEF PanelTypes, TableTyped, ServeTask, busy
<1>2. TaskEnds \subseteq Outcome \X SUBSET Path
  <2>1. CASE task.kind = "edit"
    BY <1>1, <2>1 DEF TaskEnds, ShelfTyped, Outcome
  <2>2. CASE task.kind = "save"
    <3> DEFINE written == answering \cup {task.path}
               after == Anyhow(written \ ({task.from} \ {task.path}))
                          \cup {<<"failed", written>>}
    <3>1. written \in SUBSET Path
      BY <1>1, TaskParts DEF ShelfTyped
    <3>2. after \subseteq Outcome \X SUBSET Path
      BY <3>1 DEF Anyhow, Outcome
    <3>3. TaskEnds = Gated(task.auth, after)
      BY <2>2 DEF TaskEnds
    <3> HIDE DEF after
    <3> QED BY <1>1, <3>2, <3>3, GatedTyped
  <2>3. CASE task.kind \notin {"edit", "save"}
    BY <1>1, <2>3, RemovedTyped, GatedTyped DEF TaskEnds
  <2> QED BY <2>1, <2>2, <2>3
<1>3. PICK end \in TaskEnds : task' = [task EXCEPT !.reply = end[1]] /\ answering' = end[2]
  BY DEF ServeTask
<1>4. end[1] \in Outcome /\ end[2] \in SUBSET Path
  BY <1>2
<1>5. TableTyped' /\ ShelfTyped'
  BY <1>1, <1>3, <1>4, TaskReplies DEF PanelTypes, TableTyped, ShelfTyped, ServeTask
<1> QED BY <1>5, PartsKept DEF PanelTypes, ServeTask

LEMMA ServeErrandTyped ==
    ASSUME PanelTypes, NEW e \in errands, ServeErrand(e) PROVE PanelTypes'
<1>1. ShelfTyped /\ e \in Errand /\ e.todo # <<>> /\ CardTyped
  BY DEF PanelTypes, CardTyped
<1>2. Head(e.todo) \in Path
  BY <1>1 DEF Errand
<1>3. ErrandEnds(e) \subseteq Outcome \X SUBSET Path
  <2> DEFINE p == Head(e.todo)
             landed == Anyhow(answering \cup {p}) \cup {<<"refused", answering>>}
  <2>1. landed \subseteq Outcome \X SUBSET Path
    BY <1>1, <1>2 DEF ShelfTyped, Anyhow, Outcome
  <2>2. Removed(p) \subseteq Outcome \X SUBSET Path
    BY <1>1, RemovedTyped
  <2>3. ErrandEnds(e) = Gated(e.auth, IF e.kind = "remove" THEN Removed(p) ELSE landed)
    BY DEF ErrandEnds
  <2> HIDE DEF landed
  <2> QED BY <1>1, <2>1, <2>2, <2>3, GatedTyped
<1>4. PICK end \in ErrandEnds(e) :
          /\ errands' = (errands \ {e}) \cup {[e EXCEPT !.reply = end[1]]}
          /\ answering' = end[2]
  BY DEF ServeErrand
<1>5. end[1] \in Outcome /\ end[2] \in SUBSET Path
  BY <1>3
<1>6. errands' \subseteq Errand /\ \A d \in errands' : d.todo # <<>>
  <2>1. \A d \in errands : d \in Errand /\ d.todo # <<>>
    BY <1>1 DEF CardTyped
  <2>2. [e EXCEPT !.reply = end[1]] \in Errand /\ [e EXCEPT !.reply = end[1]].todo # <<>>
    BY ONLY <1>5, <2>1, e \in errands, ErrandReplies
  <2> QED BY ONLY <1>4, <2>1, <2>2
<1>7. CardTyped' /\ ShelfTyped'
  BY <1>1, <1>4, <1>5, <1>6 DEF CardTyped, ShelfTyped, ServeErrand
<1> QED BY <1>7, PartsKept DEF PanelTypes, ServeErrand

\* What a lock leaves is a card, and no password.
LEMMA LockParts == ASSUME PanelTypes, Lock PROVE CardTyped' /\ AccessTyped'
BY LockTyped DEF CardTyped, AccessTyped

LEMMA SettledTyped == ASSUME PanelTypes, settled PROVE PanelTypes'
<1>1. ListTyped /\ TableTyped /\ Idle \in Task
  BY DEF PanelTypes, Task
<1>2. form' \in {form, Closed}
  BY DEF settled
<1>3. TableTyped'
  BY <1>1, <1>2 DEF settled, TableTyped
<1>4. ListTyped'
  <2>1. FetchList \/ UNCHANGED lists
    BY DEF settled
  <2> QED BY <1>1, <2>1, FetchTyped DEF settled, ListTyped
<1>5. CardTyped' /\ AccessTyped'
  <2>1. Lock \/ UNCHANGED <<card, access>>
    BY DEF settled
  <2> QED BY <2>1, LockParts, PartsKept
<1> QED BY <1>3, <1>4, <1>5, PartsKept DEF PanelTypes, settled

LEMMA ClearedTyped == ASSUME PanelTypes, cleared PROVE PanelTypes'
<1>1. ListTyped /\ TableTyped /\ AccessTyped /\ Idle \in Task
  BY DEF PanelTypes, Task
<1>2. form' \in {form, Closed} /\ selected' \subseteq selected
  BY DEF cleared
<1>3. task' \in Task
  <2>1. CASE task' = Idle
    BY <1>1, <2>1
  <2>2. CASE \E p \in task.todo : task' = Batch(task.todo, p)
    <3>1. PICK p \in task.todo : task' = Batch(task.todo, p)
      BY <2>2
    <3>2. Idle.kind = "idle" /\ "none" \in Outcome
      BY DEF Idle, Outcome
    <3>3. task.todo \in SUBSET Path
      BY <1>1, <3>2, TaskParts DEF cleared, TableTyped
    <3> QED BY <1>1, <3>1, <3>2, <3>3 DEF Batch, Task, AccessTyped
  <2> QED BY <2>1, <2>2 DEF cleared
<1>4. TableTyped'
  BY <1>1, <1>2, <1>3 DEF cleared, TableTyped
<1>5. ListTyped'
  <2>1. FetchList \/ UNCHANGED lists
    BY DEF cleared
  <2> QED BY <1>1, <2>1, FetchTyped DEF cleared, ListTyped
<1>6. CardTyped' /\ AccessTyped'
  <2>1. Lock \/ UNCHANGED <<card, access>>
    BY DEF cleared
  <2> QED BY <2>1, LockParts, PartsKept
<1> QED BY <1>4, <1>5, <1>6, PartsKept DEF PanelTypes, cleared

\* What the card sends: the files of one import, or the document it asked about.
LEMMA ErrandSent ==
    ASSUME PanelTypes, NEW kind \in {"import", "remove"}, NEW todo \in Seq(Path), todo # <<>>,
           Sends(kind, todo)
    PROVE  /\ errands' \subseteq Errand /\ \A e \in errands' : e.todo # <<>>
           /\ ShelfTyped' /\ ListTyped' /\ TableTyped' /\ AccessTyped' /\ CountTyped'
<1>1. Len(todo) \in Nat /\ Len(todo) > 0
  OBVIOUS
<1>2. CountTyped' /\ sent' \in 1..MaxRequests
  BY <1>1, SendCounts DEF Sends, PanelTypes
<1> DEFINE e == [n |-> sent', kind |-> kind, todo |-> todo, uploaded |-> {},
                 auth |-> key, reply |-> "none", here |-> TRUE]
<1>3. e \in Errand /\ e.todo = todo
  BY <1>2 DEF Errand, Outcome, PanelTypes, AccessTyped
<1>4. errands' = errands \cup {e}
  BY DEF Sends
<1> HIDE DEF e
<1>5. errands' \subseteq Errand /\ \A d \in errands' : d.todo # <<>>
  BY <1>3, <1>4 DEF PanelTypes, CardTyped
<1> QED BY <1>2, <1>5, PartsKept DEF Sends

LEMMA ImportTyped == ASSUME PanelTypes, NEW f \in Files, importDocs(f) PROVE PanelTypes'
<1>1. f \in Seq(Path) /\ f # <<>>
  <2>1. PICK n \in 1..MaxRequests : f \in [1..n -> Path]
    BY DEF Files
  <2>2. n \in Nat /\ n > 0
    BY <2>1, LibraryPanelAssumption
  <2> QED BY <2>1, <2>2
<1>2. /\ errands' \subseteq Errand /\ \A e \in errands' : e.todo # <<>>
      /\ ShelfTyped' /\ ListTyped' /\ TableTyped' /\ AccessTyped' /\ CountTyped'
  BY <1>1, ErrandSent DEF importDocs
<1>3. CardTyped'
  BY <1>2 DEF importDocs, CardTyped, PanelTypes
<1> QED BY <1>2, <1>3 DEF PanelTypes

LEMMA AskTyped ==
    ASSUME PanelTypes, cancelRemove \/ \E p \in Path : askRemove(p) PROVE PanelTypes'
<1>1. CardTyped'
  BY DEF PanelTypes, CardTyped, cancelRemove, askRemove
<1> QED BY <1>1, PartsKept DEF PanelTypes, cancelRemove, askRemove

LEMMA ConfirmTyped == ASSUME PanelTypes, confirmRemove PROVE PanelTypes'
<1>1. asked \in Path
  BY DEF PanelTypes, CardTyped, confirmRemove
<1>2. <<asked>> \in Seq(Path) /\ <<asked>> # <<>>
  BY <1>1
<1>3. /\ errands' \subseteq Errand /\ \A e \in errands' : e.todo # <<>>
      /\ ShelfTyped' /\ ListTyped' /\ TableTyped' /\ AccessTyped' /\ CountTyped'
  BY <1>2, ErrandSent DEF confirmRemove
<1>4. CardTyped'
  BY <1>1, <1>3 DEF confirmRemove, CardTyped, PanelTypes
<1> QED BY <1>3, <1>4 DEF PanelTypes

\* The list may be fetched when the card is done with something.
LEMMA IndexedTyped ==
    ASSUME ListTyped, NEW e, indexed(e) \/ UNCHANGED lists, UNCHANGED documents PROVE ListTyped'
BY FetchTyped DEF ListTyped, indexed

\* An import goes on with its next file.
Onward(e, rest, up, auth, r) ==
    [e EXCEPT !.todo = rest, !.uploaded = up, !.auth = auth, !.reply = r]

LEMMA ErrandMoves ==
    ASSUME NEW e \in Errand, NEW rest \in Seq(Path), NEW up \in SUBSET Path, NEW auth \in BOOLEAN,
           NEW r \in Outcome
    PROVE  Onward(e, rest, up, auth, r) \in Errand /\ Onward(e, rest, up, auth, r).todo = rest
<1> DEFINE first == [e EXCEPT !.todo = rest]
           second == [first EXCEPT !.uploaded = up]
           third == [second EXCEPT !.auth = auth]
           fourth == [third EXCEPT !.reply = r]
<1>1. first \in Errand /\ first.todo = rest
  BY DEF Errand
<1> HIDE DEF first
<1>2. second \in Errand /\ second.todo = rest
  BY <1>1 DEF Errand
<1> HIDE DEF second
<1>3. third \in Errand /\ third.todo = rest
  BY <1>2 DEF Errand
<1> HIDE DEF third
<1>4. fourth \in Errand /\ fourth.todo = rest
  BY <1>3 DEF Errand
<1> QED BY <1>4 DEF first, second, third, fourth, Onward

LEMMA FileDoneTyped == ASSUME PanelTypes, NEW e \in errands, fileDone(e) PROVE PanelTypes'
<1> DEFINE up == e.uploaded \cup {Head(e.todo)}
           next == [e EXCEPT !.todo = Tail(e.todo), !.uploaded = up, !.auth = key,
                             !.reply = "none"]
<1>1. e \in Errand /\ e.todo # <<>> /\ CardTyped /\ ListTyped /\ key \in BOOLEAN
  BY DEF PanelTypes, CardTyped, AccessTyped
<1>2. Head(e.todo) \in Path /\ Tail(e.todo) \in Seq(Path)
  BY <1>1 DEF Errand
<1>3. up \in SUBSET Path
  BY <1>1, <1>2 DEF Errand
<1>4. next \in Errand /\ next.todo = Tail(e.todo)
  <2> HIDE DEF up
  <2>1. "none" \in Outcome
    BY DEF Outcome
  <2>2. next = Onward(e, Tail(e.todo), up, key, "none")
    BY DEF Onward
  <2> HIDE DEF next
  <2>3. /\ Onward(e, Tail(e.todo), up, key, "none") \in Errand
        /\ Onward(e, Tail(e.todo), up, key, "none").todo = Tail(e.todo)
    BY ONLY <1>1, <1>2, <1>3, <2>1, ErrandMoves, ZenonT(60)
  <2> QED BY ONLY <2>2, <2>3, Zenon
<1>5. CASE Tail(e.todo) # <<>>
  <2>1. errands' = (errands \ {e}) \cup {next} /\ UNCHANGED <<lists, importing, imported>>
    BY <1>5 DEF fileDone
  <2> HIDE DEF next
  <2>2. CardTyped'
    BY <1>1, <1>4, <1>5, <2>1 DEF fileDone, CardTyped
  <2> QED BY <2>1, <2>2, PartsKept DEF PanelTypes, fileDone
<1>6. CASE Tail(e.todo) = <<>>
  <2>1. /\ errands' = errands \ {e} /\ indexed(e)
        /\ importing' = (importing /\ ~e.here)
        /\ imported' = IF e.here THEN <<up>> ELSE imported
    BY <1>6 DEF fileDone
  <2>2. <<up>> \in Report
    BY <1>3 DEF Report
  <2> HIDE DEF up, next
  <2>3. importing' \in BOOLEAN /\ (imported' = NoReport \/ imported' \in Report)
    BY <1>1, <2>1, <2>2 DEF CardTyped
  <2>4. CardTyped'
    BY <1>1, <2>1, <2>3 DEF fileDone, CardTyped
  <2>5. ListTyped'
    BY <1>1, <2>1, IndexedTyped DEF fileDone
  <2> QED BY <2>4, <2>5, PartsKept DEF PanelTypes, fileDone
<1> QED BY <1>5, <1>6

LEMMA RemoveDoneTyped == ASSUME PanelTypes, NEW e \in errands, removeDone(e) PROVE PanelTypes'
<1>1. CardTyped'
  BY DEF PanelTypes, CardTyped, removeDone
<1>2. ListTyped'
  BY IndexedTyped DEF PanelTypes, removeDone
<1> QED BY <1>1, <1>2, PartsKept DEF PanelTypes, removeDone

LEMMA ThrownTyped == ASSUME PanelTypes, NEW e \in errands, thrown(e) PROVE PanelTypes'
<1>1. CardTyped /\ AccessTyped
  BY DEF PanelTypes
<1>2. CardTyped' /\ AccessTyped'
  <2>1. CASE e.reply = "locked" /\ e.here
    <3>1. errands' = {[d EXCEPT !.here = FALSE] : d \in errands \ {e}}
      BY <2>1 DEF thrown
    <3>2. errands' \subseteq Errand /\ \A d \in errands' : d.todo # <<>>
      <4>1. \A d \in errands \ {e} : d \in Errand /\ d.todo # <<>>
        BY <1>1 DEF CardTyped
      <4>2. \A d \in errands \ {e} :
                [d EXCEPT !.here = FALSE] \in Errand /\ [d EXCEPT !.here = FALSE].todo # <<>>
        BY ONLY <4>1, ErrandLeft
      <4> QED BY ONLY <3>1, <4>2
    <3> QED BY <2>1, <3>2 DEF thrown, CardTyped, AccessTyped
  <2>2. CASE ~(e.reply = "locked" /\ e.here)
    <3>1. /\ key' = (key /\ e.reply # "locked") /\ errands' = errands \ {e}
          /\ importing' = (importing /\ ~(e.here /\ e.kind = "import"))
          /\ removing' \in {Nothing, removing} /\ UNCHANGED <<writable, imported, asked>>
      BY <2>2 DEF thrown
    <3>2. key' \in BOOLEAN /\ importing' \in BOOLEAN
      BY <1>1, <3>1 DEF AccessTyped, CardTyped
    <3> QED BY <1>1, <3>1, <3>2 DEF CardTyped, AccessTyped
  <2> QED BY <2>1, <2>2
<1> QED BY <1>2, PartsKept DEF PanelTypes, thrown

LEMMA ListsChangeTyped ==
    ASSUME PanelTypes, NEW i \in DOMAIN lists, ReadList(i) \/ ListArrives(i) PROVE PanelTypes'
<1>1. /\ lists \in Seq({<<>>} \cup Report) /\ answering \in SUBSET Path
      /\ documents \in SUBSET Path /\ i \in 1..Len(lists)
  BY DEF PanelTypes, ListTyped, ShelfTyped
<1>2. CASE ReadList(i)
  <2>1. <<answering>> \in Report
    BY <1>1 DEF Report
  <2>2. ListTyped'
    BY <1>1, <1>2, <2>1 DEF ReadList, ListTyped
  <2> QED BY <1>2, <2>2, PartsKept DEF PanelTypes, ReadList
<1>3. CASE ListArrives(i)
  <2>1. documents' \in SUBSET Path
    <3>1. \A n \in DOMAIN lists[i] : lists[i][n] \in SUBSET Path
      <4>1. lists[i] = <<>> \/ \E docs \in SUBSET Path : lists[i] = <<docs>>
        BY <1>1 DEF Report
      <4> QED BY <4>1
    <3> QED BY <1>3, <3>1 DEF ListArrives
  <2>2. lists' \in Seq({<<>>} \cup Report)
    <3> DEFINE R == {<<>>} \cup Report
    <3> HIDE DEF R
    <3>1. lists \in Seq(R) /\ lists' = SubSeq(lists, 1, i - 1) \o SubSeq(lists, i + 1, Len(lists))
      BY <1>1, <1>3 DEF ListArrives, R
    <3>2. SubSeq(lists, 1, i - 1) \in Seq(R) /\ SubSeq(lists, i + 1, Len(lists)) \in Seq(R)
      BY <1>1, <3>1
    <3>3. lists' \in Seq(R)
      BY <3>1, <3>2
    <3> QED BY <3>3 DEF R
  <2>3. ListTyped'
    BY <2>1, <2>2 DEF ListTyped
  <2> QED BY <1>3, <2>3, PartsKept DEF PanelTypes, ListArrives
<1> QED BY <1>2, <1>3

LEMMA PanelTypesStep == PanelTypes /\ [LibraryPanelNext]_libraryVars => PanelTypes'
<1> SUFFICES ASSUME PanelTypes, [LibraryPanelNext]_libraryVars PROVE PanelTypes'
  OBVIOUS
<1>1. CASE Others
  <2>1. ShelfTyped'
    BY <1>1 DEF Others, PanelTypes, ShelfTyped
  <2>2. CountTyped'
    BY <1>1, SendCounts DEF Others, PanelTypes
  <2> QED BY <1>1, <2>1, <2>2, PartsKept DEF Others, PanelTypes
<1>2. CASE unlockLibrary
  <2>1. AccessTyped'
    BY <1>2 DEF unlockLibrary, AccessTyped
  <2> QED BY <1>2, <2>1, PartsKept DEF unlockLibrary, PanelTypes
<1>3. ASSUME NEW i \in DOMAIN lists, ReadList(i) \/ ListArrives(i) PROVE PanelTypes'
  BY <1>3, ListsChangeTyped
<1>4. ASSUME NEW some \in SUBSET documents \ {{}}, Toggle(some) PROVE PanelTypes'
  BY <1>4, TicksTyped
<1>5. CASE \/ clearSelection \/ create \/ cancelForm \/ edited
           \/ \E what \in documents \cup {Ticked} : Arm(what)
  BY <1>5, PressesTyped
<1>6. CASE \/ \E p \in documents : editDocument(p) \/ drop(p)
           \/ \E p \in Path : save(p)
           \/ dropSelected
  BY <1>6, SendsTyped
<1>7. CASE ServeTask \/ settled \/ cleared
  BY <1>7, ServeTaskTyped, SettledTyped, ClearedTyped
<1>8. ASSUME NEW f \in Files, importDocs(f) PROVE PanelTypes'
  BY <1>8, ImportTyped
<1>9. CASE cancelRemove \/ confirmRemove \/ \E p \in Path : askRemove(p)
  BY <1>9, AskTyped, ConfirmTyped
<1>10. ASSUME NEW e \in errands, ServeErrand(e) \/ fileDone(e) \/ removeDone(e) \/ thrown(e)
       PROVE  PanelTypes'
  BY <1>10, ServeErrandTyped, FileDoneTyped, RemoveDoneTyped, ThrownTyped
<1>11. CASE UNCHANGED libraryVars
  BY <1>11, PartsKept DEF libraryVars, PanelTypes
<1> QED
  BY <1>1, <1>2, <1>3, <1>4, <1>5, <1>6, <1>7, <1>8, <1>9, <1>10, <1>11 DEF LibraryPanelNext

LEMMA PanelTypesInit == LibraryPanelInit => PanelTypes
<1> SUFFICES ASSUME LibraryPanelInit PROVE PanelTypes
  OBVIOUS
<1>1. <<>> \in Seq({<<>>} \cup Report) /\ Idle \in Task /\ 0 \in 0..MaxRequests
  BY LibraryPanelAssumption DEF Task
<1>2. ShelfTyped /\ ListTyped /\ TableTyped
  BY <1>1 DEF LibraryPanelInit, ShelfTyped, ListTyped, TableTyped
<1>3. CardTyped /\ AccessTyped /\ CountTyped
  BY <1>1 DEF LibraryPanelInit, CardTyped, AccessTyped, CountTyped
<1> QED BY <1>2, <1>3 DEF PanelTypes

\* Whatever is in flight, the list, the table and the card hold documents, and
\* every request of the card still has one to send (library.js, importer.js).
THEOREM LibraryPanelTypeCorrect == LibraryPanelSpec => []LibraryPanelTypeOK
BY PanelTypesInit, PanelTypesStep, PanelIsTyped, PTL DEF LibraryPanelSpec
-----------------------------------------------------------------------------
(* The library: failures stay ticked.                                      *)

\* What FailuresStayTicked says of a step.
StayTicked ==
    task.kind = "batch" \/ task'.kind = "batch"
       => selected \ selected' \subseteq {p \in Path : task.kind = "batch"
                                            /\ task.path = p /\ task.reply = "ok"}

\* The two ways to untick that are no removal wait until nothing is cleared; every
\* other step but the end of a removal leaves the ticks alone.
LEMMA TicksStay == PanelTypes /\ [LibraryPanelNext]_libraryVars => StayTicked
<1> SUFFICES ASSUME PanelTypes, [LibraryPanelNext]_libraryVars PROVE StayTicked
  OBVIOUS
<1>0. ASSUME UNCHANGED selected PROVE StayTicked
  BY <1>0 DEF StayTicked
<1>1. ASSUME Free, UNCHANGED task PROVE StayTicked
  BY <1>1 DEF Free, busy, Idle, StayTicked
<1>2. CASE cleared
  <2>1. task \in Task /\ task # Idle
    BY <1>2 DEF PanelTypes, TableTyped, cleared, Idle
  <2> QED BY <1>2, <2>1, TaskParts DEF cleared, StayTicked
<1>3. CASE Others \/ unlockLibrary \/ UNCHANGED libraryVars
  BY <1>0, <1>3 DEF Others, unlockLibrary, libraryVars, table
<1>4. ASSUME NEW i \in DOMAIN lists, ReadList(i) \/ ListArrives(i) PROVE StayTicked
  BY <1>0, <1>4 DEF ReadList, ListArrives, table
<1>5. CASE clearSelection \/ \E some \in SUBSET documents \ {{}} : Toggle(some)
  BY <1>1, <1>5 DEF clearSelection, Toggle
<1>6. CASE create \/ cancelForm \/ edited \/ \E what \in documents \cup {Ticked} : Arm(what)
  BY <1>0, <1>6 DEF create, cancelForm, edited, Arm
<1>7. CASE \/ \E p \in documents : editDocument(p) \/ drop(p)
           \/ \E p \in Path : save(p)
           \/ dropSelected
  BY <1>0, <1>7 DEF editDocument, drop, save, dropSelected
<1>8. CASE ServeTask \/ settled
  BY <1>0, <1>8 DEF ServeTask, settled
<1>9. CASE \/ \E files \in Files : importDocs(files)
           \/ \E p \in Path : askRemove(p)
           \/ cancelRemove \/ confirmRemove
  BY <1>0, <1>9 DEF importDocs, askRemove, cancelRemove, confirmRemove, Sends, table
<1>10. ASSUME NEW e \in errands, ServeErrand(e) \/ fileDone(e) \/ removeDone(e) \/ thrown(e)
       PROVE  StayTicked
  BY <1>0, <1>10 DEF ServeErrand, fileDone, removeDone, thrown, table
<1> QED BY <1>2, <1>3, <1>4, <1>5, <1>6, <1>7, <1>8, <1>9, <1>10 DEF LibraryPanelNext

\* However many documents are being cleared, whatever the card, the others and
\* the lists in flight do meanwhile, a document loses its tick only when the
\* server has said that it was removed (library.js, dropSelected).
THEOREM FailuresStayTickedCorrect == LibraryPanelSpec => FailuresStayTicked
<1>1. PanelTypes /\ [LibraryPanelNext]_libraryVars => [StayTicked]_libraryVars
  BY TicksStay
<1> QED
  BY <1>1, PanelTypesInit, PanelTypesStep, PTL DEF LibraryPanelSpec, FailuresStayTicked, StayTicked

-----------------------------------------------------------------------------
(* The four machines of one run.                                           *)

\* One moves and the others rest: a behaviour of the run is one of each of them.
THEOREM RunIsItsParts == MCSpec => SplitSpec /\ AskSpec /\ PanelSpec /\ LibraryPanelSpec
<1>1. MCInit => SplitInit /\ AskInit /\ PanelInit /\ LibraryPanelInit
  BY DEF MCInit
<1>2. [MCNext]_vars => [SplitNext]_splitVars
  BY DEF MCNext, vars
<1>3. [MCNext]_vars => [AskNext]_askVars
  BY DEF MCNext, vars
<1>4. [MCNext]_vars => [PanelNext]_panelVars
  BY DEF MCNext, vars
<1>5. [MCNext]_vars => [LibraryPanelNext]_libraryVars
  BY DEF MCNext, vars
<1> QED BY <1>1, <1>2, <1>3, <1>4, <1>5, PTL
        DEF MCSpec, SplitSpec, AskSpec, PanelSpec, LibraryPanelSpec

\* For any texts, questions, tickets and documents, the four keep their types
\* (chunk.go, rag.go, store.go, tickets.js, library.js, importer.js).
THEOREM TextTypeCorrect == MCSpec => []TextTypeOK
<1>1. SplitTypeOK /\ AskTypeOK /\ PanelTypeOK /\ LibraryPanelTypeOK => TextTypeOK
  BY DEF TextTypeOK
<1> QED BY <1>1, RunIsItsParts, SplitTypeCorrect, AskTypeCorrect, PanelTypeCorrect,
           LibraryPanelTypeCorrect, PTL
===============================================================================
