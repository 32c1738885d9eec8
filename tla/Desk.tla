--------------------------------- MODULE Desk ---------------------------------
(***************************************************************************)
(* What the queue promises the person who clears it, with no database rows *)
(* and no calls in flight: a question is one item however many people ask  *)
(* it, and an item only ever moves along the edges of its lifecycle.       *)
(***************************************************************************)
CONSTANTS Ticket, Question

VARIABLE desk   \* [Ticket -> NotYet, Dropped, or the item]

NotYet == [stage |-> "unfiled"]
Dropped == [stage |-> "gone"]
Item == [stage: {"open", "answered", "confirmed", "rejected"}, question: Question]

Pending(t) == desk[t].stage \in {"open", "answered"}

Covered(q) == \E t \in Ticket : Pending(t) /\ desk[t].question = q

DeskInit == desk = [t \in Ticket |-> NotYet]

MoveTo(t, stage) == desk' = [desk EXCEPT ![t].stage = stage]

File(t, q) ==
    /\ desk[t] = NotYet
    /\ ~Covered(q)
    /\ desk' = [desk EXCEPT ![t] = [stage |-> "open", question |-> q]]

Answer(t) == Pending(t) /\ MoveTo(t, "answered")

Publish(t) == Pending(t) /\ MoveTo(t, "confirmed")

\* Back to a draft, unless the question has been filed again since.
TakeBack(t) ==
    /\ desk[t].stage = "confirmed"
    /\ ~Covered(desk[t].question)
    /\ MoveTo(t, "answered")

Dismiss(t) ==
    /\ desk[t].stage \in {"open", "answered", "confirmed"}
    /\ MoveTo(t, "rejected")

Drop(t) ==
    /\ desk[t] \notin {NotYet, Dropped}
    /\ desk' = [desk EXCEPT ![t] = Dropped]

DeskNext ==
    \E t \in Ticket :
        \/ \E q \in Question : File(t, q)
        \/ Answer(t)
        \/ Publish(t)
        \/ TakeBack(t)
        \/ Dismiss(t)
        \/ Drop(t)

DeskSpec == DeskInit /\ [][DeskNext]_desk
===============================================================================
