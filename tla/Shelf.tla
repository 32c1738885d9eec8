-------------------------------- MODULE Shelf ---------------------------------
(***************************************************************************)
(* What the library promises a reader, with no transactions, chunks or     *)
(* vectors: every path is a place on a shelf. A save takes the place over  *)
(* and is being indexed until its whole text answers; the text then keeps  *)
(* answering until another save takes the place over or somebody withdraws *)
(* the document. A save takes over once, never a second time, so a text    *)
(* that answers cannot silently lose part of itself.                       *)
(***************************************************************************)
CONSTANTS Path, Save

VARIABLES
    place,  \* [Path -> Empty, or which save holds it and how far it is]
    begun   \* the saves that have taken a place over

shelfVars == <<place, begun>>

Empty == [state |-> "empty"]

Held == [state: {"indexing", "answering", "withdrawn"}, by: Save]

ShelfInit ==
    /\ place = [p \in Path |-> Empty]
    /\ begun = {}

TakeOver(p, w) ==
    /\ w \notin begun
    /\ begun' = begun \cup {w}
    /\ place' = [place EXCEPT ![p] = [state |-> "indexing", by |-> w]]

StartAnswering(p) ==
    /\ place[p].state = "indexing"
    /\ place' = [place EXCEPT ![p].state = "answering"]
    /\ UNCHANGED begun

Withdraw(p) ==
    /\ place[p].state \in {"indexing", "answering"}
    /\ place' = [place EXCEPT ![p].state = "withdrawn"]
    /\ UNCHANGED begun

ShelfNext ==
    \E p \in Path :
        \/ \E w \in Save : TakeOver(p, w)
        \/ StartAnswering(p)
        \/ Withdraw(p)

ShelfSpec == ShelfInit /\ [][ShelfNext]_shelfVars
===============================================================================
