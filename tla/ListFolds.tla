------------------------------- MODULE ListFolds -------------------------------
(***************************************************************************)
(* The loops over a list that the code keeps writing: the one that takes   *)
(* some of its items, the one that adds up its sizes and the one that      *)
(* joins lists. They are folds, so that ListProofs can prove what they     *)
(* compute; of SelectSeq and FlattenSeq the provers know nothing.          *)
(***************************************************************************)
EXTENDS Integers, SequencesExt

\* The items of a list that are among some, in their order.
Only(list, some) ==
    FoldLeft(LAMBDA kept, x : IF x \in some THEN Append(kept, x) ELSE kept, <<>>, list)

Total(sizes) == FoldLeft(LAMBDA sum, size : sum + size, 0, sizes)

Flat(lists) == FoldLeft(LAMBDA joined, list : joined \o list, <<>>, lists)
===============================================================================
