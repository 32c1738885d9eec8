------------------------------- MODULE MCLibrary ------------------------------
(***************************************************************************)
(* A small instance of Library for TLC: one path, and a text of two        *)
(* chunks, the least that can be half written.                             *)
(***************************************************************************)
EXTENDS Library, TLC

CONSTANTS doc, r1, r2, long

MCPieces == [b \in Body |-> 2]

MCSymmetry == Permutations(Request)
===============================================================================
