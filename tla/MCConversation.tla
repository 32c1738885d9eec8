---------------------------- MODULE MCConversation ----------------------------
(***************************************************************************)
(* A small instance of Conversation for TLC: three questions and a saved   *)
(* thread shorter than that.                                               *)
(***************************************************************************)
EXTENDS Conversation
===============================================================================
