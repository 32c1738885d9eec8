------------------------------ MODULE MCServing -------------------------------
(***************************************************************************)
(* A small instance of Migrations for TLC, the server and cmd/ingest over  *)
(* one file, and after it one of Conversation: once both processes have    *)
(* opened a file that was new, a page may be used while neither of them    *)
(* moves. The two machines share no state, so what came before the page    *)
(* does not matter to it and one history of it is enough.                  *)
(***************************************************************************)
EXTENDS Migrations, Conversation

CONSTANTS server, ingest, d1

VARIABLE serving
vars == <<serving, migVars, convVars>>

MCInit == serving = FALSE /\ MigInit /\ ConvInit

Serve ==
    /\ \A p \in Process : At(p, "ready")
    /\ rows = [d \in Doc |-> Absent] /\ faults = MaxFaults
    /\ serving' = TRUE /\ UNCHANGED <<migVars, convVars>>

MCNext ==
    \/ ~serving /\ MigNext /\ UNCHANGED <<serving, convVars>>
    \/ ~serving /\ Serve
    \/ serving /\ ConvNext /\ UNCHANGED <<serving, migVars>>

MCSpec == MCInit /\ [][MCNext]_vars /\ MigFairness /\ ConvFairness

\* The types of both: of the schema and its openers (db/migrate.go), and of the
\* page and what it has stored (conversation.js, session.js).
ServingTypeOK == MigTypeOK /\ ConvTypeOK
===============================================================================
