---------------------------- MODULE MCAnswerCache -----------------------------
(***************************************************************************)
(* Small instances of AnswerCache for TLC, and scene says which of them a  *)
(* behaviour is in.  Saves: the library alone, two saves over two paths,   *)
(* removals, and everything that can fail.  Races: two questions beside    *)
(* two saves of one document and a clock that may tick between them, and   *)
(* nobody fails.  Failures: questions of all and of a folder beside one    *)
(* save of two pieces in one of two documents, and everything that can     *)
(* fail.                                                                   *)
(***************************************************************************)
EXTENDS AnswerCache, TLC

CONSTANTS doc, other, r1, r2, a1, a2, all, folder, q1, blank, short, long

VARIABLE scene
mcVars == <<scene, cacheVars>>

MCPieces == [b \in Body |-> CASE b = blank -> 0 [] b = short -> 1 [] OTHER -> 2]

MCSources == [o \in Option |-> IF o = all THEN Path ELSE {doc}]

MCSymmetry == Permutations(Request) \cup Permutations(Asker)

Saves == {w \in Request : jobs[w] # Idle}

Races ==
    /\ docs[other] = NoRow
    /\ \A w \in Saves : /\ jobs[w].kind = "ingest" /\ jobs[w].dst = doc /\ jobs[w].body = short
                        /\ jobs[w].pc \notin {"refused", "failed", "crashed"}
    /\ \A a \in Asker : /\ asks[a].pc \notin {"failed", "crashed", "unpruned"}
                        /\ asks[a].pc \in Asking => asks[a].option = all /\ asks[a].cacheable

Failures ==
    /\ now = 0 /\ Cardinality(Saves) <= 1
    /\ \A w \in Saves : jobs[w].body = long

\* The DELETEs of an upsert and of a removal have their effect: the races of an
\* unnoticed one are more than a run has room for.
DeletesWork ==
    /\ vecs' = chunks'
    /\ \A w \in Request :
          jobs[w].pc = "upsert" /\ jobs'[w].pc = "insert" => ChunksOf(jobs[w].dst)' = {}

MCInit == CacheInit /\ scene \in {"saves", "races", "failures"}

MCNext ==
    /\ UNCHANGED scene
    /\ \/ scene = "saves" /\ Next /\ UNCHANGED <<cache, asks>>
       \/ scene = "races" /\ CacheNext /\ Races' /\ DeletesWork
       \/ scene = "failures" /\ CacheNext /\ Failures'

MCSpec == MCInit /\ [][MCNext]_mcVars
===============================================================================
