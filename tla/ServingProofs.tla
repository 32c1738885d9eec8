----------------------------- MODULE ServingProofs -----------------------------
(***************************************************************************)
(* Theorems about the two machines of MCServing, for every instance of     *)
(* them: about Migrations, for any number of processes and documents, and  *)
(* about Conversation, for threads of any length and any number of         *)
(* requests, resets and reloads.                                           *)
(***************************************************************************)
EXTENDS MCServing, ListProofs

-------------------------------------------------------------------------------
(***************************************************************************)
(* Opening the database. VersionTellsTheShape is not inductive: which      *)
(* migration an opener runs next depends on the set it read when it began, *)
(* so the invariant adds what that set leaves out (PlanIsCurrent) and      *)
(* which statements are behind an opener (BehindIsMade).                   *)
(***************************************************************************)
\* What an opener has left out of its plan is applied, and stays so.
PlanIsCurrent ==
    \A p \in Process : opens[p].pc \in {"apply", "ready"} =>
        /\ Migration \ opens[p].todo \subseteq version
        /\ (opens[p].pc = "apply") <=> (opens[p].todo # {})

\* What an opener has gone past exists, and nothing is migrated before it all
\* does.
BehindIsMade ==
    /\ \A p \in Process :
         /\ opens[p].pc = "schema" => \A i \in DOMAIN Statements :
                                          i < opens[p].at => Statements[i] \in made
         /\ opens[p].pc \in {"read", "apply", "ready"} => made = Object
    /\ version # {} => made = Object

MigInv == MigTypeOK /\ VersionTellsTheShape /\ PlanIsCurrent /\ BehindIsMade

-------------------------------------------------------------------------------
\* The next migration of a plan is in it, and every earlier one is not.
LEMMA MinOfPlan ==
    ASSUME NEW S \in SUBSET Migration, S # {}
    PROVE  Min(S) \in S /\ \A i \in Migration : i < Min(S) => i \notin S
<1>1. \A x \in S : x \in {1, 2, 3}
  BY DEF Migration
<1>2. \E x \in S : \A y \in S : x <= y
  <2>1. CASE 1 \in S
    <3>1. \A y \in S : 1 <= y
      BY <1>1
    <3> QED BY <2>1, <3>1
  <2>2. CASE 1 \notin S /\ 2 \in S
    <3>1. \A y \in S : 2 <= y
      BY <1>1, <2>2
    <3> QED BY <2>2, <3>1
  <2>3. CASE 1 \notin S /\ 2 \notin S
    <3>1. S = {3}
      BY <1>1, <2>3
    <3> QED BY <3>1
  <2> QED BY <2>1, <2>2, <2>3
<1>3. Min(S) \in S /\ \A y \in S : Min(S) <= y
  BY <1>2 DEF Min
<1>4. \A x, i \in {1, 2, 3} : i < x => ~(x <= i)
  OBVIOUS
<1>5. Migration = {1, 2, 3}
  BY DEF Migration
<1> QED BY <1>1, <1>3, <1>4, <1>5

\* The statements are eight, and the objects are theirs.
LEMMA EightStatements ==
    /\ Len(Statements) = 8
    /\ DOMAIN Statements = 1..8
    /\ \A i \in 1..8 : Statements[i] \in Object
BY DEF Statements, Object

\* The invariant holds of every database a process may find.
LEMMA MigInvInit == MigInit => MigInv
<1> SUFFICES ASSUME MigInit PROVE MigInv
  OBVIOUS
<1> USE DEF MigInit, NewFile, BeforeMigrations, AfterTheFirst
<1>1. /\ version = {} \/ version = {1}
      /\ version = {1} <=> cols = {"attributes"}
      /\ version = {} <=> cols = {}
      /\ \A x \in DOMAIN form : form[x] # "named"
  OBVIOUS
<1>2. MigTypeOK
  <2>1. made \subseteq Object /\ cols \subseteq {"attributes", "ident"}
    OBVIOUS
  <2>2. form \in [{"fts", "triggers"} -> {"none", "plain", "named"}]
    OBVIOUS
  <2>3. version \subseteq Migration
    BY <1>1 DEF Migration
  <2>4. rows \in [Doc -> Row \cup {Absent}]
    BY DEF Row
  <2>5. opens \in [Process -> Opener]
    BY EightStatements DEF Opener
  <2>6. faults \in 0..MaxFaults
    BY MaxFaultsAssumption
  <2> QED BY <2>1, <2>2, <2>3, <2>4, <2>5, <2>6 DEF MigTypeOK
<1>3. VersionTellsTheShape
  BY <1>1 DEF VersionTellsTheShape
<1>4. PlanIsCurrent
  BY DEF PlanIsCurrent
<1>5. BehindIsMade
  BY EightStatements DEF BehindIsMade
<1> QED BY <1>2, <1>3, <1>4, <1>5 DEF MigInv

-------------------------------------------------------------------------------
\* A step that touches openers only leaves what the database says alone.
LEMMA ShapeStays ==
    ASSUME VersionTellsTheShape, UNCHANGED <<cols, form, version, rows>>
    PROVE  VersionTellsTheShape'
BY DEF VersionTellsTheShape, There

\* Taking up or going on with a plan.
LEMMA GoOnTyped ==
    ASSUME MigTypeOK, NEW p \in Process, NEW todo \in SUBSET Migration, GoOnWith(p, todo)
    PROVE  /\ opens' \in [Process -> Opener]
           /\ \A q \in Process \ {p} : opens'[q] = opens[q]
           /\ opens'[p].todo = todo
           /\ opens'[p].pc = IF todo = {} THEN "ready" ELSE "apply"
<1> DEFINE next == IF todo = {} THEN "ready" ELSE "apply"
           one == [opens EXCEPT ![p].todo = todo]
<1>1. opens[p] \in Opener
  BY DEF MigTypeOK
<1>2. /\ one \in [Process -> Opener]
      /\ one[p].todo = todo
      /\ \A q \in Process \ {p} : one[q] = opens[q]
  BY <1>1 DEF MigTypeOK, Opener
<1>3. next \in {"ready", "apply"}
  OBVIOUS
<1>4. opens' = [one EXCEPT ![p].pc = next]
  BY DEF GoOnWith, MigTypeOK
<1> HIDE DEF one, next
<1>5. /\ opens' \in [Process -> Opener]
      /\ opens'[p].todo = todo
      /\ opens'[p].pc = next
      /\ \A q \in Process \ {p} : opens'[q] = opens[q]
  BY <1>2, <1>3, <1>4 DEF Opener
<1> QED BY <1>5 DEF next

\* Every action keeps the types.
LEMMA StepTyped == MigTypeOK /\ [MigNext]_migVars => MigTypeOK'
<1> SUFFICES ASSUME MigTypeOK, [MigNext]_migVars PROVE MigTypeOK'
  OBVIOUS
<1> USE DEF MigTypeOK
<1>1. ASSUME NEW p \in Process, Start(p) PROVE MigTypeOK'
  BY <1>1, EightStatements DEF Start, Opener
<1>2. ASSUME NEW p \in Process, Create(p) PROVE MigTypeOK'
  <2>1. opens[p] \in Opener /\ opens[p].at \in 1..8
    BY EightStatements DEF Opener
  <2>2. opens' \in [Process -> Opener]
    BY <1>2, <2>1, EightStatements DEF Create, Opener
  <2>3. made' \subseteq Object
    BY <1>2, <2>1, EightStatements DEF Create
  <2>4. form' \in [{"fts", "triggers"} -> {"none", "plain", "named"}]
    BY <1>2 DEF Create
  <2> QED BY <1>2, <2>2, <2>3, <2>4 DEF Create
<1>3. ASSUME NEW p \in Process, ReadApplied(p) PROVE MigTypeOK'
  <2>1. Migration \ version \in SUBSET Migration
    OBVIOUS
  <2>2. opens' \in [Process -> Opener]
    BY <1>3, <2>1, GoOnTyped DEF ReadApplied
  <2> QED BY <1>3, <2>2 DEF ReadApplied
<1>4. ASSUME NEW p \in Process, Apply(p) PROVE MigTypeOK'
  <2> DEFINE m == Min(opens[p].todo)
  <2>1. CASE ~Succeeds(m)
    BY <1>4, <2>1 DEF Apply, MoveTo, Opener
  <2>2. CASE Succeeds(m) /\ Sql(m)
    <3>1. m \in Migration
      BY <2>2 DEF Sql, Migration
    <3>2. version' \subseteq Migration /\ opens' \in [Process -> Opener] /\ UNCHANGED faults
      BY <1>4, <2>2, <3>1 DEF Apply, GoOnWith, Opener
    <3>3. cols' \subseteq {"attributes", "ident"} /\ UNCHANGED made
      BY <2>2 DEF Sql, AddAttributes, RebuildBodies, NameChunks
    <3>4. form' \in [{"fts", "triggers"} -> {"none", "plain", "named"}]
      BY <2>2 DEF Sql, AddAttributes, RebuildBodies, NameChunks
    <3>5. rows' \in [Doc -> Row \cup {Absent}]
      <4>1. CASE AddAttributes
        BY <4>1 DEF AddAttributes
      <4>2. CASE RebuildBodies
        BY <4>2 DEF RebuildBodies, Row, There
      <4>3. CASE NameChunks
        BY <4>3 DEF NameChunks, Row, There
      <4> QED BY <2>2, <4>1, <4>2, <4>3 DEF Sql
    <3> QED BY <3>2, <3>3, <3>4, <3>5
  <2> QED BY <1>4, <2>1, <2>2 DEF Apply
<1>5. ASSUME NEW p \in Process, OpenFails(p) \/ Die(p) PROVE MigTypeOK'
  BY <1>5, MaxFaultsAssumption DEF OpenFails, Die, MoveTo, Opener
<1>6. ASSUME NEW p \in Process, Quit(p) PROVE MigTypeOK'
  BY <1>6 DEF Quit, MoveTo, Opener
<1>7. ASSUME NEW p \in Process, NEW d \in Doc, Write(p, d) PROVE MigTypeOK'
  BY <1>7 DEF Write, Row
<1>8. CASE UNCHANGED migVars
  BY <1>8 DEF migVars
<1> QED BY <1>1, <1>2, <1>3, <1>4, <1>5, <1>6, <1>7, <1>8 DEF MigNext, Opening

\* A process whose Open fails, ends or dies keeps the invariant, as does one
\* that starts: only its own place changes, and it has passed nothing.
LEMMA EndStep ==
    ASSUME MigInv, NEW p \in Process, Start(p) \/ OpenFails(p) \/ Die(p) \/ Quit(p)
    PROVE  VersionTellsTheShape' /\ PlanIsCurrent' /\ BehindIsMade'
<1> USE DEF MigInv
<1>1. /\ UNCHANGED <<made, cols, form, version, rows>>
      /\ \A q \in Process \ {p} : opens'[q] = opens[q]
      /\ opens'[p].pc \in {"off", "schema", "failed"}
      /\ opens'[p].pc = "schema" => opens'[p].at = 1
  BY DEF Start, OpenFails, Die, Quit, MoveTo, MigTypeOK, Opener
<1>2. PlanIsCurrent'
  BY <1>1 DEF PlanIsCurrent
<1>3. BehindIsMade'
  BY <1>1, EightStatements DEF BehindIsMade
<1> QED BY <1>1, <1>2, <1>3, ShapeStays

\* A statement of the schema: it adds one object and disturbs no migration.
LEMMA CreateStep ==
    ASSUME MigInv, NEW p \in Process, Create(p)
    PROVE  VersionTellsTheShape' /\ PlanIsCurrent' /\ BehindIsMade'
<1> USE DEF MigInv
<1>1. opens[p] \in Opener /\ opens[p].at \in 1..8
  BY EightStatements DEF MigTypeOK, Opener
<1>2. /\ made' = made \cup {Statements[opens[p].at]}
      /\ UNCHANGED <<cols, rows, version>>
      /\ \A q \in Process \ {p} : opens'[q] = opens[q]
      /\ opens[p].pc = "schema"
  BY DEF Create, At, MigTypeOK
<1>3. \/ opens[p].at = 8 /\ opens'[p].pc = "read"
      \/ opens[p].at # 8 /\ opens'[p].pc = "schema" /\ opens'[p].at = opens[p].at + 1
  BY <1>1, EightStatements DEF Create, At, MigTypeOK
<1>4. form' = form \/ made # Object
  BY <1>1, EightStatements DEF Create
<1>5. VersionTellsTheShape'
  <2>1. CASE form' = form
    BY <1>2, <2>1, ShapeStays
  <2>2. CASE made # Object
    <3>1. version = {}
      BY <2>2 DEF BehindIsMade
    <3>2. \A x \in DOMAIN form' : form'[x] # "named"
      BY <3>1 DEF VersionTellsTheShape, Create, MigTypeOK
    <3> QED BY <1>2, <3>1, <3>2 DEF VersionTellsTheShape
  <2> QED BY <1>4, <2>1, <2>2
<1>6. PlanIsCurrent'
  BY <1>2, <1>3 DEF PlanIsCurrent
<1>7. BehindIsMade'
  <2>1. made \subseteq Object /\ made' \subseteq Object /\ made \subseteq made'
    BY <1>1, <1>2, EightStatements DEF MigTypeOK
  <2>2. ASSUME NEW i \in 1..8, i <= opens[p].at PROVE Statements[i] \in made'
    BY <1>1, <1>2, <2>2, EightStatements DEF BehindIsMade
  <2>3. opens[p].at = 8 => made' = Object
    <3>1. ASSUME opens[p].at = 8, NEW o \in Object PROVE o \in made'
      BY <2>2, <3>1, EightStatements DEF Object
    <3> QED BY <2>1, <3>1
  <2>4. \A q \in Process \ {p} :
          /\ opens'[q].pc = "schema" => \A i \in DOMAIN Statements :
                                            i < opens'[q].at => Statements[i] \in made'
          /\ opens'[q].pc \in {"read", "apply", "ready"} => made' = Object
    BY <1>2, <2>1 DEF BehindIsMade
  <2>5. /\ opens'[p].pc = "schema" => \A i \in DOMAIN Statements :
                                          i < opens'[p].at => Statements[i] \in made'
        /\ opens'[p].pc \in {"read", "apply", "ready"} => made' = Object
    BY <1>1, <1>3, <2>2, <2>3, EightStatements
  <2>6. version' # {} => made' = Object
    BY <1>2, <2>1 DEF BehindIsMade
  <2> QED BY <2>4, <2>5, <2>6 DEF BehindIsMade
<1> QED BY <1>5, <1>6, <1>7

\* Reading the applied set makes a plan that leaves out what is applied now.
LEMMA ReadStep ==
    ASSUME MigInv, NEW p \in Process, ReadApplied(p)
    PROVE  VersionTellsTheShape' /\ PlanIsCurrent' /\ BehindIsMade'
<1> USE DEF MigInv
<1>1. /\ UNCHANGED <<made, cols, form, version, rows>>
      /\ opens[p].pc = "read"
      /\ Migration \ version \in SUBSET Migration
  BY DEF ReadApplied, At
<1>2. /\ \A q \in Process \ {p} : opens'[q] = opens[q]
      /\ opens'[p].todo = Migration \ version
      /\ opens'[p].pc = IF Migration \ version = {} THEN "ready" ELSE "apply"
  BY <1>1, GoOnTyped DEF ReadApplied
<1>3. PlanIsCurrent'
  BY <1>1, <1>2 DEF PlanIsCurrent, MigTypeOK
<1>4. BehindIsMade'
  BY <1>1, <1>2 DEF BehindIsMade
<1> QED BY <1>1, <1>3, <1>4, ShapeStays

\* The change of migration m to a database that has what comes before it and
\* not m itself, together with its record.
LEMMA SqlStep ==
    ASSUME MigTypeOK, VersionTellsTheShape, NEW m \in Migration, Succeeds(m), Sql(m),
           \A i \in Migration : i < m => i \in version,
           version' = version \cup {m}
    PROVE  VersionTellsTheShape'
<1> USE DEF MigTypeOK, VersionTellsTheShape
<1>1. \A i \in version' : 1..i \subseteq version'
  BY DEF Migration
<1>2. CASE m = 1
  <2>1. AddAttributes /\ version = {} /\ version' = {1}
    BY <1>2 DEF Sql, Succeeds, Migration, RebuildBodies, NameChunks
  <2> QED BY <1>1, <2>1 DEF AddAttributes, There
<1>3. CASE m = 2
  <2>1. RebuildBodies /\ version' = version \cup {2} /\ 1 \in version
    BY <1>3 DEF Sql, Migration
  <2>2. \A d \in Doc : There(d)' /\ rows'[d].chunks => rows'[d].text # "null"
    BY <2>1 DEF RebuildBodies, There, Row, Absent
  <2>3. 3 \notin version
    BY <1>3 DEF Succeeds, Migration
  <2> QED BY <1>1, <2>1, <2>2, <2>3 DEF RebuildBodies
<1>4. CASE m = 3
  <2>1. NameChunks /\ version' = version \cup {3} /\ 1 \in version /\ 2 \in version
    BY <1>4 DEF Sql, Migration
  <2>2. \A d \in Doc : There(d)' /\ rows'[d].chunks => rows'[d].text # "null" /\ rows'[d].ident
    BY <2>1 DEF NameChunks, There, Row, Absent
  <2>3. /\ "ident" \in cols'
        /\ ("attributes" \in cols') = ("attributes" \in cols)
        /\ \A x \in DOMAIN form' : form'[x] = "named"
    BY <2>1 DEF NameChunks
  <2> QED BY <1>1, <2>1, <2>2, <2>3
<1> QED BY <1>2, <1>3, <1>4 DEF Migration

\* A migration, or the failure that ends the Open.
LEMMA ApplyStep ==
    ASSUME MigInv, NEW p \in Process, Apply(p)
    PROVE  VersionTellsTheShape' /\ PlanIsCurrent' /\ BehindIsMade'
<1> USE DEF MigInv
<1> DEFINE m == Min(opens[p].todo)
<1>1. opens[p].pc = "apply" /\ opens[p] \in Opener
  BY DEF Apply, At, MigTypeOK
<1>2. opens[p].todo \in SUBSET Migration /\ opens[p].todo # {}
  BY <1>1 DEF PlanIsCurrent, Opener
<1>3. m \in opens[p].todo /\ \A i \in Migration : i < m => i \notin opens[p].todo
  BY <1>2, MinOfPlan
<1>4. \A i \in Migration : i < m => i \in version
  BY <1>1, <1>3 DEF PlanIsCurrent
<1>5. CASE ~Succeeds(m)
  <2>0. MoveTo(p, "failed") /\ UNCHANGED <<made, cols, form, version, rows>>
    BY <1>5 DEF Apply
  <2>1. /\ UNCHANGED <<made, cols, form, version, rows>>
        /\ \A q \in Process \ {p} : opens'[q] = opens[q]
        /\ opens'[p].pc = "failed"
    BY <1>1, <2>0 DEF MoveTo, MigTypeOK, Opener
  <2>2. PlanIsCurrent' /\ BehindIsMade'
    BY <2>1 DEF PlanIsCurrent, BehindIsMade
  <2> QED BY <2>1, <2>2, ShapeStays
<1>6. CASE Succeeds(m)
  <2>1. Sql(m) /\ version' = version \cup {m} /\ GoOnWith(p, opens[p].todo \ {m})
    BY <1>6 DEF Apply
  <2>2. VersionTellsTheShape'
    BY <1>2, <1>3, <1>4, <1>6, <2>1, SqlStep
  <2>3. /\ \A q \in Process \ {p} : opens'[q] = opens[q]
        /\ opens'[p].todo = opens[p].todo \ {m}
        /\ opens'[p].pc = IF opens[p].todo \ {m} = {} THEN "ready" ELSE "apply"
    <3>1. opens[p].todo \ {m} \in SUBSET Migration
      BY <1>2
    <3> QED BY <2>1, <3>1, GoOnTyped
  <2>4. UNCHANGED made /\ made = Object
    BY <1>1, <2>1 DEF Sql, AddAttributes, RebuildBodies, NameChunks, BehindIsMade
  <2>5. PlanIsCurrent'
    BY <1>1, <2>1, <2>3 DEF PlanIsCurrent
  <2>6. BehindIsMade'
    BY <2>3, <2>4 DEF BehindIsMade
  <2> QED BY <2>2, <2>5, <2>6
<1> QED BY <1>5, <1>6

\* A save by a process that is open. Its triggers carry names: the process is
\* past its plan, so migration 3 is in.
LEMMA WriteStep ==
    ASSUME MigInv, NEW p \in Process, NEW d \in Doc, Write(p, d)
    PROVE  VersionTellsTheShape' /\ PlanIsCurrent' /\ BehindIsMade'
<1> USE DEF MigInv
<1>1. /\ UNCHANGED <<made, cols, form, version, opens>>
      /\ rows' = [rows EXCEPT ![d] = [text |-> "saved", chunks |-> TRUE,
                                      ident |-> form["triggers"] = "named"]]
      /\ opens[p].pc = "ready"
  BY DEF Write, At
<1>2. 3 \in version => form["triggers"] = "named"
  BY DEF VersionTellsTheShape, MigTypeOK
<1>3. /\ \A e \in Doc \ {d} : rows'[e] = rows[e]
      /\ rows'[d].text = "saved"
      /\ 3 \in version => rows'[d].ident
  BY <1>1, <1>2 DEF MigTypeOK
<1>4. VersionTellsTheShape'
  BY <1>1, <1>3 DEF VersionTellsTheShape, There
<1> QED BY <1>1, <1>4 DEF PlanIsCurrent, BehindIsMade

LEMMA MigInvStep == MigInv /\ [MigNext]_migVars => MigInv'
<1> SUFFICES ASSUME MigInv, [MigNext]_migVars
             PROVE  VersionTellsTheShape' /\ PlanIsCurrent' /\ BehindIsMade'
  BY StepTyped DEF MigInv
<1>1. CASE UNCHANGED migVars
  BY <1>1, ShapeStays DEF MigInv, migVars, PlanIsCurrent, BehindIsMade
<1> QED
  BY <1>1, EndStep, CreateStep, ReadStep, ApplyStep, WriteStep DEF MigNext, Opening

-------------------------------------------------------------------------------
THEOREM MigInvariant == MigSpec => []MigInv
BY MigInvInit, MigInvStep, PTL DEF MigSpec

\* The types hold for any number of openers and any bound on failures.
THEOREM MigTypeCorrect == MigSpec => []MigTypeOK
BY MigInvariant, PTL DEF MigInv

\* schema_version says at every moment, with any number of processes opening,
\* failing and dying, which migrations are wholly in the database.
THEOREM VersionTellsTheShapeCorrect == MigSpec => []VersionTellsTheShape
BY MigInvariant, PTL DEF MigInv

\* An Open that returned without an error left nothing out.
THEOREM ReadyIsCurrentCorrect == MigSpec => []ReadyIsCurrent
<1>1. MigInv => ReadyIsCurrent
  <2> SUFFICES ASSUME MigInv, NEW p \in Process, At(p, "ready")
               PROVE  /\ made = Object
                      /\ version = Migration
                      /\ \A d \in Doc : There(d) /\ rows[d].chunks =>
                            rows[d].text # "null" /\ rows[d].ident
    BY DEF ReadyIsCurrent
  <2>1. made = Object /\ version = Migration
    BY DEF MigInv, MigTypeOK, PlanIsCurrent, BehindIsMade, At
  <2>2. 2 \in version /\ 3 \in version
    BY <2>1 DEF Migration
  <2> QED BY <2>1, <2>2 DEF MigInv, VersionTellsTheShape
<1> QED BY <1>1, MigInvariant, PTL

\* No step of any opener changes a text a person saved or drops a document.
THEOREM SavedTextsAreKeptCorrect == MigSpec => SavedTextsAreKept
<1> DEFINE Kept == \A d \in Doc : /\ There(d) => There(d)'
                                  /\ There(d) /\ rows[d].text = "saved" =>
                                         rows'[d].text = "saved"
<1>1. MigInv /\ [MigNext]_migVars => [Kept]_migVars
  <2> SUFFICES ASSUME MigInv, MigNext PROVE Kept
    OBVIOUS
  <2>1. rows' = rows => Kept
    BY DEF There
  <2>2. ASSUME NEW p \in Process, NEW d \in Doc, Write(p, d) PROVE Kept
    BY <2>2 DEF Write, There, Absent, MigInv, MigTypeOK
  <2>3. ASSUME NEW p \in Process, Apply(p) PROVE Kept
    BY <2>1, <2>3 DEF Apply, Sql, AddAttributes, RebuildBodies, NameChunks, There,
       Absent, Row, MigInv, MigTypeOK
  <2>4. ASSUME NEW p \in Process,
               Start(p) \/ Create(p) \/ ReadApplied(p) \/ OpenFails(p) \/ Die(p) \/ Quit(p)
        PROVE  Kept
    BY <2>1, <2>4 DEF Start, Create, ReadApplied, OpenFails, Die, Quit
  <2> QED BY <2>2, <2>3, <2>4 DEF MigNext, Opening
<1> QED BY <1>1, MigInvariant, PTL DEF MigSpec, SavedTextsAreKept

-------------------------------------------------------------------------------
(***************************************************************************)
(* One page: one stream at a time, nothing left of what was reset, no half *)
(* answer unmarked and nothing lost when the page hides.                   *)
(***************************************************************************)
-------------------------------------------------------------------------------
(***************************************************************************)
(* Turns and lists of turns                                                *)
(***************************************************************************)
LEMMA TurnFields ==
    ASSUME NEW t \in Turn
    PROVE  /\ t.id \in Nat /\ t.era \in Nat
           /\ {t.streaming, t.stopped, t.error, t.redone} \subseteq BOOLEAN
BY DEF Turn

\* What a field of a turn is after another one has been written.
LEMMA TurnWith ==
    ASSUME NEW t \in Turn, NEW b \in BOOLEAN, NEW x \in {"none", "part", "whole"}
    PROVE  /\ [t EXCEPT !.text = x] \in Turn
           /\ [t EXCEPT !.streaming = b] \in Turn
           /\ [t EXCEPT !.streaming = FALSE, !.error = TRUE] \in Turn
           /\ [t EXCEPT !.stopped = b] \in Turn
BY DEF Turn

LEMMA AssignIs ==
    ASSUME NEW t \in Turn, NEW x
    PROVE  /\ Assign(t, [text |-> x]) = [t EXCEPT !.text = x]
           /\ Assign(t, [streaming |-> x]) = [t EXCEPT !.streaming = x]
           /\ Assign(t, [streaming |-> FALSE, error |-> TRUE])
                 = [t EXCEPT !.streaming = FALSE, !.error = TRUE]
<1>1. /\ Assign(t, [text |-> x]) = [t EXCEPT !.text = x]
      /\ Assign(t, [streaming |-> x]) = [t EXCEPT !.streaming = x]
  BY DEF Turn, Assign
<1>2. Assign(t, [streaming |-> FALSE, error |-> TRUE])
        = [t EXCEPT !.streaming = FALSE, !.error = TRUE]
  <2> DEFINE fields == [streaming |-> FALSE, error |-> TRUE]
             new == [t EXCEPT !.streaming = FALSE, !.error = TRUE]
  <2>1. DOMAIN fields = {"streaming", "error"} /\ fields.streaming = FALSE /\ fields.error = TRUE
    OBVIOUS
  <2>2. DOMAIN new = DOMAIN t /\ new = [f \in DOMAIN new |-> new[f]]
    OBVIOUS
  <2>3. \A f \in DOMAIN t : new[f] = IF f = "streaming" THEN FALSE
                                     ELSE IF f = "error" THEN TRUE ELSE t[f]
    BY DEF Turn
  <2>4. Assign(t, fields) = [f \in DOMAIN t |-> IF f = "streaming" THEN FALSE
                                              ELSE IF f = "error" THEN TRUE ELSE t[f]]
    BY <2>1 DEF Assign
  <2> QED
    BY <2>2, <2>3, <2>4
<1> QED
  BY <1>1, <1>2

LEMMA SettleIs ==
    ASSUME NEW t \in Turn
    PROVE  /\ settle(t) \in Turn
           /\ settle(t).id = t.id /\ settle(t).era = t.era /\ settle(t).text = t.text
           /\ settle(t).streaming = FALSE /\ settle(t).redone = t.redone
           /\ settle(t).error = t.error /\ settle(t).stopped = (t.stopped \/ t.streaming)
           /\ ~t.streaming => settle(t) = t
BY DEF Turn, settle

Ascending(list) == \A i, j \in DOMAIN list : i < j => list[i].id < list[j].id

\* Whatever is cut short says so, unless it was asked again above later turns.
Marked(list) ==
    \A i \in DOMAIN list :
        list[i].text = "part" /\ ~list[i].streaming /\ ~list[i].redone
        => list[i].stopped \/ list[i].error

\* A thread since the reset number e.
Thread(list, e) ==
    /\ list \in Seq(Turn) /\ Ascending(list) /\ Marked(list)
    /\ \A i \in DOMAIN list : list[i].era = e

\* A thread as it is saved.
Saved(list) == Len(list) <= MAX_TURNS /\ \A i \in DOMAIN list : ~list[i].streaming

LEMMA EmptyThread == ASSUME NEW e PROVE Thread(<<>>, e) /\ Saved(<<>>)
BY LengthsAssumption DEF Thread, Saved, Ascending, Marked

LEMMA NewestIs ==
    ASSUME NEW S, NEW s \in Seq(S), NEW n \in Nat \ {0}
    PROVE  /\ Newest(s, n) \in Seq(S) /\ Len(Newest(s, n)) <= n
           /\ Len(Newest(s, n)) = 0 <=> Len(s) = 0
           /\ Len(s) <= n => Newest(s, n) = s
           /\ \E k \in Nat : \A i \in 1..Len(Newest(s, n)) :
                 i + k \in 1..Len(s) /\ Newest(s, n)[i] = s[i + k]
<1> DEFINE m == IF Len(s) > n THEN Len(s) - n + 1 ELSE 1
<1>1. /\ Len(s) \in Nat /\ m \in 1..Len(s) + 1 /\ Len(s) - m + 1 <= n
      /\ Newest(s, n) = SubSeq(s, m, Len(s))
  BY DEF Newest
<1>2. /\ Newest(s, n) \in Seq(S)
      /\ Len(Newest(s, n)) = Len(s) - m + 1
      /\ \A i \in 1..(Len(s) - m + 1) : Newest(s, n)[i] = s[m + i - 1]
  <2>1. \A i \in m..Len(s) : s[i] \in S
    BY <1>1
  <2>2. m \in Int /\ Len(s) \in Int
    BY <1>1
  <2>3. /\ SubSeq(s, m, Len(s)) \in Seq(S)
        /\ Len(SubSeq(s, m, Len(s))) = IF m <= Len(s) THEN Len(s) - m + 1 ELSE 0
        /\ \A i \in 1..(Len(s) - m + 1) : SubSeq(s, m, Len(s))[i] = s[m + i - 1]
    <3> HIDE DEF m
    <3> QED
      BY <2>1, <2>2, SubSeqProperties
  <2> HIDE DEF m
  <2> QED
    BY <1>1, <2>3
<1>3. Len(s) <= n => Newest(s, n) = s
  <2> SUFFICES ASSUME Len(s) <= n PROVE Newest(s, n) = s
    OBVIOUS
  <2>0. m = 1
    BY <1>1
  <2>1. Newest(s, n) = SubSeq(s, 1, Len(s))
    BY <1>1, <2>0
  <2> QED
    BY <2>1, SubSeqFull
<1>4. ASSUME NEW i \in 1..Len(Newest(s, n))
      PROVE  i + (m - 1) \in 1..Len(s) /\ Newest(s, n)[i] = s[i + (m - 1)]
  <2> HIDE DEF m
  <2>1. i \in 1..(Len(s) - m + 1) /\ m + i - 1 = i + (m - 1)
    BY <1>1, <1>2
  <2> QED
    BY <1>1, <1>2, <2>1
<1>5. m - 1 \in Nat
  BY <1>1
<1>6. Len(Newest(s, n)) <= n /\ (Len(Newest(s, n)) = 0 <=> Len(s) = 0)
  BY <1>1, <1>2
<1> HIDE DEF m
<1> QED
  BY <1>2, <1>3, <1>4, <1>5, <1>6

LEMMA SnapshotIs ==
    ASSUME NEW list \in Seq(Turn)
    PROVE  /\ Snapshot(list) \in Seq(Turn) /\ Len(Snapshot(list)) <= MAX_TURNS
           /\ Snapshot(list) = <<>> <=> list = <<>>
           /\ \E k \in Nat : \A i \in DOMAIN Snapshot(list) :
                 i + k \in DOMAIN list /\ Snapshot(list)[i] = settle(list[i + k])
<1> DEFINE new == Newest(list, MAX_TURNS)
<1>1. /\ new \in Seq(Turn) /\ Len(new) <= MAX_TURNS
      /\ Len(new) = 0 <=> Len(list) = 0
      /\ \E k \in Nat : \A i \in 1..Len(new) : i + k \in 1..Len(list) /\ new[i] = list[i + k]
  BY NewestIs, LengthsAssumption
<1>2. Snapshot(list) = [i \in DOMAIN new |-> settle(new[i])]
  BY DEF Snapshot
<1> HIDE DEF new
<1>3. /\ Snapshot(list) = [i \in 1..Len(new) |-> settle(new[i])]
      /\ Len(new) \in Nat /\ \A i \in 1..Len(new) : settle(new[i]) \in Turn
  <2>1. DOMAIN new = 1..Len(new) /\ Len(new) \in Nat
    BY <1>1
  <2>2. \A i \in 1..Len(new) : new[i] \in Turn
    BY <1>1
  <2>3. \A i \in 1..Len(new) : settle(new[i]) \in Turn
    BY ONLY <2>2, SettleIs
  <2> QED
    BY <1>2, <2>1, <2>3
<1>4. /\ Snapshot(list) \in Seq(Turn) /\ Len(Snapshot(list)) = Len(new)
      /\ DOMAIN Snapshot(list) = 1..Len(new)
  BY <1>3
<1>5. Snapshot(list) = <<>> <=> list = <<>>
  BY <1>1, <1>4, EmptySeq
<1>6. DOMAIN list = 1..Len(list)
  OBVIOUS
<1>7. PICK k \in Nat : \A i \in 1..Len(new) : i + k \in 1..Len(list) /\ new[i] = list[i + k]
  BY <1>1
<1>8. \A i \in DOMAIN Snapshot(list) :
         i + k \in DOMAIN list /\ Snapshot(list)[i] = settle(list[i + k])
  BY <1>3, <1>4, <1>6, <1>7
<1> QED
  BY <1>1, <1>4, <1>5, <1>8

\* Saving a thread keeps what it is, with nothing streaming.
LEMMA SnapshotKeeps ==
    ASSUME NEW list, NEW e, Thread(list, e)
    PROVE  Thread(Snapshot(list), e) /\ Saved(Snapshot(list))
<1>1. list \in Seq(Turn) /\ DOMAIN list = 1..Len(list) /\ Len(list) \in Nat
  BY DEF Thread
<1>2. PICK k \in Nat : \A i \in DOMAIN Snapshot(list) :
         i + k \in DOMAIN list /\ Snapshot(list)[i] = settle(list[i + k])
  BY <1>1, SnapshotIs
<1>3. Snapshot(list) \in Seq(Turn) /\ Len(Snapshot(list)) <= MAX_TURNS
  BY <1>1, SnapshotIs
<1>4. \A i \in DOMAIN list : list[i] \in Turn
  BY <1>1
<1>5. ASSUME NEW i \in DOMAIN Snapshot(list)
      PROVE  /\ Snapshot(list)[i].era = e /\ ~Snapshot(list)[i].streaming
             /\ Snapshot(list)[i].id = list[i + k].id
             /\ Snapshot(list)[i].text = "part" /\ ~Snapshot(list)[i].redone
                => Snapshot(list)[i].stopped \/ Snapshot(list)[i].error
  <2> DEFINE t == list[i + k]
  <2>1. t \in Turn /\ Snapshot(list)[i] = settle(t) /\ t.era = e
    BY <1>2, <1>4 DEF Thread
  <2>2. t.text = "part" /\ ~t.streaming /\ ~t.redone => t.stopped \/ t.error
    BY <1>2 DEF Thread, Marked
  <2> HIDE DEF t
  <2>3. /\ settle(t).id = t.id /\ settle(t).era = t.era /\ settle(t).text = t.text
        /\ settle(t).streaming = FALSE /\ settle(t).redone = t.redone
        /\ settle(t).error = t.error /\ settle(t).stopped = (t.stopped \/ t.streaming)
    BY <2>1, SettleIs
  <2>4. settle(t).text = "part" /\ ~settle(t).redone => settle(t).stopped \/ settle(t).error
    BY ONLY <2>2, <2>3, Zenon
  <2>5. settle(t).id = t.id /\ settle(t).era = e /\ ~settle(t).streaming
    BY <2>1, <2>3
  <2> QED
    BY <2>1, <2>4, <2>5 DEF t
<1>6. Ascending(Snapshot(list))
  <2> SUFFICES ASSUME NEW i \in DOMAIN Snapshot(list), NEW j \in DOMAIN Snapshot(list), i < j
               PROVE  Snapshot(list)[i].id < Snapshot(list)[j].id
    BY DEF Ascending
  <2>1. i \in Nat /\ j \in Nat
    BY <1>3
  <2>2. i + k < j + k
    BY <2>1
  <2> QED
    BY <1>2, <1>5, <2>2 DEF Thread, Ascending
<1> QED
  BY <1>3, <1>5, <1>6 DEF Thread, Saved, Marked

\* A thread that was saved is saved, and loaded, as it is.
LEMMA SavedIsKept ==
    ASSUME NEW list \in Seq(Turn), Saved(list)
    PROVE  /\ Snapshot(list) = list
           /\ [i \in DOMAIN list |-> settle(list[i])] = list
<1>1. [i \in DOMAIN list |-> settle(list[i])] = [i \in DOMAIN list |-> list[i]]
  <2>1. \A i \in DOMAIN list : settle(list[i]) = list[i]
    <3> SUFFICES ASSUME NEW i \in DOMAIN list PROVE settle(list[i]) = list[i]
      OBVIOUS
    <3>1. list[i] \in Turn /\ ~list[i].streaming
      BY DEF Saved
    <3> QED
      BY ONLY <3>1, SettleIs
  <2> QED
    BY <2>1
<1>2. [i \in DOMAIN list |-> list[i]] = list
  OBVIOUS
<1>3. Newest(list, MAX_TURNS) = list
  BY NewestIs, LengthsAssumption DEF Saved
<1>4. Snapshot(list) = [i \in DOMAIN list |-> settle(list[i])]
  BY <1>3 DEF Snapshot
<1> QED
  BY <1>1, <1>2, <1>4

\* Turns may change as long as each keeps its name and its mark.
LEMMA ThreadChanges ==
    ASSUME NEW list, NEW e, Thread(list, e), NEW new,
           new = [i \in DOMAIN list |-> new[i]],
           \A i \in DOMAIN list :
               /\ new[i] \in Turn /\ new[i].id = list[i].id /\ new[i].era = list[i].era
               /\ new[i].text = "part" /\ ~new[i].streaming /\ ~new[i].redone
                  => new[i].stopped \/ new[i].error
    PROVE  Thread(new, e) /\ Len(new) = Len(list) /\ DOMAIN new = DOMAIN list
<1>1. DOMAIN list = 1..Len(list) /\ Len(list) \in Nat
  BY DEF Thread
<1>2. new \in Seq(Turn) /\ Len(new) = Len(list) /\ DOMAIN new = DOMAIN list
  BY <1>1
<1>3. Ascending(new)
  BY <1>2 DEF Thread, Ascending
<1>4. Marked(new)
  BY <1>2 DEF Marked
<1>5. \A i \in DOMAIN new : new[i].era = e
  BY <1>2 DEF Thread
<1> QED
  BY <1>2, <1>3, <1>4, <1>5 DEF Thread

-------------------------------------------------------------------------------
(***************************************************************************)
(* The invariant                                                           *)
(***************************************************************************)
Lists ==
    /\ Thread(turns, era) /\ Thread(pending, era) /\ Thread(stored, era)
    /\ Saved(pending) /\ Saved(stored)

Ids == seq \in Nat /\ era \in 0..MaxResets /\ \A i \in DOMAIN turns : turns[i].id <= seq

IsRequest(r) ==
    r = [turn |-> r.turn, aborted |-> r.aborted, done |-> r.done, history |-> r.history]

\* What a request in flight says about a turn of the thread.
Serves(r, t) ==
    t.id = r.turn => (r.aborted => t.stopped \/ t.redone) /\ (r.done => t.text # "part")

Requests ==
    /\ live = {} \/ \E r : live = {r}
    /\ \A r \in live : IsRequest(r) /\ run = r.turn
    /\ busy \in BOOLEAN /\ (busy <=> live # {})

\* Which turns stream, and which of them stop() would not mark.
Streams ==
    \A i \in DOMAIN turns :
        /\ turns[i].streaming <=> \E r \in live : r.turn = turns[i].id
        /\ turns[i].streaming /\ i < Len(turns) => turns[i].redone
        /\ \A r \in live : Serves(r, turns[i])

\* What is waiting to be written, or is written, is the thread on screen.
Copy ==
    ~full => IF pending = None THEN stored = Snapshot(turns) ELSE pending = Snapshot(turns)

ConvInv == Lists /\ Ids /\ Requests /\ Streams /\ Copy

LEMMA ConvInvInit == ConvInit => ConvInv
<1> SUFFICES ASSUME ConvInit PROVE ConvInv
  OBVIOUS
<1>1. turns = <<>> /\ pending = <<>> /\ stored = <<>> /\ era = 0 /\ seq = 0 /\ live = {} /\ busy = FALSE
  BY DEF ConvInit, None
<1>2. Snapshot(<<>>) = <<>>
  BY SnapshotIs, EmptySeq
<1>3. Lists
  BY <1>1, EmptyThread DEF Lists
<1>4. Ids /\ Requests /\ Streams
  <2>1. DOMAIN turns = {}
    BY <1>1
  <2>2. Ids
    BY <1>1, <2>1, BoundsAssumption DEF Ids
  <2>3. Requests
    BY <1>1 DEF Requests
  <2>4. Streams
    BY <2>1 DEF Streams
  <2> QED
    BY <2>2, <2>3, <2>4
<1>5. Copy
  BY <1>1, <1>2 DEF Copy, None
<1> QED
  BY <1>3, <1>4, <1>5 DEF ConvInv

\* The watcher keeps what is saved in step with the thread.
LEMMA WatchKeeps ==
    ASSUME Lists, Copy, era' = era, full' = full, Thread(turns', era),
           Watch(turns') \/ (turns' = turns /\ UNCHANGED session)
    PROVE  Lists' /\ Copy'
<1>1. CASE turns' = turns /\ UNCHANGED session
  BY <1>1 DEF Lists, Copy, session, Snapshot
<1>2. CASE Watch(turns') /\ turns' # <<>>
  <2>1. pending' = Snapshot(turns') /\ stored' = stored
    BY <1>2 DEF Watch, save
  <2>2. Snapshot(turns') # <<>>
    BY <1>2, SnapshotIs DEF Thread
  <2>3. Thread(pending', era) /\ Saved(pending')
    BY <2>1, SnapshotKeeps
  <2> QED
    BY <2>1, <2>2, <2>3 DEF Lists, Copy, None
<1>3. CASE Watch(turns') /\ turns' = <<>>
  <2>1. pending' = <<>> /\ stored' = <<>>
    BY <1>3 DEF Watch, clear, None
  <2>2. Snapshot(turns') = <<>>
    BY <1>3, SnapshotIs DEF Thread
  <2> QED
    BY <1>3, <2>1, <2>2, EmptyThread DEF Lists, Copy, None
<1> QED
  BY <1>1, <1>2, <1>3

LEMMA UpdateIs ==
    ASSUME NEW r, NEW fields, Update(r, fields)
    PROVE  /\ turns' = [i \in DOMAIN turns |->
                          IF turns[i].id = r.turn THEN Assign(turns[i], fields) ELSE turns[i]]
           /\ Watch(turns') \/ (turns' = turns /\ UNCHANGED session)
BY DEF Update

-------------------------------------------------------------------------------
(***************************************************************************)
(* The steps                                                               *)
(***************************************************************************)
LEMMA Asked == ASSUME ConvInv, ask PROVE ConvInv'
<1>1. /\ seq < MaxSeq /\ seq' = seq + 1 /\ turns' = Append(turns, newTurn)
      /\ Stream(turns', Len(turns')) /\ Watch(turns') /\ era' = era /\ full' = full /\ ~busy
  BY DEF ask
<1>2. /\ newTurn \in Turn /\ newTurn.id = seq + 1 /\ newTurn.era = era
      /\ newTurn.text = "none" /\ newTurn.streaming = TRUE
  BY <1>1, BoundsAssumption DEF newTurn, Turn, ConvInv, Ids
<1> DEFINE n == Len(turns)
<1>3. turns \in Seq(Turn) /\ n \in Nat /\ DOMAIN turns = 1..n
  BY DEF ConvInv, Lists, Thread
<1>4. /\ turns' \in Seq(Turn) /\ Len(turns') = n + 1 /\ DOMAIN turns' = 1..(n + 1)
      /\ turns'[n + 1] = newTurn /\ \A i \in 1..n : turns'[i] = turns[i]
  BY <1>1, <1>2, <1>3, AppendProperties
<1> HIDE DEF n
<1>5. Ascending(turns')
  <2> SUFFICES ASSUME NEW i \in 1..(n + 1), NEW j \in 1..(n + 1), i < j
               PROVE  turns'[i].id < turns'[j].id
    BY <1>4 DEF Ascending
  <2>1. i \in 1..n
    BY <1>3
  <2>2. CASE j \in 1..n
    BY <1>3, <1>4, <2>1, <2>2 DEF ConvInv, Lists, Thread, Ascending
  <2>3. CASE j = n + 1
    <3>1. turns[i].id <= seq /\ turns[i].id \in Nat /\ seq \in Nat
      BY <1>3, <2>1, TurnFields DEF ConvInv, Ids
    <3> QED
      BY <1>2, <1>4, <2>1, <2>3, <3>1
  <2> QED
    BY <1>3, <2>2, <2>3
<1>6. Marked(turns')
  BY <1>2, <1>3, <1>4 DEF ConvInv, Lists, Thread, Marked
<1>7. \A i \in DOMAIN turns' : turns'[i].era = era
  BY <1>2, <1>3, <1>4 DEF ConvInv, Lists, Thread
<1>8. Thread(turns', era)
  BY <1>4, <1>5, <1>6, <1>7 DEF Thread
<1>9. Lists' /\ Copy'
  BY <1>1, <1>8, WatchKeeps DEF ConvInv
<1>10. live = {} /\ \A i \in 1..n : ~turns[i].streaming
  BY <1>1, <1>3 DEF ConvInv, Requests, Streams
<1>11. PICK h : live' = {[turn |-> seq + 1, aborted |-> FALSE, done |-> FALSE, history |-> h]}
  <2> DEFINE before == threadBefore(turns', n + 1)
             request(id) == [turn |-> id, aborted |-> FALSE, done |-> FALSE, history |-> before]
  <2>1. Stream(turns', n + 1)
    BY ONLY <1>1, <1>4
  <2>2. live' = live \cup {request(turns'[n + 1].id)}
    BY ONLY <2>1 DEF Stream
  <2>3. turns'[n + 1].id = seq + 1
    BY ONLY <1>2, <1>4
  <2> HIDE DEF before
  <2>4. live' = {request(seq + 1)}
    BY ONLY <1>10, <2>2, <2>3
  <2> QED BY ONLY <2>4
<1>12. busy' = TRUE /\ run' = seq + 1
  BY <1>1, <1>2, <1>4 DEF Stream
<1>13. Requests'
  <2> DEFINE q == [turn |-> seq + 1, aborted |-> FALSE, done |-> FALSE, history |-> h]
  <2>1. IsRequest(q) /\ q.turn = seq + 1
    BY DEF IsRequest
  <2>2. live' = {q} /\ busy' = TRUE /\ run' = seq + 1
    BY <1>11, <1>12
  <2> HIDE DEF q
  <2> QED
    BY <2>1, <2>2 DEF Requests
<1>14. Ids'
  <2>1. \A i \in 1..n : turns[i].id <= seq /\ turns[i].id \in Nat
    BY <1>3, TurnFields DEF ConvInv, Ids
  <2>2. seq \in Nat /\ era \in 0..MaxResets
    BY DEF ConvInv, Ids
  <2>3. \A i \in 1..(n + 1) : turns'[i].id <= seq + 1
    BY <1>2, <1>3, <1>4, <2>1, <2>2
  <2> QED
    BY <1>1, <1>4, <2>2, <2>3 DEF Ids
<1>15. Streams'
  <2> SUFFICES ASSUME NEW i \in 1..(n + 1)
               PROVE  /\ turns'[i].streaming <=> \E r \in live' : r.turn = turns'[i].id
                      /\ turns'[i].streaming /\ i < n + 1 => turns'[i].redone
                      /\ \A r \in live' : Serves(r, turns'[i])
    BY <1>4 DEF Streams
  <2>1. \A r \in live' : r.turn = seq + 1 /\ r.aborted = FALSE /\ r.done = FALSE
    BY <1>11
  <2>2. CASE i = n + 1
    <3>1. \E r \in live' : r.turn = seq + 1
      BY <1>11
    <3> QED
      BY <1>2, <1>3, <1>4, <2>1, <2>2, <3>1 DEF Serves
  <2>3. CASE i \in 1..n
    <3>1. turns'[i] = turns[i] /\ turns[i].id # seq + 1
      BY <1>3, <1>4, <2>3, TurnFields DEF ConvInv, Ids
    <3> QED
      BY <1>10, <2>1, <2>3, <3>1 DEF Serves
  <2> QED
    BY <1>3, <2>2, <2>3
<1> QED
  BY <1>9, <1>13, <1>14, <1>15 DEF ConvInv

LEMMA Regenerated == ASSUME ConvInv, NEW i \in DOMAIN turns, regenerate(i) PROVE ConvInv'
<1> DEFINE new == [turns[i] EXCEPT !.text = "none", !.streaming = TRUE, !.stopped = FALSE,
                                   !.error = FALSE, !.redone = i < Len(turns)]
<1>1. /\ turns \in Seq(Turn) /\ turns[i] \in Turn /\ DOMAIN turns = 1..Len(turns)
      /\ Len(turns) \in Nat
  BY DEF ConvInv, Lists, Thread
<1>2. /\ turns' = [turns EXCEPT ![i].text = "none", ![i].streaming = TRUE, ![i].stopped = FALSE,
                                ![i].error = FALSE, ![i].redone = i < Len(turns)]
      /\ Stream(turns', i) /\ Watch(turns') /\ ~busy
      /\ seq' = seq /\ era' = era /\ full' = full
  BY DEF regenerate
<1>3. turns' = [turns EXCEPT ![i] = new]
  BY <1>1, <1>2
<1>4. /\ new \in Turn /\ new.id = turns[i].id /\ new.era = turns[i].era /\ new.text = "none"
      /\ new.streaming = TRUE /\ (new.redone <=> i < Len(turns))
  <2> DEFINE late == i < Len(turns)
  <2>1. late \in BOOLEAN
    OBVIOUS
  <2> HIDE DEF late
  <2>2. \A t \in Turn :
           LET n == [t EXCEPT !.text = "none", !.streaming = TRUE, !.stopped = FALSE,
                              !.error = FALSE, !.redone = late]
           IN /\ n \in Turn /\ n.id = t.id /\ n.era = t.era /\ n.text = "none"
              /\ n.streaming = TRUE /\ n.redone = late
    BY ONLY <2>1 DEF Turn
  <2>3. new = [turns[i] EXCEPT !.text = "none", !.streaming = TRUE, !.stopped = FALSE,
                               !.error = FALSE, !.redone = late]
    BY DEF late
  <2> HIDE DEF new
  <2>4. /\ new \in Turn /\ new.id = turns[i].id /\ new.era = turns[i].era /\ new.text = "none"
        /\ new.streaming = TRUE /\ new.redone = late
    BY <1>1, <2>2, <2>3
  <2> QED
    BY <2>4 DEF late
<1> HIDE DEF new
<1>5. /\ turns' = [j \in DOMAIN turns |-> turns'[j]]
      /\ turns'[i] = new /\ \A j \in DOMAIN turns : j # i => turns'[j] = turns[j]
  BY <1>1, <1>3
<1>6. Thread(turns', era) /\ Len(turns') = Len(turns) /\ DOMAIN turns' = DOMAIN turns
  <2>1. Thread(turns, era) /\ \A j \in DOMAIN turns : turns[j] \in Turn
    BY <1>1 DEF ConvInv, Lists
  <2>2. ASSUME NEW j \in DOMAIN turns
        PROVE  /\ turns'[j] \in Turn /\ turns'[j].id = turns[j].id /\ turns'[j].era = turns[j].era
               /\ turns'[j].text = "part" /\ ~turns'[j].streaming /\ ~turns'[j].redone
                  => turns'[j].stopped \/ turns'[j].error
    <3>1. CASE j = i
      BY <1>4, <1>5, <3>1
    <3>2. CASE j # i
      BY <1>5, <2>1, <3>2 DEF Thread, Marked
    <3> QED
      BY <3>1, <3>2
  <2> QED
    BY <1>5, <2>1, <2>2, ThreadChanges
<1>7. Lists' /\ Copy'
  BY <1>2, <1>6, WatchKeeps DEF ConvInv
<1>8. live = {} /\ \A j \in DOMAIN turns : ~turns[j].streaming
  BY <1>2 DEF ConvInv, Requests, Streams
<1>9. PICK h : live' = {[turn |-> turns[i].id, aborted |-> FALSE, done |-> FALSE, history |-> h]}
  <2>1. live' = {[turn |-> turns'[i].id, aborted |-> FALSE, done |-> FALSE,
                  history |-> threadBefore(turns', i)]}
    BY <1>2, <1>8 DEF Stream
  <2>2. turns'[i].id = turns[i].id
    BY <1>4, <1>5
  <2> QED
    BY <2>1, <2>2
<1>10. Requests'
  <2> DEFINE q == [turn |-> turns[i].id, aborted |-> FALSE, done |-> FALSE, history |-> h]
  <2>1. IsRequest(q) /\ q.turn = turns[i].id
    BY DEF IsRequest
  <2>2. live' = {q} /\ busy' = TRUE /\ run' = turns[i].id
    BY <1>2, <1>4, <1>5, <1>9 DEF Stream
  <2> HIDE DEF q
  <2> QED
    BY <2>1, <2>2 DEF Requests
<1>11. Ids'
  <2>1. \A j \in DOMAIN turns : turns'[j].id = turns[j].id
    BY <1>4, <1>5
  <2> QED
    BY <1>2, <1>6, <2>1 DEF ConvInv, Ids
<1>12. Streams'
  <2> SUFFICES ASSUME NEW j \in DOMAIN turns
               PROVE  /\ turns'[j].streaming <=> \E r \in live' : r.turn = turns'[j].id
                      /\ turns'[j].streaming /\ j < Len(turns) => turns'[j].redone
                      /\ \A r \in live' : Serves(r, turns'[j])
    BY <1>6 DEF Streams
  <2>1. \A r \in live' : r.turn = turns[i].id /\ r.aborted = FALSE /\ r.done = FALSE
    BY <1>9
  <2>2. CASE j = i
    <3>1. \E r \in live' : r.turn = turns[i].id
      BY <1>9
    <3> QED
      BY <1>4, <1>5, <2>1, <2>2, <3>1 DEF Serves
  <2>3. CASE j # i
    <3>1. turns'[j] = turns[j] /\ turns[j].id # turns[i].id
      <4>1. turns[j].id \in Nat /\ turns[i].id \in Nat /\ (i < j \/ j < i)
        BY <1>1, <2>3, TurnFields
      <4>2. i < j => turns[i].id < turns[j].id
        BY DEF ConvInv, Lists, Thread, Ascending
      <4>3. j < i => turns[j].id < turns[i].id
        BY DEF ConvInv, Lists, Thread, Ascending
      <4> QED
        BY <1>5, <2>3, <4>1, <4>2, <4>3
    <3> QED
      BY <1>8, <2>1, <3>1 DEF Serves
  <2> QED
    BY <2>2, <2>3
<1> QED
  BY <1>7, <1>10, <1>11, <1>12 DEF ConvInv

LEMMA RequestWith ==
    ASSUME NEW r, IsRequest(r), NEW x
    PROVE  /\ [r EXCEPT !.aborted = x]
                = [turn |-> r.turn, aborted |-> x, done |-> r.done, history |-> r.history]
           /\ [r EXCEPT !.done = x]
                = [turn |-> r.turn, aborted |-> r.aborted, done |-> x, history |-> r.history]
<1>1. ASSUME NEW a, NEW b, NEW c, NEW d
      PROVE  [[turn |-> a, aborted |-> b, done |-> c, history |-> d] EXCEPT !.aborted = x]
                = [turn |-> a, aborted |-> x, done |-> c, history |-> d]
  OBVIOUS
<1>2. ASSUME NEW a, NEW b, NEW c, NEW d
      PROVE  [[turn |-> a, aborted |-> b, done |-> c, history |-> d] EXCEPT !.done = x]
                = [turn |-> a, aborted |-> b, done |-> x, history |-> d]
  OBVIOUS
<1> DEFINE s == [turn |-> r.turn, aborted |-> r.aborted, done |-> r.done, history |-> r.history]
<1>3. /\ [s EXCEPT !.aborted = x]
            = [turn |-> r.turn, aborted |-> x, done |-> r.done, history |-> r.history]
      /\ [s EXCEPT !.done = x]
            = [turn |-> r.turn, aborted |-> r.aborted, done |-> x, history |-> r.history]
  BY <1>1, <1>2
<1>4. r = s
  BY DEF IsRequest
<1> HIDE DEF s
<1>5. /\ [r EXCEPT !.aborted = x] = [s EXCEPT !.aborted = x]
      /\ [r EXCEPT !.done = x] = [s EXCEPT !.done = x]
  BY ONLY <1>4, Zenon
<1> QED
  BY <1>3, <1>5

\* Nothing is in flight, or one request that goes by run.
LEMMA OneRequest == ASSUME Requests, NEW r \in live PROVE live = {r} /\ IsRequest(r) /\ run = r.turn
BY DEF Requests

\* The request in flight may change, as long as it is the same turn's.
LEMMA RequestsStay ==
    ASSUME Requests, NEW r \in live, NEW q, IsRequest(q), q.turn = r.turn,
           live' = {q}, busy' = busy, run' = run
    PROVE  Requests'
BY OneRequest DEF Requests

LEMMA RequestsEnd == ASSUME live' = {}, busy' = FALSE PROVE Requests'
BY DEF Requests

LEMMA AbortIs ==
    ASSUME Requests
    PROVE  /\ live = {} => Abort = {}
           /\ \A r \in live : \E q : /\ Abort = {q} /\ IsRequest(q) /\ q.turn = r.turn
                                    /\ q.aborted = TRUE /\ q.done = r.done
<1>1. live = {} => Abort = {}
  BY DEF Abort
<1>2. ASSUME NEW r \in live
      PROVE  \E q : /\ Abort = {q} /\ IsRequest(q) /\ q.turn = r.turn
                    /\ q.aborted = TRUE /\ q.done = r.done
  <2> DEFINE q == [turn |-> r.turn, aborted |-> TRUE, done |-> r.done, history |-> r.history]
  <2>1. live = {r} /\ IsRequest(r) /\ run = r.turn
    BY OneRequest
  <2>2. [r EXCEPT !.aborted = TRUE] = q
    BY <2>1, RequestWith
  <2>3. Abort = {q}
    BY <2>1, <2>2 DEF Abort
  <2>4. IsRequest(q) /\ q.turn = r.turn /\ q.aborted = TRUE /\ q.done = r.done
    BY DEF IsRequest
  <2> HIDE DEF q
  <2> QED
    BY <2>3, <2>4
<1> QED
  BY <1>1, <1>2

LEMMA Stopped == ASSUME ConvInv, stop PROVE ConvInv'
<1> DEFINE n == Len(turns)
<1>1. /\ live' = Abort /\ busy' = busy /\ run' = run /\ seq' = seq /\ era' = era /\ full' = full
      /\ turns' = (IF turns # <<>> /\ turns[n].streaming
                   THEN [turns EXCEPT ![n].stopped = TRUE] ELSE turns)
      /\ Watch(turns') \/ (turns' = turns /\ UNCHANGED session)
  BY DEF stop
<1>2. /\ turns \in Seq(Turn) /\ n \in Nat /\ DOMAIN turns = 1..n
      /\ \A i \in 1..n : turns[i] \in Turn
  BY DEF ConvInv, Lists, Thread
<1> HIDE DEF n
<1>3. /\ turns' = [i \in 1..n |-> turns'[i]]
      /\ \A i \in 1..n : turns'[i] = IF i = n /\ turns[n].streaming
                                     THEN [turns[i] EXCEPT !.stopped = TRUE] ELSE turns[i]
  <2>1. CASE turns # <<>> /\ turns[n].streaming
    BY <1>1, <1>2, <2>1
  <2>2. CASE turns # <<>> /\ ~turns[n].streaming
    BY <1>1, <1>2, <2>2
  <2>3. CASE turns = <<>>
    BY <1>1, <1>2, <2>3 DEF n
  <2> QED
    BY <2>1, <2>2, <2>3
<1>4. ASSUME NEW i \in 1..n
      PROVE  /\ turns'[i] \in Turn /\ turns'[i].id = turns[i].id /\ turns'[i].era = turns[i].era
             /\ turns'[i].text = turns[i].text /\ turns'[i].streaming = turns[i].streaming
             /\ turns'[i].redone = turns[i].redone /\ turns'[i].error = turns[i].error
             /\ turns[i].stopped \/ (i = n /\ turns[n].streaming) => turns'[i].stopped
  <2>1. turns[i] \in Turn
    BY <1>2
  <2>2. CASE i = n /\ turns[n].streaming
    <3>1. turns'[i] = [turns[i] EXCEPT !.stopped = TRUE]
      BY <1>3, <2>2
    <3> QED
      BY <2>1, <3>1 DEF Turn
  <2>3. CASE ~(i = n /\ turns[n].streaming)
    BY <1>3, <2>1, <2>3
  <2> QED
    BY <2>2, <2>3
<1>5. Thread(turns', era) /\ Len(turns') = n /\ DOMAIN turns' = 1..n
  <2>1. Thread(turns, era) /\ Marked(turns)
    BY DEF ConvInv, Lists, Thread
  <2>2. \A i \in 1..n :
           turns'[i].text = "part" /\ ~turns'[i].streaming /\ ~turns'[i].redone
           => turns'[i].stopped \/ turns'[i].error
    BY <1>2, <1>4, <2>1 DEF Marked
  <2> QED
    BY <1>2, <1>3, <1>4, <2>1, <2>2, ThreadChanges DEF n
<1>6. Lists' /\ Copy'
  BY <1>1, <1>5, WatchKeeps DEF ConvInv
<1>7. Ids'
  BY <1>1, <1>2, <1>4, <1>5 DEF ConvInv, Ids
<1>8. CASE live = {}
  <2>1. live' = {}
    BY <1>1, <1>8, AbortIs DEF ConvInv
  <2>2. Requests'
    BY <1>1, <1>8, <2>1 DEF ConvInv, Requests
  <2>3. Streams'
    BY <1>2, <1>4, <1>5, <1>8, <2>1 DEF ConvInv, Streams, n
  <2> QED
    BY <1>6, <1>7, <2>2, <2>3 DEF ConvInv
<1>9. ASSUME NEW r \in live PROVE Requests' /\ Streams'
  <2>1. live = {r}
    BY OneRequest DEF ConvInv
  <2>2. PICK q : /\ live' = {q} /\ IsRequest(q) /\ q.turn = r.turn
                 /\ q.aborted = TRUE /\ q.done = r.done
    BY <1>1, AbortIs DEF ConvInv
  <2>3. Requests'
    BY <1>1, <2>2, RequestsStay DEF ConvInv
  <2>4. ASSUME NEW i \in 1..n
        PROVE  /\ turns'[i].streaming <=> \E p \in live' : p.turn = turns'[i].id
               /\ turns'[i].streaming /\ i < n => turns'[i].redone
               /\ \A p \in live' : Serves(p, turns'[i])
    <3>1. /\ turns[i].streaming <=> r.turn = turns[i].id
          /\ turns[i].streaming /\ i < n => turns[i].redone
          /\ Serves(r, turns[i])
      BY <1>2, <2>1 DEF ConvInv, Streams, n
    <3>2. turns[i].id = r.turn => turns'[i].stopped \/ turns'[i].redone
      BY <1>2, <1>4, <3>1
    <3>3. turns[i].id = r.turn /\ q.done => turns'[i].text # "part"
      BY <1>4, <2>2, <3>1 DEF Serves
    <3>4. Serves(q, turns'[i])
      BY <1>4, <2>2, <3>2, <3>3 DEF Serves
    <3> QED
      BY <1>4, <2>2, <3>1, <3>4
  <2> QED
    BY <1>5, <2>3, <2>4 DEF Streams
<1> QED
  BY <1>6, <1>7, <1>8, <1>9 DEF ConvInv

LEMMA Reset == ASSUME ConvInv, reset PROVE ConvInv'
<1>1. /\ turns' = <<>> /\ pending' = <<>> /\ stored' = <<>> /\ era' = era + 1 /\ era < MaxResets
      /\ live' = Abort /\ busy' = busy /\ run' = run /\ seq' = seq
  BY DEF reset, clear, None
<1>2. Lists'
  BY <1>1, EmptyThread DEF Lists
<1>3. Ids'
  <2>1. DOMAIN turns' = {} /\ seq \in Nat /\ era' \in 0..MaxResets
    BY <1>1, BoundsAssumption DEF ConvInv, Ids
  <2> QED
    BY <1>1, <2>1 DEF Ids
<1>4. Copy'
  BY <1>1, SnapshotIs, EmptySeq DEF Copy, None
<1>5. Streams'
  BY <1>1 DEF Streams
<1>6. Requests'
  <2>1. CASE live = {}
    BY <1>1, <2>1, AbortIs DEF ConvInv, Requests
  <2>2. ASSUME NEW r \in live PROVE Requests'
    BY <1>1, AbortIs, RequestsStay DEF ConvInv
  <2> QED
    BY <2>1, <2>2
<1> QED
  BY <1>2, <1>3, <1>4, <1>5, <1>6 DEF ConvInv

\* What a stream brings goes to its turn alone.
LEMMA Updated ==
    ASSUME ConvInv, NEW r \in live, NEW fields, Update(r, fields),
           seq' = seq, era' = era, full' = full,
           \A t \in Turn : LET n == Assign(t, fields)
                           IN n \in Turn /\ n.id = t.id /\ n.era = t.era /\ n.redone = t.redone,
           \A i \in DOMAIN turns :
               LET n == Assign(turns[i], fields)
               IN turns[i].id = r.turn /\ n.text = "part" /\ ~n.streaming /\ ~n.redone
                  => n.stopped \/ n.error
    PROVE  /\ Lists' /\ Copy' /\ Ids'
           /\ DOMAIN turns' = DOMAIN turns /\ Len(turns') = Len(turns)
           /\ \A i \in DOMAIN turns :
                 /\ turns'[i].id = turns[i].id /\ turns'[i].redone = turns[i].redone
                 /\ turns'[i] = IF turns[i].id = r.turn THEN Assign(turns[i], fields) ELSE turns[i]
<1>1. /\ turns' = [i \in DOMAIN turns |->
                    IF turns[i].id = r.turn THEN Assign(turns[i], fields) ELSE turns[i]]
      /\ Watch(turns') \/ (turns' = turns /\ UNCHANGED session)
  BY UpdateIs
<1>2. /\ turns' = [i \in DOMAIN turns |-> turns'[i]]
      /\ \A i \in DOMAIN turns :
            turns'[i] = IF turns[i].id = r.turn THEN Assign(turns[i], fields) ELSE turns[i]
  BY <1>1
<1>3. Thread(turns, era) /\ Marked(turns) /\ \A i \in DOMAIN turns : turns[i] \in Turn
  BY DEF ConvInv, Lists, Thread
<1>4. ASSUME NEW i \in DOMAIN turns
      PROVE  /\ turns'[i] \in Turn /\ turns'[i].id = turns[i].id /\ turns'[i].era = turns[i].era
             /\ turns'[i].redone = turns[i].redone
             /\ turns'[i].text = "part" /\ ~turns'[i].streaming /\ ~turns'[i].redone
                => turns'[i].stopped \/ turns'[i].error
  <2>1. turns[i] \in Turn
    BY <1>3
  <2>2. CASE turns[i].id = r.turn
    <3>1. turns'[i] = Assign(turns[i], fields)
      BY <1>2, <2>2
    <3> QED
      BY <2>1, <2>2, <3>1
  <2>3. CASE turns[i].id # r.turn
    <3>1. turns'[i] = turns[i]
      BY <1>2, <2>3
    <3> QED
      BY <1>3, <2>1, <3>1 DEF Marked
  <2> QED
    BY <2>2, <2>3
<1>5. Thread(turns', era) /\ Len(turns') = Len(turns) /\ DOMAIN turns' = DOMAIN turns
  BY <1>2, <1>3, <1>4, ThreadChanges
<1>6. Lists' /\ Copy'
  BY <1>1, <1>5, WatchKeeps DEF ConvInv
<1>7. Ids'
  BY <1>4, <1>5 DEF ConvInv, Ids
<1> QED
  BY <1>2, <1>4, <1>5, <1>6, <1>7

LEMMA Framed == ASSUME ConvInv, NEW r \in live, Token(r) \/ Done(r) PROVE ConvInv'
<1>1. PICK x \in {"part", "whole"} :
         /\ Update(r, [text |-> x]) /\ ~r.aborted
         /\ \/ x = "part" /\ ~r.done /\ live' = live
            \/ x = "whole" /\ live' = (live \ {r}) \cup {[r EXCEPT !.done = TRUE]}
         /\ seq' = seq /\ era' = era /\ full' = full /\ busy' = busy /\ run' = run
  BY DEF Token, Done
<1> DEFINE fields == [text |-> x]
<1>2. \A t \in Turn :
         LET n == Assign(t, fields)
         IN /\ n \in Turn /\ n.id = t.id /\ n.era = t.era /\ n.redone = t.redone
            /\ n.streaming = t.streaming /\ n.text = x
  <2>1. ASSUME NEW t \in Turn
        PROVE  LET n == [t EXCEPT !.text = x]
               IN /\ n \in Turn /\ n.id = t.id /\ n.era = t.era /\ n.redone = t.redone
                  /\ n.streaming = t.streaming /\ n.text = x
    BY DEF Turn
  <2>2. \A t \in Turn : Assign(t, fields) = [t EXCEPT !.text = x]
    BY AssignIs
  <2> HIDE DEF fields
  <2> QED
    BY <2>1, <2>2
<1> HIDE DEF fields
<1>3. live = {r} /\ IsRequest(r) /\ \A i \in DOMAIN turns : turns[i] \in Turn
  BY OneRequest DEF ConvInv, Lists, Thread
<1>4. \A i \in DOMAIN turns : turns[i].streaming <=> r.turn = turns[i].id
  BY <1>3 DEF ConvInv, Streams
<1>5. /\ Lists' /\ Copy' /\ Ids'
      /\ DOMAIN turns' = DOMAIN turns /\ Len(turns') = Len(turns)
      /\ \A i \in DOMAIN turns :
            /\ turns'[i].id = turns[i].id /\ turns'[i].redone = turns[i].redone
            /\ turns'[i] = IF turns[i].id = r.turn THEN Assign(turns[i], fields) ELSE turns[i]
  <2>1. Update(r, fields)
    BY <1>1 DEF fields
  <2>2. \A i \in DOMAIN turns :
           turns[i].id = r.turn => Assign(turns[i], fields).streaming
    BY <1>2, <1>3, <1>4
  <2> QED
    BY <1>1, <1>2, <2>1, <2>2, Updated
<1>6. PICK q : /\ live' = {q} /\ IsRequest(q) /\ q.turn = r.turn
               /\ ~q.aborted /\ (q.done => x = "whole")
  <2>1. CASE x = "part"
    BY <1>1, <1>3, <2>1
  <2>2. CASE x = "whole"
    <3> DEFINE p == [turn |-> r.turn, aborted |-> r.aborted, done |-> TRUE, history |-> r.history]
    <3>4. [r EXCEPT !.done = TRUE] = p
      BY <1>3, RequestWith
    <3>5. live' = {p}
      BY <1>1, <1>3, <2>2, <3>4
    <3>6. IsRequest(p) /\ p.turn = r.turn /\ p.aborted = r.aborted
      BY DEF IsRequest
    <3> HIDE DEF p
    <3> QED
      BY <1>1, <2>2, <3>5, <3>6
  <2> QED
    BY <2>1, <2>2
<1>7. Requests'
  BY <1>1, <1>6, RequestsStay DEF ConvInv
<1>8. ASSUME NEW i \in DOMAIN turns
      PROVE  /\ turns'[i].streaming = turns[i].streaming
             /\ turns[i].id = r.turn => turns'[i].text = x
  BY <1>2, <1>3, <1>5
<1>9. Streams'
  <2> SUFFICES ASSUME NEW i \in DOMAIN turns
               PROVE  /\ turns'[i].streaming <=> \E p \in live' : p.turn = turns'[i].id
                      /\ turns'[i].streaming /\ i < Len(turns) => turns'[i].redone
                      /\ \A p \in live' : Serves(p, turns'[i])
    BY <1>5 DEF Streams
  <2>1. turns'[i].streaming /\ i < Len(turns) => turns'[i].redone
    BY <1>5, <1>8 DEF ConvInv, Streams
  <2>2. turns'[i].streaming <=> q.turn = turns'[i].id
    BY <1>4, <1>5, <1>6, <1>8
  <2>3. Serves(q, turns'[i])
    BY <1>5, <1>6, <1>8 DEF Serves
  <2> QED
    BY <1>6, <2>1, <2>2, <2>3
<1> QED
  BY <1>5, <1>7, <1>9 DEF ConvInv

LEMMA Ended == ASSUME ConvInv, NEW r \in live, Resolve(r) \/ Reject(r) PROVE ConvInv'
<1>1. PICK fields :
         /\ Update(r, fields)
         /\ \/ fields = [streaming |-> FALSE] /\ (r.aborted \/ r.done)
            \/ fields = [streaming |-> FALSE, error |-> TRUE]
         /\ live' = live \ {r} /\ busy' = FALSE
         /\ seq' = seq /\ era' = era /\ full' = full
  BY DEF Resolve, Reject
<1>2. live = {r} /\ \A i \in DOMAIN turns : turns[i] \in Turn
  BY OneRequest DEF ConvInv, Lists, Thread
<1>3. \A t \in Turn :
         LET n == Assign(t, fields)
         IN /\ n \in Turn /\ n.id = t.id /\ n.era = t.era /\ n.redone = t.redone
            /\ n.streaming = FALSE /\ n.text = t.text /\ n.stopped = t.stopped
            /\ n.error \/ r.aborted \/ r.done
  <2>1. CASE fields = [streaming |-> FALSE] /\ (r.aborted \/ r.done)
    <3>1. ASSUME NEW t \in Turn
          PROVE  LET n == [t EXCEPT !.streaming = FALSE]
                 IN /\ n \in Turn /\ n.id = t.id /\ n.era = t.era /\ n.redone = t.redone
                    /\ n.streaming = FALSE /\ n.text = t.text /\ n.stopped = t.stopped
      BY DEF Turn
    <3>2. \A t \in Turn : Assign(t, fields) = [t EXCEPT !.streaming = FALSE]
      BY <2>1, AssignIs
    <3> QED
      BY <2>1, <3>1, <3>2
  <2>2. CASE fields = [streaming |-> FALSE, error |-> TRUE]
    <3>1. ASSUME NEW t \in Turn
          PROVE  LET n == [t EXCEPT !.streaming = FALSE, !.error = TRUE]
                 IN /\ n \in Turn /\ n.id = t.id /\ n.era = t.era /\ n.redone = t.redone
                    /\ n.streaming = FALSE /\ n.text = t.text /\ n.stopped = t.stopped
                    /\ n.error = TRUE
      BY DEF Turn
    <3>2. \A t \in Turn : Assign(t, fields) = [t EXCEPT !.streaming = FALSE, !.error = TRUE]
      BY <2>2, AssignIs
    <3> QED
      BY <3>1, <3>2
  <2> QED
    BY <1>1, <2>1, <2>2
<1>4. ASSUME NEW i \in DOMAIN turns
      PROVE  LET n == Assign(turns[i], fields)
             IN turns[i].id = r.turn /\ n.text = "part" /\ ~n.streaming /\ ~n.redone
                => n.stopped \/ n.error
  <2>1. Serves(r, turns[i])
    BY DEF ConvInv, Streams
  <2> QED
    BY <1>2, <1>3, <2>1 DEF Serves
<1>5. /\ Lists' /\ Copy' /\ Ids'
      /\ DOMAIN turns' = DOMAIN turns /\ Len(turns') = Len(turns)
      /\ \A i \in DOMAIN turns :
            turns'[i] = IF turns[i].id = r.turn THEN Assign(turns[i], fields) ELSE turns[i]
  <2>1. Update(r, fields) /\ seq' = seq /\ era' = era /\ full' = full
    BY <1>1
  <2>2. \A t \in Turn : LET n == Assign(t, fields)
                        IN n \in Turn /\ n.id = t.id /\ n.era = t.era /\ n.redone = t.redone
    BY <1>3
  <2> QED
    BY <1>4, <2>1, <2>2, Updated
<1>6. live' = {}
  BY <1>1, <1>2
<1>7. Requests'
  BY <1>1, <1>6, RequestsEnd
<1>8. ASSUME NEW i \in DOMAIN turns PROVE turns'[i].streaming = FALSE
  <2>1. turns[i].streaming \in BOOLEAN
    BY <1>2, TurnFields
  <2>2. turns[i].streaming <=> r.turn = turns[i].id
    BY <1>2 DEF ConvInv, Streams
  <2>3. CASE turns[i].id = r.turn
    BY <1>2, <1>3, <1>5, <2>3
  <2>4. CASE turns[i].id # r.turn
    BY <1>5, <2>1, <2>2, <2>4
  <2> QED
    BY <2>3, <2>4
<1>9. Streams'
  BY <1>5, <1>6, <1>8 DEF Streams
<1> QED
  BY <1>5, <1>7, <1>9 DEF ConvInv

\* The timer, the browser, and a step that changes nothing but the copy.
LEMMA Flushed ==
    ASSUME ConvInv, UNCHANGED <<memory, full, era>>, flush \/ UNCHANGED session
    PROVE  ConvInv'
<1>1. /\ turns' = turns /\ seq' = seq /\ busy' = busy /\ live' = live /\ run' = run
      /\ full' = full /\ era' = era /\ pending' = pending
      /\ stored' = stored \/ (stored' = pending /\ pending # None)
      /\ ~full /\ pending # None => stored' = pending \/ UNCHANGED session
  BY DEF memory, flush, session
<1>2. Lists'
  BY <1>1 DEF ConvInv, Lists
<1>3. Copy'
  <2>1. CASE flush
    BY <1>1, <2>1 DEF ConvInv, Copy, flush, Snapshot
  <2>2. CASE UNCHANGED session
    BY <1>1, <2>2 DEF ConvInv, Copy, session, Snapshot
  <2> QED
    BY <2>1, <2>2
<1>4. Ids' /\ Requests' /\ Streams'
  BY <1>1 DEF ConvInv, Ids, Requests, Streams
<1> QED
  BY <1>2, <1>3, <1>4 DEF ConvInv

\* The ids of a thread end with the greatest, so a page loaded anew goes on
\* above all of them.
LEMMA LastIdIsGreatest ==
    ASSUME NEW list, NEW e, Thread(list, e), {list[i].id : i \in DOMAIN list} # {}
    PROVE  LET S == {list[i].id : i \in DOMAIN list} IN \E g \in S : \A m \in S : m <= g
<1> DEFINE n == Len(list)
<1>1. /\ DOMAIN list = 1..n /\ n \in Nat
      /\ \A i \in DOMAIN list : list[i].id \in Nat
  <2>1. list \in Seq(Turn)
    BY DEF Thread
  <2>2. \A i \in DOMAIN list : list[i] \in Turn
    BY <2>1
  <2> QED
    BY <2>1, <2>2, TurnFields
<1>2. n \in DOMAIN list
  BY <1>1
<1>3. \A i \in DOMAIN list : list[i].id <= list[n].id
  <2> SUFFICES ASSUME NEW i \in DOMAIN list PROVE list[i].id <= list[n].id
    OBVIOUS
  <2>1. i = n \/ i < n
    BY <1>1
  <2>2. i < n => list[i].id < list[n].id
    BY <1>2 DEF Thread, Ascending
  <2> QED
    BY <1>1, <1>2, <2>1, <2>2
<1> QED BY <1>2, <1>3

LEMMA GreatestId ==
    ASSUME NEW list, NEW e, Thread(list, e)
    PROVE  LET g == Greatest({list[i].id : i \in DOMAIN list})
           IN g \in Nat /\ \A i \in DOMAIN list : list[i].id <= g
<1> DEFINE S == {list[i].id : i \in DOMAIN list}
<1>1. S \subseteq Nat
  <2>1. list \in Seq(Turn)
    BY DEF Thread
  <2>2. \A i \in DOMAIN list : list[i] \in Turn
    BY <2>1
  <2> QED
    BY <2>2, TurnFields
<1>2. CASE S = {}
  BY <1>2 DEF Greatest
<1>3. CASE S # {}
  <2>1. \E g \in S : \A m \in S : m <= g
    BY <1>3, LastIdIsGreatest
  <2>2. Greatest(S) = CHOOSE g \in S : \A m \in S : m <= g
    BY <1>3 DEF Greatest
  <2> HIDE DEF S
  <2>3. Greatest(S) \in S /\ \A m \in S : m <= Greatest(S)
    BY <2>1, <2>2
  <2> USE DEF S
  <2> QED
    BY <1>1, <2>3
<1> QED
  BY <1>2, <1>3

LEMMA Loaded == ASSUME ConvInv, Load PROVE ConvInv'
<1>1. /\ turns' = [i \in DOMAIN stored |-> settle(stored[i])]
      /\ seq' = Greatest({stored[i].id : i \in DOMAIN stored})
      /\ busy' = FALSE /\ live' = {} /\ pending' = None /\ stored' = stored
      /\ full' = full /\ era' = era
  BY DEF Load
<1>2. Thread(stored, era) /\ Saved(stored) /\ stored \in Seq(Turn)
  BY DEF ConvInv, Lists, Thread
<1>3. turns' = stored /\ Snapshot(stored) = stored
  BY <1>1, <1>2, SavedIsKept
<1>4. Lists'
  BY <1>1, <1>2, <1>3, EmptyThread DEF Lists, None
<1>5. Copy'
  BY <1>1, <1>3 DEF Copy
<1>6. Ids'
  BY <1>1, <1>2, <1>3, GreatestId DEF Ids, ConvInv
<1>7. Requests'
  BY <1>1, RequestsEnd
<1>8. Streams'
  BY <1>1, <1>2, <1>3 DEF Streams, Saved
<1> QED
  BY <1>4, <1>5, <1>6, <1>7, <1>8 DEF ConvInv

LEMMA ConvInvStep == ConvInv /\ [ConvNext]_convVars => ConvInv'
<1> SUFFICES ASSUME ConvInv, [ConvNext]_convVars PROVE ConvInv'
  OBVIOUS
<1>1. CASE ask
  BY <1>1, Asked
<1>2. CASE \E i \in DOMAIN turns : regenerate(i)
  BY <1>2, Regenerated
<1>3. CASE stop
  BY <1>3, Stopped
<1>4. CASE reset
  BY <1>4, Reset
<1>5. CASE \E r \in live : Frame(r) \/ Ends(r)
  BY <1>5, Framed, Ended DEF Frame, Ends
<1>6. CASE Fire \/ Hide \/ Show
  BY <1>6, Flushed DEF Fire, Hide, Show
<1>7. CASE Load
  BY <1>7, Loaded
<1>8. CASE UNCHANGED convVars
  BY <1>8, Flushed DEF convVars, memory, session
<1> QED
  BY <1>1, <1>2, <1>3, <1>4, <1>5, <1>6, <1>7, <1>8 DEF ConvNext

LEMMA ConvInvHolds == ConvSpec => []ConvInv
<1>1. ConvInv /\ [ConvNext]_convVars => ConvInv'
  BY ConvInvStep
<1> QED
  BY <1>1, ConvInvInit, PTL DEF ConvSpec

-------------------------------------------------------------------------------
(***************************************************************************)
(* The theorems                                                            *)
(***************************************************************************)
\* However often a reader asks, stops, resets, asks again and reloads, at most
\* one stream is in flight, stop() knows it, busy says so, and the turn that
\* shows a spinner is the one it answers (conversation.js stream, stop, reset).
THEOREM OneStreamCorrect == ConvSpec => []OneStream
<1>1. ConvInv => OneStream
  <2> SUFFICES ASSUME ConvInv PROVE OneStream
    OBVIOUS
  <2>1. Cardinality(live) <= 1
    BY FS_EmptySet, FS_Singleton DEF ConvInv, Requests
  <2>2. (busy <=> live # {}) /\ \A r \in live : run = r.turn
    BY DEF ConvInv, Requests
  <2>3. \A i \in DOMAIN turns :
           turns[i].streaming <=> \E r \in live : r.turn = turns[i].id
    BY DEF ConvInv, Streams
  <2> QED
    BY <2>1, <2>2, <2>3 DEF OneStream
<1> QED
  BY <1>1, ConvInvHolds, PTL

\* No turn from before the last reset is shown, waits to be written or is
\* stored, for any number of resets, of turns and of reloads (conversation.js
\* reset, session.js clear).
THEOREM ResetForgetsCorrect == ConvSpec => []ResetForgets
<1>1. ConvInv => ResetForgets
  BY DEF ConvInv, Lists, Thread, ResetForgets
<1> QED
  BY <1>1, ConvInvHolds, PTL

\* An answer cut short is marked wherever a copy of it is, but for the one the
\* property excepts (conversation.js:72-75, session.js:97-101).
THEOREM HalfIsMarkedCorrect == ConvSpec => []HalfIsMarked
<1>1. ConvInv => HalfIsMarked
  BY DEF ConvInv, Lists, Thread, Marked, HalfIsMarked
<1> QED
  BY <1>1, ConvInvHolds, PTL

\* A page that is hidden leaves in storage what was on screen, whether the
\* debounce timer was set or had long fired (session.js:69-71 flush).
THEOREM HideKeepsTheThreadCorrect == ConvSpec => HideKeepsTheThread
<1>1. ASSUME ConvInv, [ConvNext]_convVars, shown, ~shown', ~full
      PROVE  stored' = Snapshot(turns)
  <2>1. Hide
    <3>1. CASE \E i \in DOMAIN turns : regenerate(i)
      BY <1>1, <3>1 DEF regenerate
    <3>2. CASE \E r \in live : Frame(r) \/ Ends(r)
      BY <1>1, <3>2 DEF Frame, Ends, Token, Done, Resolve, Reject
    <3> QED
      BY <1>1, <3>1, <3>2 DEF ConvNext, ask, stop, reset, Fire, Show, Load, convVars
  <2> QED
    BY <1>1, <2>1 DEF Hide, flush, ConvInv, Copy
<1>2. ConvInv /\ [ConvNext]_convVars
        => [shown /\ ~shown' /\ ~full => stored' = Snapshot(turns)]_convVars
  BY <1>1
<1> QED
  BY <1>2, ConvInvHolds, PTL DEF ConvSpec, HideKeepsTheThread
-------------------------------------------------------------------------------
(***************************************************************************)
(* Types of the page                                                       *)
(***************************************************************************)
LEMMA ThreadBeforeType ==
    ASSUME NEW list \in Seq(Turn), NEW i \in DOMAIN list
    PROVE  threadBefore(list, i) \in Seq(Turn) /\ Len(threadBefore(list, i)) <= RECALL_TURNS
<1> DEFINE above == SubSeq(list, 1, i - 1)
           kept == Only(above, Answered(list))
<1>1. above \in Seq(Turn)
  OBVIOUS
<1> HIDE DEF above
<1>2. kept \in Seq(Turn)
  BY <1>1, OnlyType
<1> HIDE DEF kept
<1>3. Newest(kept, RECALL_TURNS) \in Seq(Turn) /\ Len(Newest(kept, RECALL_TURNS)) <= RECALL_TURNS
  BY <1>2, NewestIs, LengthsAssumption
<1> QED BY <1>3 DEF threadBefore, kept, above

LEMMA SeqBounds == 0 \in 0..MaxSeq /\ 1..MaxSeq \subseteq 0..MaxSeq
BY BoundsAssumption

IsSent(r) == r \in Request /\ Len(r.history) <= RECALL_TURNS

LEMMA StreamTyped ==
    ASSUME NEW list \in Seq(Turn), NEW i \in DOMAIN list, Stream(list, i),
           \A r \in live : IsSent(r)
    PROVE  /\ \A r \in live' : IsSent(r)
           /\ run' \in 0..MaxSeq /\ busy' \in BOOLEAN
<1> DEFINE h == threadBefore(list, i)
           new == [turn |-> list[i].id, aborted |-> FALSE, done |-> FALSE, history |-> h]
<1>1. h \in Seq(Turn) /\ Len(h) <= RECALL_TURNS
  BY ThreadBeforeType
<1>2. list[i].id \in 1..MaxSeq
  <2>1. list[i] \in Turn
    OBVIOUS
  <2> QED BY <2>1 DEF Turn
<1>3. live' = live \cup {new} /\ run' = list[i].id /\ busy' = TRUE
  BY DEF Stream
<1> HIDE DEF h
<1>4. IsSent(new)
  BY <1>1, <1>2 DEF IsSent, Request
<1>5. \A r \in live' : IsSent(r)
  <2> HIDE DEF new
  <2> QED BY <1>3, <1>4
<1>6. run' \in 0..MaxSeq
  BY <1>2, <1>3, SeqBounds
<1> QED BY <1>3, <1>5, <1>6

LEMMA SentWith ==
    ASSUME NEW r, IsSent(r)
    PROVE  IsSent([r EXCEPT !.aborted = TRUE]) /\ IsSent([r EXCEPT !.done = TRUE])
BY DEF IsSent, Request

\* What is left of the type invariant beside the lists, which ConvInv has.
PageTyped ==
    /\ \A r \in live : IsSent(r)
    /\ seq \in 0..MaxSeq /\ run \in 0..MaxSeq
    /\ {busy, timer, full, shown} \subseteq BOOLEAN

LEMMA PageStep == PageTyped /\ ConvInv /\ ConvInv' /\ [ConvNext]_convVars => PageTyped'
<1> SUFFICES ASSUME PageTyped, ConvInv, ConvInv', [ConvNext]_convVars PROVE PageTyped'
  OBVIOUS
<1>1. turns \in Seq(Turn) /\ turns' \in Seq(Turn) /\ stored \in Seq(Turn)
  BY DEF ConvInv, Lists, Thread
<1>2. timer' \in BOOLEAN /\ full' \in BOOLEAN /\ shown' \in BOOLEAN
  <2>1. CASE \E i \in DOMAIN turns : regenerate(i)
    BY <2>1 DEF regenerate, Watch, save, clear, PageTyped
  <2>2. CASE \E r \in live : Frame(r) \/ Ends(r)
    BY <2>2 DEF Frame, Ends, Token, Done, Resolve, Reject, Update, Watch, save, clear, session,
                PageTyped
  <2>3. CASE ask \/ stop \/ reset
    BY <2>3 DEF ask, stop, reset, Watch, save, clear, session, PageTyped
  <2>4. CASE Fire \/ Hide \/ Show \/ Load \/ UNCHANGED convVars
    BY <2>4 DEF Fire, Hide, Show, Load, flush, session, convVars, PageTyped
  <2> QED BY <2>1, <2>2, <2>3, <2>4 DEF ConvNext
<1>3. /\ \A r \in live' : IsSent(r)
      /\ seq' \in 0..MaxSeq /\ run' \in 0..MaxSeq /\ busy' \in BOOLEAN
  <2>1. CASE ask
    <3>1. Len(turns') \in DOMAIN turns'
      BY <1>1, <2>1 DEF ask
    <3>2. seq' \in 0..MaxSeq
      BY <2>1, BoundsAssumption DEF ask, PageTyped
    <3> QED BY <1>1, <2>1, <3>1, <3>2, StreamTyped DEF ask, PageTyped
  <2>2. CASE \E i \in DOMAIN turns : regenerate(i)
    <3>1. PICK i \in DOMAIN turns : regenerate(i)
      BY <2>2
    <3>2. i \in DOMAIN turns'
      BY <3>1 DEF regenerate
    <3> QED BY <1>1, <3>1, <3>2, StreamTyped DEF regenerate, PageTyped
  <2>3. CASE stop \/ reset
    <3>1. \A r \in Abort : IsSent(r)
      BY SentWith DEF Abort, PageTyped
    <3> QED BY <2>3, <3>1 DEF stop, reset, PageTyped
  <2>4. CASE \E r \in live : Frame(r) \/ Ends(r)
    BY <2>4, SentWith, SeqBounds
    DEF Frame, Ends, Token, Done, Resolve, Reject, PageTyped
  <2>5. CASE Fire \/ Hide \/ Show \/ UNCHANGED convVars
    BY <2>5 DEF Fire, Hide, Show, memory, convVars, PageTyped
  <2>6. CASE Load
    <3>1. seq' = Greatest({stored[i].id : i \in DOMAIN stored})
      BY <2>6 DEF Load
    <3>2. \A i \in DOMAIN stored : stored[i].id \in 1..MaxSeq
      <4>1. \A i \in DOMAIN stored : stored[i] \in Turn
        BY <1>1
      <4> QED BY <4>1 DEF Turn
    <3>3. seq' \in 0..MaxSeq
      <4> DEFINE S == {stored[i].id : i \in DOMAIN stored}
      <4>1. CASE S = {}
        BY <3>1, <4>1, SeqBounds DEF Greatest
      <4>2. CASE S # {}
        <5>1. Thread(stored, era)
          BY DEF ConvInv, Lists
        <5>2. \E g \in S : \A m \in S : m <= g
          BY <4>2, <5>1, LastIdIsGreatest
        <5>3. Greatest(S) \in S
          <6> HIDE DEF S
          <6> QED BY <4>2, <5>2 DEF Greatest
        <5>4. S \subseteq 1..MaxSeq
          BY <3>2
        <5> QED BY <3>1, <5>3, <5>4
      <4> QED BY <4>1, <4>2
    <3> QED BY <2>6, <3>3, SeqBounds DEF Load
  <2> QED BY <2>1, <2>2, <2>3, <2>4, <2>5, <2>6 DEF ConvNext
<1> QED BY <1>2, <1>3 DEF PageTyped

\* The types of one page by itself, whatever was done with it (conversation.js,
\* session.js).
THEOREM ConvTypeCorrect == ConvSpec => []ConvTypeOK
<1>1. ConvInit => PageTyped
  BY SeqBounds DEF ConvInit, PageTyped
<1>2. PageTyped /\ ConvInv => ConvTypeOK
  BY DEF PageTyped, IsSent, ConvInv, Lists, Ids, Thread, Saved, ConvTypeOK
<1> QED BY <1>1, <1>2, PageStep, ConvInvInit, ConvInvStep, PTL DEF ConvSpec

\* The types of both machines of the run: of the schema and its openers
\* (db/migrate.go), and of the page, its requests and what it has stored
\* (conversation.js, session.js), whatever the lengths.
THEOREM ServingTypeCorrect == MCSpec => []ServingTypeOK
<1> DEFINE TypeInv == MigInv /\ PageTyped /\ ConvInv
<1>1. MCInit => TypeInv
  BY MigInvInit, ConvInvInit, SeqBounds DEF MCInit, ConvInit, PageTyped
<1>2. TypeInv /\ [MCNext]_vars => TypeInv'
  <2>1. [MCNext]_vars => [MigNext]_migVars /\ [ConvNext]_convVars
    BY DEF MCNext, Serve, vars
  <2> QED BY <2>1, MigInvStep, ConvInvStep, PageStep
<1>3. TypeInv => ServingTypeOK
  BY DEF PageTyped, IsSent, ConvInv, Lists, Ids, Thread, Saved, ConvTypeOK, MigInv, ServingTypeOK
<1> QED BY <1>1, <1>2, <1>3, PTL DEF MCSpec
===============================================================================
