------------------------------ MODULE Migrations ------------------------------
(***************************************************************************)
(* Opening the database (src/internal/db: Open and migrate in store.go,    *)
(* migrate.go, schema.sql). Every process, the server and cmd/ingest, runs *)
(* this over the same file when it starts: schema.sql, one statement after *)
(* the other, then a read of what schema_version holds, then one           *)
(* transaction for each migration that was not in it. Nothing keeps two    *)
(* openers apart but SQLite's own transactions.                            *)
(***************************************************************************)
EXTENDS Integers, Sequences, FiniteSetsExt

CONSTANTS
    Process,    \* processes that open the database
    Doc,        \* documents it may hold
    MaxFaults   \* bound on failed transactions and crashes, together

ASSUME MaxFaultsAssumption == MaxFaults \in Nat

VARIABLES
    made,       \* the tables and triggers that exist
    cols,       \* the columns migrations have added
    form,       \* which columns the keyword index and its triggers carry
    version,    \* the ids in schema_version
    rows,       \* [Doc -> Absent, or the row and what its chunks carry]
    opens,      \* [Process -> where its Open stands]
    faults      \* how many more failures may happen

migVars == <<made, cols, form, version, rows, opens, faults>>

\* The whole history: 1 gives documents their text and attributes, 2 rebuilds
\* missing texts from chunks, 3 gives chunks the identity of their document.
Migration == 1..3

\* What schema.sql, the vector table and migrateVersioned create, in order.
\* The three triggers stand as one: nothing reads between their statements.
Statements ==
    <<"documents", "chunks", "tickets", "answers", "fts", "triggers", "vec", "schema_version">>

Object == {Statements[i] : i \in DOMAIN Statements}

Absent == [text |-> "absent"]

\* text is the body column: null, as a person saved it, or rebuilt by a
\* migration.  ident: the chunks carry their document's name in the index.
Row == [text: {"null", "saved", "rebuilt"}, chunks: BOOLEAN, ident: BOOLEAN]

There(d) == rows[d] # Absent

\* off: not running.  schema: at the at-th statement.  read: about to read
\* the applied set.  apply: todo is what was not in it.  failed: Open returned
\* an error and the process ended.
Opener == [pc: {"off", "schema", "read", "apply", "ready", "failed"},
           at: DOMAIN Statements, todo: SUBSET Migration]

MigTypeOK ==
    /\ made \subseteq Object
    /\ cols \subseteq {"attributes", "ident"}
    /\ form \in [{"fts", "triggers"} -> {"none", "plain", "named"}]
    /\ version \subseteq Migration
    /\ rows \in [Doc -> Row \cup {Absent}]
    /\ opens \in [Process -> Opener]
    /\ faults \in 0..MaxFaults

-------------------------------------------------------------------------------
(***************************************************************************)
(* The database a process may find: a new file; one from before there were *)
(* migrations; one that a binary with migration 1 only has been writing    *)
(* texts into, beside documents indexed before it.                         *)
(***************************************************************************)
NewFile ==
    /\ made = {}
    /\ cols = {} /\ version = {}
    /\ form = [x \in {"fts", "triggers"} |-> "none"]
    /\ rows = [d \in Doc |-> Absent]

BeforeMigrations ==
    /\ made = Object \ {"schema_version"}
    /\ cols = {} /\ version = {}
    /\ form = [x \in {"fts", "triggers"} |-> "plain"]
    /\ rows \in [Doc -> {Absent} \cup
                   [text: {"null"}, chunks: BOOLEAN, ident: {FALSE}]]

AfterTheFirst ==
    /\ made = Object
    /\ cols = {"attributes"} /\ version = {1}
    /\ form = [x \in {"fts", "triggers"} |-> "plain"]
    /\ rows \in [Doc -> {Absent} \cup
                   [text: {"null", "saved"}, chunks: BOOLEAN, ident: {FALSE}]]

MigInit ==
    /\ NewFile \/ BeforeMigrations \/ AfterTheFirst
    /\ opens = [p \in Process |-> [pc |-> "off", at |-> 1, todo |-> {}]]
    /\ faults = MaxFaults

-------------------------------------------------------------------------------
At(p, pc) == opens[p].pc = pc

MoveTo(p, pc) == opens' = [opens EXCEPT ![p].pc = pc]

\* A process starts, for the first time or again.
Start(p) ==
    /\ opens[p].pc \in {"off", "failed"}
    /\ opens' = [opens EXCEPT ![p] = [pc |-> "schema", at |-> 1, todo |-> {}]]
    /\ UNCHANGED <<made, cols, form, version, rows, faults>>

\* The loop over the statements with its bound off by one.
CreatePastLast(p) ==
    LET o == Statements[opens[p].at] IN
    /\ At(p, "schema")
    /\ made' = made \cup {o}
    /\ form' = IF o \in DOMAIN form \ made THEN [form EXCEPT ![o] = "plain"] ELSE form
    /\ opens' = [opens EXCEPT ![p].at = @ + 1]
    /\ UNCHANGED <<cols, version, rows, faults>>

\* CREATE ... IF NOT EXISTS, each a transaction of its own. schema.sql knows
\* the keyword index and its triggers without the identity column only.
Create(p) ==
    LET o == Statements[opens[p].at] IN
    /\ At(p, "schema")
    /\ made' = made \cup {o}
    /\ form' = IF o \in DOMAIN form \ made THEN [form EXCEPT ![o] = "plain"] ELSE form
    /\ opens' = IF opens[p].at = Len(Statements)
                THEN [opens EXCEPT ![p].pc = "read"]
                ELSE [opens EXCEPT ![p].at = @ + 1]
    /\ UNCHANGED <<cols, version, rows, faults>>

GoOnWith(p, todo) ==
    opens' = [opens EXCEPT ![p].todo = todo,
                           ![p].pc = IF todo = {} THEN "ready" ELSE "apply"]

\* appliedMigrations: read once, and used for the rest of Open.
ReadApplied(p) ==
    /\ At(p, "read")
    /\ GoOnWith(p, Migration \ version)
    /\ UNCHANGED <<made, cols, form, version, rows, faults>>

-------------------------------------------------------------------------------
\* Migration 1. ALTER TABLE ADD COLUMN fails on a column that is there.
AddAttributes ==
    /\ "attributes" \notin cols
    /\ cols' = cols \cup {"attributes"}
    /\ UNCHANGED <<made, form, rows>>

\* The rebuild without its WHERE body IS NULL.
RebuildAll ==
    /\ "attributes" \in cols
    /\ rows' = [d \in Doc |-> IF There(d) /\ rows[d].chunks
                              THEN [rows[d] EXCEPT !.text = "rebuilt"] ELSE rows[d]]
    /\ UNCHANGED <<made, cols, form>>

\* Migration 2. A document with no chunks keeps its missing body.
RebuildBodies ==
    /\ "attributes" \in cols
    /\ rows' = [d \in Doc |-> IF There(d) /\ rows[d].chunks /\ rows[d].text = "null"
                              THEN [rows[d] EXCEPT !.text = "rebuilt"] ELSE rows[d]]
    /\ UNCHANGED <<made, cols, form>>

\* Migration 3 with the triggers dropped and never created again.
NameChunksOnly ==
    /\ "attributes" \in cols /\ "ident" \notin cols
    /\ cols' = cols \cup {"ident"}
    /\ rows' = [d \in Doc |-> IF There(d) THEN [rows[d] EXCEPT !.ident = TRUE] ELSE rows[d]]
    /\ form' = [form EXCEPT !["fts"] = "named", !["triggers"] = "none"]
    /\ UNCHANGED made

\* Migration 3: the column, its backfill, and the index and its triggers built
\* anew around it. The backfill reads the columns migration 1 adds.
NameChunks ==
    /\ "attributes" \in cols /\ "ident" \notin cols
    /\ cols' = cols \cup {"ident"}
    /\ rows' = [d \in Doc |-> IF There(d) THEN [rows[d] EXCEPT !.ident = TRUE] ELSE rows[d]]
    /\ form' = [x \in DOMAIN form |-> "named"]
    /\ UNCHANGED made

Sql(m) == \/ m = 1 /\ AddAttributes
          \/ m = 2 /\ RebuildBodies
          \/ m = 3 /\ NameChunks

\* Whether the SQL of m and the insert of its version row both succeed.
Succeeds(m) ==
    /\ m \notin version
    /\ m = 1 => "attributes" \notin cols
    /\ m > 1 => "attributes" \in cols
    /\ m = 3 => "ident" \notin cols

-------------------------------------------------------------------------------
\* Bugs a migration runner could have: the change and its record are two
\* transactions, and a crash may fall between them; a migration that fails is
\* skipped.
ApplyInTwo(p) ==
    LET m == Min(opens[p].todo) IN
    /\ At(p, "apply")
    /\ \/ /\ Succeeds(m) /\ Sql(m)
          /\ version' = version \cup {m}
          /\ GoOnWith(p, opens[p].todo \ {m})
          /\ UNCHANGED faults
       \/ /\ Succeeds(m) /\ Sql(m)
          /\ faults > 0 /\ faults' = faults - 1
          /\ MoveTo(p, "off")
          /\ UNCHANGED version
       \/ /\ ~Succeeds(m) /\ MoveTo(p, "failed")
          /\ UNCHANGED <<made, cols, form, version, rows, faults>>

ApplyOrSkip(p) ==
    LET m == Min(opens[p].todo) IN
    /\ At(p, "apply")
    /\ GoOnWith(p, opens[p].todo \ {m})
    /\ UNCHANGED faults
    /\ \/ Succeeds(m) /\ Sql(m) /\ version' = version \cup {m}
       \/ UNCHANGED <<made, cols, form, version, rows>>

\* One transaction: the change and the row that records it. When either fails
\* both are rolled back and Open ends there.
Apply(p) ==
    LET m == Min(opens[p].todo) IN
    /\ At(p, "apply")
    /\ UNCHANGED faults
    /\ \/ /\ Succeeds(m) /\ Sql(m)
          /\ version' = version \cup {m}
          /\ GoOnWith(p, opens[p].todo \ {m})
       \/ /\ ~Succeeds(m) /\ MoveTo(p, "failed")
          /\ UNCHANGED <<made, cols, form, version, rows>>

\* A statement, a read or a transaction fails: the database is locked for too
\* long, or the disk is full. Open returns the error.
OpenFails(p) ==
    /\ opens[p].pc \in {"schema", "read", "apply"}
    /\ faults > 0 /\ faults' = faults - 1
    /\ MoveTo(p, "failed")
    /\ UNCHANGED <<made, cols, form, version, rows>>

\* The process dies; an open transaction goes with it.
Die(p) ==
    /\ opens[p].pc \notin {"off", "failed"}
    /\ faults > 0 /\ faults' = faults - 1
    /\ MoveTo(p, "off")
    /\ UNCHANGED <<made, cols, form, version, rows>>

\* cmd/ingest is done, or the server is stopped.
Quit(p) ==
    /\ At(p, "ready")
    /\ MoveTo(p, "off")
    /\ UNCHANGED <<made, cols, form, version, rows, faults>>

\* A process that is open saves a document: its text in the row, its name in
\* its chunks. Module Library has the steps of a save.
Write(p, d) ==
    /\ At(p, "ready")
    /\ rows' = [rows EXCEPT ![d] = [text |-> "saved", chunks |-> TRUE,
                                    ident |-> form["triggers"] = "named"]]
    /\ UNCHANGED <<made, cols, form, version, opens, faults>>

Opening(p) == Create(p) \/ ReadApplied(p) \/ Apply(p)

MigNext ==
    \E p \in Process :
        \/ Start(p)
        \/ Opening(p)
        \/ OpenFails(p)
        \/ Die(p)
        \/ Quit(p)
        \/ \E d \in Doc : Write(p, d)

\* A process that has begun goes on, and one that has ended is started again.
MigFairness == \A p \in Process : WF_migVars(Opening(p)) /\ WF_migVars(Start(p))

MigSpec == MigInit /\ [][MigNext]_migVars /\ MigFairness

-------------------------------------------------------------------------------
\* The first question asked of a database that behaves oddly is which
\* migrations it has seen (migrate.go:34-36), and schema_version answers it
\* truly at every moment, whoever else is opening it or has died doing so: an
\* id is there exactly when the whole of its migration is in the database, and
\* the ids are the first ones, in order.
VersionTellsTheShape ==
    /\ \A i \in version : 1..i \subseteq version
    /\ 1 \in version <=> "attributes" \in cols
    /\ 2 \in version => \A d \in Doc : There(d) /\ rows[d].chunks => rows[d].text # "null"
    /\ 3 \in version <=> "ident" \in cols
    /\ 3 \in version => \A d \in Doc : There(d) /\ rows[d].chunks => rows[d].ident
    /\ 3 \in version => \A x \in DOMAIN form : form[x] = "named"
    /\ 3 \notin version => \A x \in DOMAIN form : form[x] # "named"

\* A process past Open works on a database with nothing missing: every table,
\* every migration, a text for every document that answers questions, and a
\* name on all its chunks. Open's failure is what keeps the others out.
ReadyIsCurrent ==
    (\E p \in Process : At(p, "ready")) =>
        /\ made = Object
        /\ version = Migration
        /\ \A d \in Doc : There(d) /\ rows[d].chunks => rows[d].text # "null" /\ rows[d].ident

\* No opener changes a text a person saved, and none loses a document: what
\* migration 2 puts together from chunks is for rows with no text only.
SavedTextsAreKept ==
    [][\A d \in Doc : /\ There(d) => There(d)'
                      /\ There(d) /\ rows[d].text = "saved" => rows'[d].text = "saved"]_migVars

\* No failure and no crash, at whatever point of an Open, and no race with
\* another opener leaves a database that cannot be opened: once failures stop,
\* a process that is started again whenever it has ended gets through.
EveryoneOpens == \A p \in Process : []<>At(p, "ready")
===============================================================================
