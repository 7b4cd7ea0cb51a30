----------------------------- MODULE Migration -----------------------------
(***************************************************************************)
(* Opening a database for writing brings its schema up to date.  A facts   *)
(* database goes through the steps of fourteen versions in one             *)
(* transaction; a project database through a transaction for its file      *)
(* registry and another one for its versioned tables.  Processes open the  *)
(* same two files at any time, may fail or be killed at every step, and    *)
(* find whatever an earlier version of the program left.  A step of a      *)
(* transaction changes a copy that only its own process sees; SQLite lets  *)
(* one process at a time write.                                            *)
(***************************************************************************)
EXTENDS NoValue, Naturals, Sequences

CONSTANTS
    Openers,     \* processes that open the databases for writing
    Symbols,     \* rows of the symbol table
    FileIds,     \* ids of registered files
    MaxFileId,   \* highest id that a symbol can hold
    Places       \* places of files

ASSUME MigrationAssumption == FileIds \subseteq Nat /\ None \notin Nat

VARIABLES
    facts,       \* facts database: version, shape, symbols, children, entries
    project,     \* project database: layout, columns, version, tables, rows
    opener       \* [Openers -> the transaction of the process, or None]

migrationVars == <<facts, project, opener>>

Current == 14           \* facts schema
CurrentProject == 2     \* project schema

-----------------------------------------------------------------------------
(* The facts schema.  A step applies below a version to a store that has and
   lacks the given parts.  "columns" replaced the packed "flags", "packed" is
   the rebuilt symbol table; each of the others is named for what it adds. *)

Step(below, has, lacks, adds, to) ==
    [below |-> below, has |-> has, lacks |-> lacks, adds |-> adds, to |-> to]
Always == Current + 1

EntriesStep == Step(11, {"symbol"}, {}, {"entry"}, 11)
RunsStep == Step(12, {}, {}, {"run"}, 12)
EvidenceStep == Step(13, {}, {}, {"evidence"}, 13)
PointersStep == Step(14, {}, {}, {"pointer"}, 14)

FactSteps == <<
    Step(Always, {"symbol", "flags"}, {}, {"columns", "initializer"}, 2),
    Step(2, {"symbol"}, {}, {"initializer"}, 2),
    Step(3, {"symbol"}, {}, {"default"}, 3),
    Step(4, {"symbol"}, {}, {"enumeration"}, 4),
    Step(5, {"symbol"}, {}, {"packed"}, 6),
    Step(6, {"symbol"}, {}, {}, 6),
    Step(7, {"symbol"}, {}, {"site"}, 7),
    Step(8, {"symbol"}, {}, {"context"}, 8),
    Step(9, {"symbol"}, {}, {"returns"}, 9),
    Step(Always, {"symbol"}, {"volatile"}, {"volatile"}, 0),
    Step(10, {"symbol"}, {}, {}, 10),
    EntriesStep, RunsStep, EvidenceStep, PointersStep>>

(* Columns come by ALTER TABLE, which fails when they are there; tables by
   CREATE TABLE IF NOT EXISTS. *)
Columns == {"columns", "initializer", "context", "volatile"}
SymbolTables == {"symbol", "packed", "returns", "enumeration", "default"}
GraphTables == {"site", "entry", "pointer"}
RunTables == {"run", "evidence"}
Tables == SymbolTables \cup GraphTables \cup RunTables
Fresh == Columns \cup Tables

Applies(s, db) == db.version < s.below /\ s.has \subseteq db.shape
                  /\ s.lacks \cap db.shape = {}
Fails(s, db) == s.adds \cap Columns \cap db.shape # {}

\* Mutant of Upgraded: tables are dropped with the enforcement of keys on.
UpgradedEnforcing(s, db) ==
    [db EXCEPT !.shape = (@ \cup s.adds) \ {"flags", "identity"},
               !.version = IF s.to > @ THEN s.to ELSE @,
               !.children = IF "packed" \in s.adds THEN {} ELSE @,
               !.entries = IF "pointer" \in s.adds THEN {} ELSE @]

(* Rows of other tables survive the new symbol table because enforcement is
   off.  Calls through pointers belong to an entry: older ones are dropped. *)
Upgraded(s, db) ==
    LET gone == (IF "columns" \in s.adds THEN {"flags"} ELSE {})
                \cup (IF "packed" \in s.adds \/ s.to = 6 THEN {"identity"} ELSE {})
    IN [db EXCEPT !.shape = (@ \cup s.adds) \ gone,
                  !.version = IF s.to > @ THEN s.to ELSE @,
                  !.entries = IF "pointer" \in s.adds THEN {} ELSE @]

(* schemaSql creates what is missing as a whole. *)
Created(db) ==
    [db EXCEPT !.shape = @ \cup Tables \cup (IF "symbol" \in @ THEN {} ELSE Columns)]

(* What each version left behind. *)
Shape(v) ==
    IF v = 0 THEN {"symbol", "flags", "identity"}
    ELSE {"symbol", "columns"}
         \cup (UNION {FactSteps[i].adds : i \in {k \in 2..15 : FactSteps[k].below <= v}})
         \cup (IF v < 6 THEN {"identity"} ELSE {})
         \cup (IF v >= 10 THEN {"volatile"} ELSE {})

Left(v) == [version |-> v, shape |-> Shape(v), symbols |-> Symbols, children |-> Symbols,
            entries |-> IF v >= 11 THEN Symbols ELSE {}]
NoStore == [version |-> 0, shape |-> {}, symbols |-> {}, children |-> {}, entries |-> {}]

-----------------------------------------------------------------------------
(* The project schema.  A row is a pair of an id and a place; version None is
   a registry without the column; newer builds may have left version 3. *)

FileColumns == {"working_directory", "facts_db", "git_commit"}
TablesOf(v) == IF v = None \/ v = 0 THEN {} ELSE IF v = 1 THEN {"index"} ELSE {"index", "cache"}

Registries(rows) ==
    {[layout |-> l, columns |-> {}, version |-> None, tables |-> {}, rows |-> rows, old |-> {}] :
        l \in {"path", "flat", "registry"}}
    \cup {[layout |-> "registry", columns |-> c, version |-> v, tables |-> TablesOf(v),
           rows |-> rows, old |-> {}] : c \in {{}, FileColumns}, v \in {None, 0}}
    \cup {[layout |-> "registry", columns |-> FileColumns, version |-> v,
           tables |-> TablesOf(v), rows |-> rows, old |-> {}] : v \in 1..CurrentProject + 1}

Newer(p) == p.version # None /\ p.version > CurrentProject

\* Mutant of CurrentRegistry: any version that is not newer will do.
CurrentRegistryNotNewer(p) == p.layout = "registry" /\ ~Newer(p)

(* What a reader, or a command that only changes rows, demands. *)
CurrentRegistry(p) == p.layout = "registry" /\ p.version = CurrentProject

-----------------------------------------------------------------------------
MigrationInit ==
    /\ facts \in {NoStore} \cup {Left(v) : v \in 0..Current + 1}
    /\ project \in UNION {Registries(rows) : rows \in SUBSET (FileIds \X Places)}
    /\ \A x, y \in project.rows : x[1] = y[1] => x = y
    /\ opener = [o \in Openers |-> None]

(* BEGIN IMMEDIATE; "gap" is between the two transactions on the project. *)
Database(file) == IF file = "facts" THEN "facts" ELSE "project"
Writing(file) == \E o \in Openers : opener[o] # None /\ opener[o].file # "gap"
                                    /\ Database(opener[o].file) = Database(file)

BeginWrite(o, file, db) ==
    /\ ~Writing(file)
    /\ opener' = [opener EXCEPT ![o] = [file |-> file, at |-> 1, db |-> db]]
    /\ UNCHANGED <<facts, project>>

At(o, file, at) == opener[o] # None /\ opener[o].file = file /\ opener[o].at = at
Advance(o, db) ==
    /\ opener' = [opener EXCEPT ![o].at = @ + 1, ![o].db = db]
    /\ UNCHANGED <<facts, project>>

(* A process that is killed, or meets an error, leaves the file as it was. *)
AbortOpening(o) ==
    /\ opener[o] # None
    /\ opener' = [opener EXCEPT ![o] = None]
    /\ UNCHANGED <<facts, project>>

BeginFacts(o) ==
    opener[o] = None /\ facts.version <= Current /\ BeginWrite(o, "facts", facts)

MigrateFacts(o) ==
    \E i \in DOMAIN FactSteps :
        LET s == FactSteps[i]
            db == opener[o].db
        IN  /\ At(o, "facts", i)
            /\ ~(Applies(s, db) /\ Fails(s, db))
            /\ Advance(o, IF Applies(s, db) THEN Upgraded(s, db) ELSE db)

CommitFacts(o) ==
    /\ At(o, "facts", Len(FactSteps) + 1)
    /\ facts' = Created(opener[o].db)
    /\ opener' = [opener EXCEPT ![o] = None]
    /\ UNCHANGED project

(* migrateFileSchema sets an older layout aside, inserts its rows under the
   ids that they had, and drops the old tables. *)
BeginFiles(o) == opener[o] = None /\ ~Newer(project) /\ BeginWrite(o, "files", project)

SetAside(o) ==
    LET db == opener[o].db IN
    /\ At(o, "files", 1)
    /\ Advance(o, IF db.layout = "registry" THEN [db EXCEPT !.columns = FileColumns]
                  ELSE [db EXCEPT !.layout = "registry", !.columns = FileColumns,
                                  !.version = 0, !.rows = {}, !.old = db.rows])

\* Mutant of Inserted: the registry gives out an id of its own.
InsertedAnew(rows, row) ==
    rows \cup {<<CHOOSE f \in FileIds : \A x \in rows : x[1] # f, row[2]>>}

Inserted(rows, row) == rows \cup {row}

(* An id out of range, or a place that has a row already, is an error. *)
MoveRow(o) ==
    LET db == opener[o].db
        row == CHOOSE x \in db.old : \A y \in db.old : x[1] <= y[1]
    IN  /\ At(o, "files", 2) /\ db.old # {}
        /\ row[1] \in 1..MaxFileId /\ \A x \in db.rows : x[2] # row[2]
        /\ opener' = [opener EXCEPT ![o].db = [db EXCEPT !.old = @ \ {row},
                                                         !.rows = Inserted(@, row)]]
        /\ UNCHANGED <<facts, project>>

CommitFiles(o) ==
    /\ At(o, "files", 2) /\ opener[o].db.old = {}
    /\ project' = opener[o].db
    /\ opener' = [opener EXCEPT ![o].file = "gap", ![o].db = None]
    /\ UNCHANGED facts

(* migrateProjectSchema looks at the version again, in its own transaction. *)
BeginSchema(o) == opener[o] # None /\ opener[o].file = "gap" /\ BeginWrite(o, "schema", project)

AddVersion(o) ==
    LET db == opener[o].db IN
    At(o, "schema", 1) /\ Advance(o, [db EXCEPT !.version = IF @ = None THEN 0 ELSE @])

CreateIndex(o) ==
    LET db == opener[o].db IN
    /\ At(o, "schema", 2) /\ ~Newer(db)
    /\ Advance(o, IF db.version # 0 THEN db
                  ELSE [db EXCEPT !.tables = @ \cup {"index"}, !.version = 1])

CreateCache(o) ==
    LET db == opener[o].db IN
    /\ At(o, "schema", 3)
    /\ Advance(o, IF db.version # 1 THEN db
                  ELSE [db EXCEPT !.tables = @ \cup {"cache"}, !.version = 2])

CommitSchema(o) ==
    /\ At(o, "schema", 4)
    /\ project' = opener[o].db
    /\ opener' = [opener EXCEPT ![o] = None]
    /\ UNCHANGED facts

MigrationNext ==
    \E o \in Openers :
        \/ BeginFacts(o) \/ MigrateFacts(o) \/ CommitFacts(o)
        \/ BeginFiles(o) \/ SetAside(o) \/ MoveRow(o) \/ CommitFiles(o)
        \/ BeginSchema(o) \/ AddVersion(o) \/ CreateIndex(o) \/ CreateCache(o) \/ CommitSchema(o)
        \/ AbortOpening(o)

MigrationSpec == MigrationInit /\ [][MigrationNext]_migrationVars

-----------------------------------------------------------------------------
(* Properties *)

(* Whatever version the store had, whoever was killed on the way, a store at
   the current version has exactly the schema of a new one, and it has kept its
   rows, but for entries that know nothing of calls through pointers; and the
   ids by which facts name files stay with their places in the registry. *)
UpgradesWhole ==
    [][/\ facts' # facts =>
            /\ facts'.version = Current /\ facts'.shape = Fresh
            /\ facts'.symbols = facts.symbols /\ facts'.children = facts.children
            /\ facts'.entries = IF facts.version < Current THEN {} ELSE facts.entries
       /\ project'.rows = project.rows]_migrationVars

(* A reader is let in only when both transactions on the project are done. *)
ReadersFindCurrent ==
    /\ CurrentRegistry(project) =>
         project.columns = FileColumns /\ project.tables = TablesOf(CurrentProject)
    /\ project.old = {}
=============================================================================
