---------------------------- MODULE ExtractIndex ----------------------------
(***************************************************************************)
(* Incremental extraction (commands/Extract.cpp).  An extraction run picks *)
(* the translation units whose recorded index state no longer matches the  *)
(* disk, writes their facts into a facts database in one transaction, and  *)
(* then records, in the project database, the modification time that it    *)
(* had seen before it parsed.  The two databases share no transaction;     *)
(* runs are processes and may overlap, fail and crash.  Contents and       *)
(* compile commands are numbers that every change makes larger, so that a  *)
(* modification time is the content it belongs to.  The AST cache is off.  *)
(***************************************************************************)
EXTENDS NoValue, Naturals

CONSTANTS
    Sources, Headers,   \* the translation units and the files they include
    Outputs,            \* facts databases
    Runs,               \* extraction processes
    Includes,           \* Includes[s][v]: the headers that version v of s includes
    Requests,           \* the sources a run may be asked for; {} asks for all
    MidRun,             \* may commands and registry change while a run is under way?
    MaxChanges,         \* bound on edits, commits and commands on the project
    MaxStops            \* bound on failures and crashes

Files == Sources \cup Headers

(* A row's index state, and the inputs that stored facts were made from. *)
IndexStates == [db : Outputs, mtime : Nat, commit : Nat]
FactInputs == [files : UNION {[fs -> Nat] : fs \in SUBSET Files}, command : Nat]

ASSUME ExtractAssumption ==
    /\ MaxChanges \in Nat /\ MaxStops \in Nat
    /\ Includes \in [Sources -> [0..MaxChanges -> SUBSET Headers]]
    /\ Sources \cap Headers = {}
    /\ Requests \subseteq SUBSET Sources
    /\ MidRun \in BOOLEAN
    /\ None \notin Runs \cup Outputs \cup IndexStates \cup FactInputs

VARIABLES
    content,         \* [Files -> version on disk]
    head,            \* the commit HEAD points to
    compileCommand,  \* [Sources -> version of the stored compile command]
    indexState,      \* [Files -> index state of the file's row, None if not indexed]
    registered,      \* the files that have a row
    complete,        \* the registry was completed by the last import
    importing,       \* the files that an import has discovered and registered
    stored,          \* [Outputs -> [Sources -> inputs of the stored facts, or None]]
    writeLock,       \* [Outputs -> the run that has the write transaction, or None]
    extraction,      \* [Runs -> state of the process]
    treeChanges,     \* changes of the environment so far
    failures         \* failures and crashes so far

workingTree == <<content, head>>
registry == <<compileCommand, indexState, registered, complete, importing>>
extractVars == <<workingTree, registry, stored, writeLock, extraction, treeChanges, failures>>

Closure(s) == {s} \cup Includes[s][content[s]]
(* What the facts of a source depend on: its command and its include closure. *)
Inputs(s, c) == [files |-> [f \in Closure(s) |-> content[f]], command |-> c]

Unparsed == [s \in Sources |-> None]
NotRunning ==
    [at |-> "idle", out |-> None, force |-> FALSE, selected |-> {},
     command |-> [s \in Sources |-> 0], closure |-> [s \in Sources |-> {}],
     stale |-> {}, commit |-> 0, observed |-> [f \in Files |-> 0], parsed |-> Unparsed]

Proceed(p, run) == extraction' = [extraction EXCEPT ![p] = run]

ExtractInit ==
    /\ content = [f \in Files |-> 0] /\ head = 0
    /\ compileCommand = [s \in Sources |-> 0]
    /\ indexState = [f \in Files |-> None]
    /\ registered = Files /\ complete = TRUE /\ importing = {}
    /\ stored = [d \in Outputs |-> [s \in Sources |-> None]]
    /\ writeLock = [d \in Outputs |-> None]
    /\ extraction = [p \in Runs |-> NotRunning]
    /\ treeChanges = 0 /\ failures = 0

-----------------------------------------------------------------------------
(* The freshness of one file and of one source. *)

(* staleReason: the first rule that fails decides; here, that all hold. *)
FileFresh(f, d) ==
    /\ indexState[f] # None
    /\ indexState[f].db = d
    /\ indexState[f].commit = head
    /\ indexState[f].mtime = content[f]

SourceFresh(s, d, closure) == \A f \in closure : FileFresh(f, d)

-----------------------------------------------------------------------------
(* A run: load commands and closures, partition, begin, parse, commit, record. *)

Selected(requested) == IF requested = {} THEN Sources ELSE requested
StoredCommands(sel) == [s \in Sources |-> IF s \in sel THEN compileCommand[s] ELSE 0]
Closures(sel) == [s \in Sources |-> IF s \in sel THEN Closure(s) ELSE {}]
RegisteredSources(sel) == \A s \in sel : Closure(s) \subseteq registered

Discover(p, requested, d, force) ==
    LET sel == Selected(requested) IN
    /\ extraction[p].at = "idle"
    /\ complete
    /\ RegisteredSources(sel)
    /\ Proceed(p, [NotRunning EXCEPT !.at = "discovered", !.out = d, !.force = force,
                                     !.selected = sel, !.command = StoredCommands(sel),
                                     !.closure = Closures(sel)])
    /\ UNCHANGED <<workingTree, registry, stored, writeLock, treeChanges, failures>>

StaleSources(r) ==
    {s \in r.selected : r.force \/ ~SourceFresh(s, r.out, r.closure[s])}

\* Mutant of ToMark: only the sources themselves are marked.
ToMarkSources(r) == r.stale

ToMark(r) == UNION {r.closure[s] : s \in r.stale}

(* A run that finds nothing stale ends without touching any database. *)
Partition(p) ==
    LET r == extraction[p]
        stale == StaleSources(r)
    IN  /\ r.at = "discovered"
        /\ IF stale = {} THEN Proceed(p, NotRunning)
           ELSE Proceed(p, [r EXCEPT !.at = "partitioned", !.stale = stale, !.commit = head,
                                     !.observed = content])
        /\ UNCHANGED <<workingTree, registry, stored, writeLock, treeChanges, failures>>

\* Mutant of BeginExtraction: the lock of the database is not respected.
BeginExtractionUnlocked(p) ==
    /\ extraction[p].at = "partitioned"
    /\ writeLock' = [writeLock EXCEPT ![extraction[p].out] = p]
    /\ Proceed(p, [extraction[p] EXCEPT !.at = "parsing"])
    /\ UNCHANGED <<workingTree, registry, stored, treeChanges, failures>>

(* The write transaction is begun before anything is parsed. *)
BeginExtraction(p) ==
    /\ extraction[p].at = "partitioned"
    /\ writeLock[extraction[p].out] = None
    /\ writeLock' = [writeLock EXCEPT ![extraction[p].out] = p]
    /\ Proceed(p, [extraction[p] EXCEPT !.at = "parsing"])
    /\ UNCHANGED <<workingTree, registry, stored, treeChanges, failures>>

(* A unit is parsed as it is on disk now; a new include without a row fails
   the run (ids of the files that were discovered are cached). *)
ParseSource(p, s) ==
    LET r == extraction[p] IN
    /\ r.at = "parsing"
    /\ s \in r.stale /\ r.parsed[s] = None
    /\ Closure(s) \subseteq registered \cup ToMark(r)
    /\ Proceed(p, [r EXCEPT !.parsed[s] = Inputs(s, r.command[s])])
    /\ UNCHANGED <<workingTree, registry, stored, writeLock, treeChanges, failures>>

CommitExtraction(p) ==
    LET r == extraction[p] IN
    /\ r.at = "parsing" /\ \A s \in r.stale : r.parsed[s] # None
    /\ stored' = [stored EXCEPT ![r.out] =
                   [s \in Sources |-> IF s \in r.stale THEN r.parsed[s] ELSE @[s]]]
    /\ writeLock' = [writeLock EXCEPT ![r.out] = None]
    /\ Proceed(p, [r EXCEPT !.at = "committed", !.parsed = Unparsed])
    /\ UNCHANGED <<workingTree, registry, treeChanges, failures>>

\* Mutant of RecordedMtime: the file is looked at again after the parse.
RecordedMtimeNow(r, f) == content[f]

(* The mtime that the run observed: it looks at every file of its closures. *)
RecordedMtime(r, f) == r.observed[f]

(* A forced run resolves commits only here; any other used them to compare. *)
RecordedCommit(r) == IF r.force THEN head ELSE r.commit

Marked(r) ==
    [f \in Files |->
        IF f \in ToMark(r)
        THEN [db |-> r.out, mtime |-> RecordedMtime(r, f), commit |-> RecordedCommit(r)]
        ELSE indexState[f]]

(* recordIndexState: one UPDATE per row in one transaction.  When a file has
   no row any more nothing is recorded, which is only a warning. *)
RecordState(p) ==
    LET r == extraction[p] IN
    /\ r.at = "committed"
    /\ indexState' = IF ToMark(r) \subseteq registered THEN Marked(r) ELSE indexState
    /\ Proceed(p, NotRunning)
    /\ UNCHANGED <<workingTree, compileCommand, registered, complete, importing, stored, writeLock, treeChanges, failures>>

(* An error, a busy database or a crash: an open transaction is rolled back,
   committed facts stay although they are not recorded. *)
EndExtraction(p) ==
    /\ extraction[p].at # "idle" /\ failures < MaxStops
    /\ failures' = failures + 1
    /\ writeLock' = [d \in Outputs |-> IF writeLock[d] = p THEN None ELSE writeLock[d]]
    /\ Proceed(p, NotRunning)
    /\ UNCHANGED <<workingTree, registry, stored, treeChanges>>

-----------------------------------------------------------------------------
(* What others do meanwhile: editors, git, and commands on the project. *)

Change == treeChanges < MaxChanges /\ treeChanges' = treeChanges + 1

EditFile(f) ==
    /\ Change
    /\ content' = [content EXCEPT ![f] = @ + 1]
    /\ UNCHANGED <<head, registry, stored, writeLock, extraction, failures>>

GitCommit ==
    /\ Change
    /\ head' = head + 1
    /\ UNCHANGED <<content, registry, stored, writeLock, extraction, failures>>

MayMutate == MidRun \/ \A p \in Runs : extraction[p].at = "idle"

ResetRows(fs) == [f \in Files |-> IF f \in fs THEN None ELSE indexState[f]]
NewCommands(ss) == [s \in Sources |-> IF s \in ss THEN compileCommand[s] + 1 ELSE compileCommand[s]]

(* file set-option and clear-option: the rows that match are reset in the
   transaction that changes their commands. *)
SetOption(ss) ==
    /\ Change /\ MayMutate
    /\ ss # {} /\ ss \subseteq registered
    /\ compileCommand' = NewCommands(ss)
    /\ indexState' = ResetRows(ss)
    /\ UNCHANGED <<workingTree, registered, complete, importing, stored, writeLock, extraction, failures>>

(* file rm *)
DropSource(f) ==
    /\ Change /\ MayMutate
    /\ f \in registered
    /\ registered' = registered \ {f}
    /\ indexState' = ResetRows({f})
    /\ UNCHANGED <<workingTree, compileCommand, complete, importing, stored, writeLock, extraction, failures>>

(* file add: a new row, not indexed, with the command given. *)
RestoreSource(f) ==
    /\ Change /\ MayMutate
    /\ f \notin registered
    /\ registered' = registered \cup {f}
    /\ compileCommand' = NewCommands({f})
    /\ UNCHANGED <<workingTree, indexState, complete, importing, stored, writeLock, extraction, failures>>

WithRows(fs) == registered \cup fs

(* import, first transaction: rows whose command changed are reset, the
   sources have rows, and the registry is incomplete. *)
ImportStore(changed) ==
    /\ Change /\ MayMutate
    /\ compileCommand' = NewCommands(changed)
    /\ indexState' = ResetRows(changed)
    /\ registered' = WithRows(Sources)
    /\ complete' = FALSE /\ importing' = {}
    /\ UNCHANGED <<workingTree, stored, writeLock, extraction, failures>>

(* import, second transaction: every file that the sources include has a row. *)
Discovered == UNION {Closure(s) : s \in Sources}
ImportRegister ==
    /\ ~complete /\ importing = {}
    /\ importing' = Discovered
    /\ registered' = WithRows(Discovered)
    /\ UNCHANGED <<workingTree, compileCommand, indexState, complete, stored, writeLock, extraction, treeChanges, failures>>

(* import, third transaction; not reached when a file cannot be resolved. *)
ImportComplete ==
    /\ importing # {} /\ importing \subseteq registered
    /\ complete' = TRUE /\ importing' = {}
    /\ UNCHANGED <<workingTree, compileCommand, indexState, registered, stored, writeLock, extraction, treeChanges, failures>>

Extraction(p) ==
    \/ \E req \in Requests, d \in Outputs, force \in BOOLEAN : Discover(p, req, d, force)
    \/ Partition(p)
    \/ BeginExtraction(p)
    \/ \E s \in Sources : ParseSource(p, s)
    \/ CommitExtraction(p)
    \/ RecordState(p)
    \/ EndExtraction(p)

ExtractNext ==
    \/ \E p \in Runs : Extraction(p)
    \/ \E f \in Files : EditFile(f) \/ DropSource(f) \/ RestoreSource(f)
    \/ GitCommit
    \/ \E ss \in SUBSET Sources : SetOption(ss) \/ ImportStore(ss)
    \/ ImportRegister
    \/ ImportComplete

ExtractSpec == ExtractInit /\ [][ExtractNext]_extractVars

-----------------------------------------------------------------------------
(* Properties *)

(* A source that a run would skip now has, in the database that the run would
   write, facts of its current contents, headers and command, whatever edits,
   failures, crashes and other runs came before (ExtractionFreshness.h). *)
SkippedIsCurrent ==
    \A s \in Sources, d \in Outputs :
        SourceFresh(s, d, Closure(s)) => stored[d][s] = Inputs(s, compileCommand[s])

(* "Editing only a header is enough to make every translation unit that
   includes it stale" (docs/user-guide/03-extracting-facts/01-extract.md). *)
HeaderEditRearms ==
    \A s \in Sources, d \in Outputs, h \in Headers :
        LET old == stored[d][s] IN
        (/\ old # None
         /\ h \in DOMAIN old.files /\ h \in Closure(s)
         /\ content[h] > old.files[h])
        => ~SourceFresh(s, d, Closure(s))

(* A run parses after it has begun its transaction, so facts of newer inputs
   are never replaced by older ones, whichever runs overlap. *)
FactsNeverGoBack ==
    [][\A d \in Outputs, s \in Sources :
         stored[d][s] # None =>
            /\ stored'[d][s] # None
            /\ stored'[d][s].files[s] >= stored[d][s].files[s]]_extractVars

(* When nobody touched its inputs meanwhile, a run leaves every source that it
   extracted fresh: the same run made again has nothing to do. *)
RerunSkips ==
    [][\A p \in Runs, s \in Sources, d \in Outputs :
         LET r == extraction[p]
             undisturbed == /\ r.at = "committed" /\ extraction'[p] = NotRunning /\ indexState' # indexState
                            /\ s \in r.stale /\ d = r.out /\ r.closure[s] = Closure(s)
                            /\ head = r.commit
                            /\ \A f \in r.closure[s] : content[f] = r.observed[f]
         IN  undisturbed => SourceFresh(s, d, Closure(s))']_extractVars

(* Extraction moves forward and comes to an end (commands/Extract). *)
ExtractionAdvances == FactsNeverGoBack /\ RerunSkips
=============================================================================
