------------------------------ MODULE AstCache ------------------------------
(***************************************************************************)
(* The cache of parsed translation units, seen from one of them.  A parse  *)
(* is saved as a file in the cache directory and as rows of the project    *)
(* database: the files that were read and the HEAD commits of their        *)
(* repositories.  Whoever wants the unit later compares commits only.      *)
(* Several processes share the entry while people edit and commit.         *)
(***************************************************************************)
EXTENDS NoValue
LOCAL INSTANCE Naturals

CONSTANTS
    Repositories,
    MainRepository,           \* the repository of the source
    Searched,       \* repositories of the include-search directories
    NamedBy,       \* per version of the source: other repositories it names
    Optional,       \* first version of a searched one with the optional header
    Broken,         \* versions of the source that do not compile
    Processes,
    MaxTreeEdits,       \* bound on the edits, one of each repository
    MaxUses         \* bound on the operations of each process

VARIABLES
    tree,       \* version of each working tree
    headOf,       \* version of each HEAD
    snapshot,   \* ast_cache_snapshot with its inputs, includes and revisions
    artifact,   \* ast_cache_artifact
    astFile,       \* the serialized unit
    lock,       \* the process that holds the lock of the entry
    user,       \* per process: the operation in progress
    uses, treeEdits \* operations and edits so far (bounds)

cacheVars == <<tree, headOf, snapshot, artifact, astFile, lock, user, uses, treeEdits>>
people == <<tree, headOf, treeEdits>>
others == <<tree, headOf, treeEdits, uses>>
rows == <<snapshot, artifact>>

\* A working tree has a first and a second version.
TreeVersions == 1..2

ASSUME CacheAssumption ==
    /\ MainRepository \in Repositories /\ Searched \subseteq Repositories
    /\ NamedBy \in [TreeVersions -> SUBSET Repositories]
    /\ None \notin TreeVersions /\ None \notin Processes

Unread == [r \in Repositories |-> None]

\* A process at rest; `got` is what its last operation took from the cache.
Resting == [at |-> "rest", want |-> None, floor |-> Unread, base |-> None, seen |-> Unread,
            text |-> Unread, held |-> None, got |-> None]

-----------------------------------------------------------------------------
(* A snapshot, and when it is current *)

\* The repositories of the files that a parse has read.
InputRepositories(text) ==
    {MainRepository} \cup NamedBy[text[MainRepository]] \cup {r \in Searched : text[r] >= Optional}

\* Commits are recorded for the inputs and the search directories.
Recorded(text) == InputRepositories(text) \cup Searched

captureSnapshot(text) ==
    [inputs |-> InputRepositories(text), revisions |-> [r \in Recorded(text) |-> headOf[r]], text |-> text]

\* The digest stands for everything in the row; what was read is not in it.
Generation(s) == <<s.inputs, s.revisions>>

currentSnapshot(s) == \A r \in DOMAIN s.revisions : s.revisions[r] = headOf[r]

\* Mutant of Observed: the parse ends without looking at the commits again.
ObservedAtMost(u) == \A r \in Repositories : u.seen[r] # None => u.seen[r] <= headOf[r]

\* Between the observation of a repository and now its HEAD has not moved.
Observed(u) == \A r \in Repositories : u.seen[r] \in {None, headOf[r]}

\* The artifact belongs to the snapshot and the file is the one it describes.
Intact(held) ==
    /\ artifact # None /\ snapshot # None
    /\ artifact.generation = Generation(snapshot)
    /\ artifact.generation = Generation(held)
    /\ astFile = artifact.digest

-----------------------------------------------------------------------------
(* Looking the entry up *)

Reached(p, step) == user[p].at = step
Go(p, step) == user' = [user EXCEPT ![p].at = step]
Miss(p) == user' = [user EXCEPT ![p] = [Resting EXCEPT !.at = "base", !.want = user[p].want]]

\* A use wants the unit, an import its includes and a fresh unit if there is
\* none, a reader of dependencies the rows alone.
Ask(p) ==
    /\ Reached(p, "rest") /\ uses[p] < MaxUses[p] /\ uses' = [uses EXCEPT ![p] = @ + 1]
    /\ \E want \in {"unit", "prepare", "dependencies"} :
         user' = [user EXCEPT ![p] = [Resting EXCEPT !.at = "lookup", !.want = want,
                                                     !.floor = headOf]]
    /\ UNCHANGED <<people, rows, astFile, lock>>

\* The lock is tried once: a busy entry is a miss.
TryLoad(p) ==
    /\ Reached(p, "lookup") /\ user[p].want # "dependencies"
    /\ IF lock = None /\ snapshot # None /\ currentSnapshot(snapshot)
       THEN /\ lock' = p
            /\ user' = [user EXCEPT ![p].at = "validate", ![p].held = snapshot]
       ELSE Miss(p) /\ UNCHANGED lock
    /\ UNCHANGED <<others, rows, astFile>>

Validate(p) ==
    /\ Reached(p, "validate") /\ lock' = None
    /\ IF Intact(user[p].held)
       THEN user' = [user EXCEPT ![p] = [Resting EXCEPT !.floor = user[p].floor,
                !.got = [inputs |-> user[p].held.inputs,
                         text |-> IF user[p].want = "unit" THEN astFile ELSE user[p].held.text]]]
       ELSE Miss(p)
    /\ UNCHANGED <<others, rows, astFile>>

cachedIncludes(p) ==
    /\ Reached(p, "lookup") /\ user[p].want = "dependencies"
    /\ user' = [user EXCEPT ![p] =
           IF snapshot # None /\ currentSnapshot(snapshot)
           THEN [Resting EXCEPT !.floor = user[p].floor,
                    !.got = [inputs |-> snapshot.inputs, text |-> snapshot.text]]
           ELSE Resting]
    /\ UNCHANGED <<others, rows, astFile, lock>>

-----------------------------------------------------------------------------
(* A parse that observes the repositories whose files it enters *)

Base(p) ==
    /\ Reached(p, "base")
    /\ user' = [user EXCEPT ![p] = [Resting EXCEPT !.at = "parse", !.want = user[p].want,
                            !.base = headOf[MainRepository],
                            !.seen = [r \in Repositories |->
                                IF r = MainRepository \/ r \in Searched THEN headOf[r] ELSE None]]]
    /\ UNCHANGED <<others, rows, astFile, lock>>

Unfinished(u) ==
    IF u.text[MainRepository] = None THEN {MainRepository}
    ELSE {r \in NamedBy[u.text[MainRepository]] \cup Searched : u.text[r] = None}

\* A directive is reported before the file is read; the order is the text's.
Read(p) ==
    /\ Reached(p, "parse")
    /\ Unfinished(user[p]) # {}
    /\ LET r == CHOOSE q \in Unfinished(user[p]) : TRUE IN
         IF user[p].seen[r] = None THEN user' = [user EXCEPT ![p].seen[r] = headOf[r]]
                                   ELSE user' = [user EXCEPT ![p].text[r] = tree[r]]
    /\ UNCHANGED <<others, rows, astFile, lock>>

\* A unit with errors is never stored; an import then only preprocesses it.
EndParse(p) ==
    /\ Reached(p, "parse") /\ Unfinished(user[p]) = {}
    /\ LET u == user[p] IN
       IF u.text[MainRepository] \in Broken /\ u.want # "scan"
       THEN user' = [user EXCEPT ![p] =
                IF u.want = "prepare" THEN [Resting EXCEPT !.at = "base", !.want = "scan"]
                ELSE Resting]
       ELSE IF u.base = headOf[MainRepository] /\ (u.want = "scan" => Observed(u))
            THEN user' = [user EXCEPT ![p].at = "check", ![p].held = captureSnapshot(u.text)]
            ELSE user' = [user EXCEPT ![p] = Resting]
    /\ UNCHANGED <<others, rows, astFile, lock>>

-----------------------------------------------------------------------------
(* Publishing it *)

Check(p) ==
    /\ Reached(p, "check")
    /\ LET u == user[p] IN
       IF Observed(u) /\ currentSnapshot(u.held) /\ (u.want = "scan" => u.base = headOf[MainRepository])
       THEN user' = [user EXCEPT ![p] =
                [Resting EXCEPT !.at = IF u.want = "scan" THEN "rows" ELSE "store",
                                !.held = u.held]]
       ELSE user' = [user EXCEPT ![p] = Resting]
    /\ UNCHANGED <<others, rows, astFile, lock>>

\* Without the lock or the room for the file the dependencies are still saved.
storeAST(p) ==
    /\ Reached(p, "store")
    /\ \/ lock = None /\ lock' = p /\ Go(p, "rename")
       \/ Go(p, "rows") /\ UNCHANGED lock
    /\ UNCHANGED <<others, rows, astFile>>

Rename(p) ==
    /\ Reached(p, "rename")
    /\ \/ astFile' = user[p].held.text /\ Go(p, "metadata") /\ UNCHANGED lock
       \/ lock' = None /\ Go(p, "rows") /\ UNCHANGED astFile
    /\ UNCHANGED <<others, rows>>

Stored(s, a) ==
    /\ snapshot' = s
    /\ artifact' = IF a # None THEN a
                   ELSE IF artifact # None /\ artifact.generation = Generation(s)
                        THEN artifact ELSE None

\* One transaction; when it fails the other one is tried.
WriteMetadata(p) ==
    /\ Reached(p, "metadata") /\ lock' = None
    /\ \/ /\ Stored(user[p].held,
                    [digest |-> astFile, generation |-> Generation(user[p].held)])
          /\ user' = [user EXCEPT ![p] = Resting]
       \/ Go(p, "rows") /\ UNCHANGED rows
    /\ UNCHANGED <<others, astFile>>

WriteRows(p) ==
    /\ Reached(p, "rows")
    /\ Stored(user[p].held, None)
    /\ user' = [user EXCEPT ![p] = Resting]
    /\ UNCHANGED <<others, astFile, lock>>

-----------------------------------------------------------------------------
(* Everybody else *)

\* extract --no-ast-cache
clearSnapshots ==
    /\ snapshot # None
    /\ snapshot' = None /\ artifact' = None
    /\ UNCHANGED <<others, astFile, lock, user>>

\* The lock of a dead process is broken by the next one that tries it.
Kill(p) ==
    /\ ~Reached(p, "rest")
    /\ user' = [user EXCEPT ![p] = Resting]
    /\ lock' = IF lock = p THEN None ELSE lock
    /\ UNCHANGED <<others, rows, astFile>>

EditTree(r) ==
    /\ tree[r] = 1 /\ treeEdits < MaxTreeEdits /\ treeEdits' = treeEdits + 1
    /\ tree' = [tree EXCEPT ![r] = @ + 1]
    /\ UNCHANGED <<headOf, rows, astFile, lock, user, uses>>

Commit(r) ==
    /\ headOf[r] # tree[r]
    /\ headOf' = [headOf EXCEPT ![r] = tree[r]]
    /\ UNCHANGED <<tree, rows, astFile, lock, user, uses, treeEdits>>

AstCacheInit ==
    /\ tree = [r \in Repositories |-> 1] /\ headOf = tree
    /\ snapshot = None /\ artifact = None /\ astFile = None
    /\ uses = [p \in Processes |-> 0] /\ treeEdits = 0
    /\ lock = None /\ user = [p \in Processes |-> Resting]

AstCacheNext ==
    \/ \E p \in Processes :
         \/ Ask(p) \/ TryLoad(p) \/ Validate(p) \/ cachedIncludes(p)
         \/ Base(p) \/ Read(p) \/ EndParse(p)
         \/ Check(p) \/ storeAST(p) \/ Rename(p) \/ WriteMetadata(p) \/ WriteRows(p)
         \/ Kill(p)
    \/ \E r \in Repositories : EditTree(r) \/ Commit(r)
    \/ clearSnapshots

CacheSpec == AstCacheInit /\ [][AstCacheNext]_cacheVars

-----------------------------------------------------------------------------
(* What is taken from the cache misses no commit that was made before it   *)
(* was asked for: in every repository that the unit looked at, it was      *)
(* parsed from that commit or a later state, and the dependencies that     *)
(* come with it are those of that parse.  Readers, writers that replace    *)
(* the file, commits in the middle of a parse and writers killed between   *)
(* the file and its rows are all in between.                               *)
NoCommitMissed ==
    \A p \in Processes : user[p].got # None =>
        LET got == user[p].got IN
        /\ got.inputs = InputRepositories(got.text)
        /\ \A r \in Repositories : got.text[r] # None => got.text[r] >= user[p].floor[r]
=============================================================================
