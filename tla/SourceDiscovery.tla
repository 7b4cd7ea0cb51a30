--------------------------- MODULE SourceDiscovery ---------------------------
(***************************************************************************)
(* The files of a project that an import or a dependency analysis finds    *)
(* beside its sources (tooling/CompilationFiles): the directories of the   *)
(* sources and the include directories of their commands are walked, one   *)
(* after the other, through the links that stay inside of them.            *)
(*                                                                         *)
(* A path is the sequence of its names below "/".  A path without links is *)
(* canonical.  A link holds the canonical path of its target.  A directory *)
(* is read in an order that nobody chooses, while files disappear.         *)
(***************************************************************************)
EXTENDS NoValue, Naturals, FiniteSets, Sequences, SequencesExt

CONSTANTS
    TreeDirectories, TreeFiles, \* canonical paths that may be on the disk
    TreeLinks,            \* path of a link in a canonical directory -> canonical path of its target
    SuffixedNames,       \* names with a suffix of a C or C++ input
    SuffixlessHeaders,   \* names without a suffix, documentation and hidden files aside
    Unreadable,          \* directories that cannot be opened
    SelectedSources,            \* the sets of sources that are asked for together
    CommandsOf,          \* path of a source -> its commands: their source and include directories
    MaxVanished,         \* bound: entries that disappear
    LinksVanish          \* whether a link may disappear during a walk

\* Links are no files or directories, and everything is in a directory.
ASSUME TreeAssumption ==
    /\ TreeDirectories \union TreeFiles \union DOMAIN TreeLinks \subseteq Seq(STRING) \ {<<>>}
    /\ \A p \in TreeDirectories \union TreeFiles \union DOMAIN TreeLinks :
          Front(p) \in TreeDirectories \union {<<>>}
    /\ \A l \in DOMAIN TreeLinks : TreeLinks[l] \in TreeDirectories \union TreeFiles
    /\ TreeDirectories \intersect TreeFiles = {}
    /\ DOMAIN TreeLinks \intersect (TreeDirectories \union TreeFiles) = {}
    /\ None \notin Seq(STRING)
    /\ \A selected \in SelectedSources : \A s \in selected :
          /\ s \in Seq(STRING)
          /\ \A c \in CommandsOf[s] : c.source \in Seq(STRING) /\ c.includes \subseteq Seq(STRING)

VARIABLES
    onDisk,     \* paths of the directories, the files and the links that exist
    walk,       \* the discovery that runs
    vanished    \* entries that have disappeared

discoveryVars == <<onDisk, walk, vanished>>

--------------------------------------------------------------------------
(* The file system *)

DirectoriesNow == TreeDirectories \intersect onDisk
FilesNow == TreeFiles \intersect onDisk
LinksNow == DOMAIN TreeLinks \intersect onDisk

\* One name further: through a link when there is one.
NextName(disk, at, name) ==
    LET next == IF at = None THEN None ELSE Append(at, name)
    IN IF next \in DOMAIN TreeLinks \intersect disk /\ TreeLinks[next] \in disk THEN TreeLinks[next]
       ELSE IF next \in (TreeDirectories \union TreeFiles) \intersect disk THEN next ELSE None

\* Where the names of a path lead to, or None.
leadsTo(disk, path) ==
    LET at[n \in 0..Len(path)] == IF n = 0 THEN <<>> ELSE NextName(disk, at[n - 1], path[n])
    IN at[Len(path)]

canonical(path) == leadsTo(onDisk, path)
IsLink(path) == LET parent == canonical(Front(path))
                IN parent # None /\ Append(parent, Last(path)) \in LinksNow
isDirectory(path) == canonical(path) \in DirectoriesNow
NamesIn(directory) == {Last(p) : p \in {q \in onDisk : q # <<>> /\ Front(q) = directory}}

--------------------------------------------------------------------------
(* What counts *)

\* A name without a suffix may be a header below an include directory.
compilableInput(path, suffixless) ==
    Last(path) \in SuffixedNames \/ (suffixless /\ Last(path) \in SuffixlessHeaders)

\* The target of a link is followed inside of any root of the discovery.
allowedTarget(target, roots) ==
    \E r \in roots : canonical(r) # None /\ IsPrefix(canonical(r), target)

\* The roots and the identities of the commands of the selected sources; a
\* source that cannot be resolved is an error.
SourcesOf(selected) ==
    {s : s \in selected} \union UNION {{c.source : c \in CommandsOf[s]} : s \in selected}
sourceRoots(selected) == {Front(canonical(s)) : s \in SourcesOf(selected)}
includeRoots(selected) == UNION {UNION {c.includes : c \in CommandsOf[s]} : s \in selected}
sourceIdentities(selected) == {canonical(s) : s \in SourcesOf(selected)}

\* Mutant of RootsOf: a directory that is named both ways is a source directory.
RootsNarrowed(selected) ==
    {[path |-> r, suffixless |-> FALSE] : r \in sourceRoots(selected)}
    \union {[path |-> r, suffixless |-> TRUE] : r \in includeRoots(selected) \ sourceRoots(selected)}

\* A directory that is named both ways is an include directory.
RootsOf(selected) ==
    {[path |-> r, suffixless |-> TRUE] : r \in includeRoots(selected)}
    \union {[path |-> r, suffixless |-> FALSE] : r \in sourceRoots(selected) \ includeRoots(selected)}

--------------------------------------------------------------------------
NoWalk == [at |-> "none"]

\* appendCommandSources and the order of appendDiscoveredFiles: include
\* directories first.
BeginWalk(selected) ==
    /\ walk = NoWalk
    /\ walk' = IF \E s \in SourcesOf(selected) : canonical(s) = None
               THEN [at |-> "failed"]
               ELSE [at |-> "roots", left |-> RootsOf(selected), identities |-> sourceIdentities(selected),
                     sourceRoots |-> sourceRoots(selected), includeRoots |-> includeRoots(selected),
                     files |-> sourceIdentities(selected),
                     root |-> None, visited |-> {}, pending |-> <<>>, directory |-> None, entries |-> {}]
    /\ UNCHANGED <<onDisk, vanished>>

\* appendDirectoryFiles: a root that is missing, or a file, is passed over.
\* (One that vanishes between this test and its canonical path is an error,
\* which ends the walk with no answer: left out.)
BeginRoot ==
    /\ walk.at = "roots"
    /\ \E r \in walk.left :
          /\ r.suffixless \/ \A other \in walk.left : ~other.suffixless
          /\ walk' = IF isDirectory(r.path)
                     THEN [walk EXCEPT !.left = @ \ {r}, !.at = "directories", !.root = r,
                                       !.visited = {canonical(r.path)}, !.pending = <<r.path>>]
                     ELSE [walk EXCEPT !.left = @ \ {r}]
    /\ UNCHANGED <<onDisk, vanished>>

\* The directory that was found last is read first.  A root that cannot be
\* read is an error, another directory is only reported.
OpenDirectory ==
    /\ walk.at = "directories" /\ walk.pending # <<>>
    /\ LET path == Last(walk.pending)
           failed == path = walk.root.path /\ canonical(path) \in Unreadable
       IN walk' = IF failed THEN [at |-> "failed"]
                  ELSE [walk EXCEPT
                           !.pending = Front(@),
                           !.at = IF isDirectory(path) /\ canonical(path) \notin Unreadable
                                  THEN "entries" ELSE "directories",
                           !.directory = path,
                           !.entries = IF isDirectory(path) THEN NamesIn(canonical(path)) ELSE {}]
    /\ UNCHANGED <<onDisk, vanished>>

\* Mutant of Admitted: a directory is known by its name.
VisitedByName(path) ==
    LET target == canonical(path)
    IN IF target \notin DirectoriesNow THEN [walk EXCEPT !.files = @ \union {target}]
       ELSE [walk EXCEPT !.visited = @ \union {<<Last(path)>>},
                         !.pending = IF <<Last(path)>> \in walk.visited THEN @ ELSE Append(@, path)]

\* A directory is walked once below a root, whatever paths lead to it.
Admitted(path) ==
    LET target == canonical(path)
    IN IF target \notin DirectoriesNow THEN [walk EXCEPT !.files = @ \union {target}]
       ELSE [walk EXCEPT !.visited = @ \union {target},
                         !.pending = IF target \in walk.visited THEN @ ELSE Append(@, path)]

\* One entry: what is broken, gone, of another kind or out of the roots is
\* passed over.
ReadEntry ==
    /\ walk.at = "entries"
    /\ \E name \in walk.entries :
          LET path == Append(walk.directory, name)
              target == canonical(path)
              passed == \/ target = None
                        \/ target \in FilesNow /\ ~compilableInput(path, walk.root.suffixless)
                        \/ IsLink(path) /\ ~allowedTarget(target, walk.sourceRoots \union walk.includeRoots)
              seen == IF passed THEN walk ELSE Admitted(path)
          IN walk' = [seen EXCEPT !.entries = @ \ {name}]
    /\ UNCHANGED <<onDisk, vanished>>

\* (An iterator that fails in the middle skips the rest of its directory with
\* a diagnostic: left out, a directory that opens can be read to its end.)
CloseDirectory ==
    /\ walk.at = "entries" /\ walk.entries = {}
    /\ walk' = [walk EXCEPT !.at = "directories", !.directory = None]
    /\ UNCHANGED <<onDisk, vanished>>

EndRoot ==
    /\ walk.at = "directories" /\ walk.pending = <<>>
    /\ walk' = [walk EXCEPT !.at = IF walk.left = {} THEN "found" ELSE "roots",
                            !.root = None, !.visited = {}]
    /\ UNCHANGED <<onDisk, vanished>>

\* The last roots may all have been passed over.
EndRoots ==
    /\ walk.at = "roots" /\ walk.left = {}
    /\ walk' = [walk EXCEPT !.at = "found", !.root = None]
    /\ UNCHANGED <<onDisk, vanished>>

--------------------------------------------------------------------------
\* A file, an empty directory or a link is removed by somebody else.
Vanish(path) ==
    /\ vanished < MaxVanished /\ path \in onDisk
    /\ path \in TreeDirectories => NamesIn(path) = {}
    /\ path \in DOMAIN TreeLinks => LinksVanish \/ walk.at \in {"none", "found", "failed"}
    /\ onDisk' = onDisk \ {path}
    /\ vanished' = vanished + 1
    /\ UNCHANGED walk

DiscoveryInit ==
    /\ onDisk = TreeDirectories \union TreeFiles \union DOMAIN TreeLinks
    /\ walk = NoWalk /\ vanished = 0

DiscoveryNext ==
    \/ \E selected \in SelectedSources : BeginWalk(selected)
    \/ BeginRoot \/ OpenDirectory \/ ReadEntry \/ CloseDirectory \/ EndRoot \/ EndRoots
    \/ \E path \in onDisk : Vanish(path)

DiscoverySpec == DiscoveryInit /\ [][DiscoveryNext]_discoveryVars

--------------------------------------------------------------------------
(* The reference: what can be reached from a root.  Each directory below   *)
(* it, and each one an allowed link of these leads to.                     *)

\* The least set with the start that no edge leaves.
LeastClosed(edges, start) ==
    LET more == {e[2] : e \in edges} \ start
        closed == {c \in SUBSET more :
                     \A e \in edges : e[1] \in start \union c => e[2] \in start \union c}
    IN start \union {x \in more : \A c \in closed : x \in c}

EntriesOf(directories) ==
    UNION {{<<d, Append(d, n)>> : n \in NamesIn(d)} : d \in directories \ Unreadable}

ReachedFrom(directory, roots) ==
    LET followed == {e \in EntriesOf(DirectoriesNow) :
                        /\ canonical(e[2]) \in DirectoriesNow
                        /\ IsLink(e[2]) => allowedTarget(canonical(e[2]), roots)}
    IN LeastClosed({<<e[1], canonical(e[2])>> : e \in followed}, {directory})

InputsBelow(root, suffixless, roots) ==
    LET below == IF isDirectory(root) THEN ReachedFrom(canonical(root), roots) ELSE {}
        inputs == {e \in EntriesOf(below) : /\ canonical(e[2]) \in FilesNow
                                            /\ compilableInput(e[2], suffixless)
                                            /\ IsLink(e[2]) => allowedTarget(canonical(e[2]), roots)}
    IN {canonical(e[2]) : e \in inputs}

Discoverable(sourceDirectories, includeDirectories) ==
    LET roots == sourceDirectories \union includeDirectories
    IN (UNION {InputsBelow(r, TRUE, roots) : r \in includeDirectories})
       \union (UNION {InputsBelow(r, FALSE, roots) : r \in sourceDirectories})

(* In whatever order directories are read, and through whatever cycles     *)
(* their links make, discovery finds each compilable file that is still    *)
(* reachable from a root at its end, and none that is not, or was not      *)
(* before entries disappeared.  (discoverCompilationFiles)                 *)
FoundInAnyOrder ==
    walk.at = "found" =>
        LET expected == Discoverable(walk.sourceRoots, walk.includeRoots)
        IN /\ expected \subseteq walk.files
           /\ vanished = 0 => walk.files = expected \union walk.identities
=============================================================================
