---------------------------- MODULE IncludeGraph -----------------------------
(***************************************************************************)
(* The direct includes of each file, in a facts database (commands/        *)
(* Dependency, storage/DependencyDatabase): what discovery finds beside    *)
(* the sources is registered, each source is preprocessed, the files it    *)
(* opens are registered too, and the edges replace those of every file     *)
(* that was visited, in one transaction.                                   *)
(*                                                                         *)
(* A header is shared by sources, is edited between two analyses, and may  *)
(* include a file for some sources only.  Discovery is what SourceDiscovery *)
(* shows it to be, in one step.                                            *)
(***************************************************************************)
EXTENDS SourceDiscovery

CONSTANTS
    IncludesAt,     \* file -> version of its text -> the files it includes
    OnlyFor,        \* <<file, included file>> -> the sources for which the directive is active
    Forced,         \* source -> the files its command includes by an option
    MaxTexts, MaxAnalyses  \* bounds

VARIABLES
    texts,      \* file -> the version of its text
    fileIds,   \* files that have an id in the project database
    dependencies,      \* include_dependency: pairs of files
    entryRows,  \* whether the facts database has call dependencies entries
    analysis,   \* the command that runs
    latest,     \* what only the property reads: file -> the version whose edges are stored
    analyses

includeVars == <<texts, fileIds, dependencies, entryRows, analysis, latest, analyses>>
graphVars == <<onDisk, walk, vanished, texts, fileIds, dependencies, entryRows, analysis, latest, analyses>>

--------------------------------------------------------------------------
(* One source through the preprocessor (ast/visitors/IncludeVisitor) *)

MayInclude(file) == {<<file, g>> : g \in IncludesAt[file][texts[file]]}
ActiveFor(source, file) ==
    {e \in MayInclude(file) : e \in DOMAIN OnlyFor => source \in OnlyFor[e]}

\* Every directive whose file is found is an edge and visits both ends; a
\* file that an option includes is visited without an edge.
visitedSources(source) ==
    LeastClosed(UNION {ActiveFor(source, f) : f \in TreeFiles}, {source} \union Forced[source])
edgesOf(source) == UNION {ActiveFor(source, f) : f \in visitedSources(source)}

--------------------------------------------------------------------------
(* The project database, by canonical paths *)

\* addBulk: a path that cannot be resolved any more is an error.
CanAdd(paths) == \A p \in paths : canonical(p) \in FilesNow
Identities(paths) == {canonical(p) : p \in paths}

\* getId: the path as it is spelled, then the one without links.
getId(path) == IF path \in fileIds THEN path
               ELSE IF canonical(path) \in fileIds THEN canonical(path) ELSE None

NoAnalysis == [at |-> "none"]
FailedAnalysis == [at |-> "failed"]

--------------------------------------------------------------------------
(* analyse *)

\* registerFiles: what discovery finds.
StartAnalysis(sources) ==
    /\ analysis.at \in {"none", "failed", "stored"} /\ analyses < MaxAnalyses
    /\ \/ /\ \A s \in SourcesOf(sources) : canonical(s) # None
          /\ \A r \in sourceRoots(sources) \union includeRoots(sources) : canonical(r) \notin Unreadable
          /\ LET found == sourceIdentities(sources) \union
                              Discoverable(sourceRoots(sources), includeRoots(sources))
             IN /\ fileIds' = fileIds \union found
                /\ analysis' = [at |-> "collecting", left |-> sources, registered |-> found,
                                visited |-> {}, edges |-> {}, read |-> {}]
       \/ analysis' = FailedAnalysis /\ UNCHANGED fileIds
    /\ analyses' = analyses + 1
    /\ UNCHANGED <<onDisk, walk, vanished, texts, dependencies, entryRows, latest>>

\* collectIncludes: one source after the other, in any order of the caller;
\* one that cannot be preprocessed ends the analysis.
CollectSource ==
    /\ analysis.at = "collecting"
    /\ \E named \in analysis.left :
          LET source == canonical(named)
          IN analysis' =
            IF source \in FilesNow /\ visitedSources(source) \subseteq FilesNow
            THEN [analysis EXCEPT
                    !.left = @ \ {named}, !.visited = @ \union visitedSources(source),
                    !.edges = @ \union edgesOf(source),
                    !.read = @ \union {<<f, texts[f]>> : f \in visitedSources(source)}]
            ELSE FailedAnalysis
    /\ UNCHANGED <<onDisk, walk, vanished, texts, fileIds, dependencies, entryRows, latest, analyses>>

\* registerIncludeFiles
RegisterIncluded ==
    /\ analysis.at = "collecting" /\ analysis.left = {}
    /\ IF CanAdd(analysis.visited)
       THEN /\ fileIds' = fileIds \union Identities(analysis.visited)
            /\ analysis' = [analysis EXCEPT !.at = "resolving", !.registered = @ \union analysis.visited]
       ELSE analysis' = FailedAnalysis /\ UNCHANGED fileIds
    /\ UNCHANGED <<onDisk, walk, vanished, texts, dependencies, entryRows, latest, analyses>>

\* resolveRegisteredFiles and toStoredGraph: every end of an edge must be
\* among the files that were registered.
BuildGraph ==
    /\ analysis.at = "resolving"
    /\ LET known == {canonical(p) : p \in {q \in analysis.registered : getId(q) # None}}
           ends == analysis.visited \union UNION {{e[1], e[2]} : e \in analysis.edges}
       IN analysis' = IF /\ \A p \in analysis.registered : getId(p) # None /\ canonical(p) # None
                         /\ {canonical(p) : p \in ends} \subseteq known
                      THEN [analysis EXCEPT !.at = "built"] ELSE FailedAnalysis
    /\ UNCHANGED <<onDisk, walk, vanished, texts, fileIds, dependencies, entryRows, latest, analyses>>

\* Mutant of Replaced: only the files that include something are cleared.
ReplacedAtEdges(visited, edges) ==
    {e \in dependencies : e[1] \notin {n[1] : n \in edges}} \union edges

\* replaceDependencies
Replaced(visited, edges) == {e \in dependencies : e[1] \notin visited} \union edges

\* One transaction, which may be refused: the databases do not pair, or the
\* facts are locked.
PersistGraph ==
    /\ analysis.at = "built"
    /\ \/ /\ dependencies' = Replaced(analysis.visited, analysis.edges)
          /\ entryRows' = FALSE
          /\ latest' = [f \in TreeFiles |->
                          LET versions == {r[2] : r \in {q \in analysis.read : q[1] = f}}
                          IN IF versions = {} THEN latest[f]
                             ELSE IF \A v, w \in versions : v = w THEN CHOOSE v \in versions : TRUE ELSE 0]
          /\ analysis' = [at |-> "stored"]
       \/ analysis' = FailedAnalysis /\ UNCHANGED <<dependencies, entryRows, latest>>
    /\ UNCHANGED <<onDisk, walk, vanished, texts, fileIds, analyses>>

--------------------------------------------------------------------------
\* Somebody edits a file.
EditText(f) ==
    /\ texts[f] < MaxTexts /\ texts[f] < Len(IncludesAt[f])
    /\ texts' = [texts EXCEPT ![f] = @ + 1]
    /\ UNCHANGED <<onDisk, walk, vanished, fileIds, dependencies, entryRows, analysis, latest, analyses>>

\* analyse call-dependencies-entry stores entries next to the dependencies.
StoreEntries ==
    /\ ~entryRows /\ entryRows' = TRUE
    /\ UNCHANGED <<onDisk, walk, vanished, texts, fileIds, dependencies, analysis, latest, analyses>>

KillAnalysis ==
    /\ analysis.at \notin {"none", "failed", "stored"}
    /\ analysis' = NoAnalysis
    /\ UNCHANGED <<onDisk, walk, vanished, texts, fileIds, dependencies, entryRows, latest, analyses>>

GraphInit ==
    /\ DiscoveryInit
    /\ texts = [f \in TreeFiles |-> 1] /\ fileIds = {} /\ dependencies = {} /\ entryRows = FALSE
    /\ analysis = NoAnalysis /\ latest = [f \in TreeFiles |-> 0] /\ analyses = 0

GraphNext ==
    \/ \E sources \in SelectedSources : StartAnalysis(sources)
    \/ /\ \E path \in onDisk : Vanish(path)
       /\ UNCHANGED <<texts, fileIds, dependencies, entryRows, analysis, latest, analyses>>
    \/ CollectSource \/ RegisterIncluded \/ BuildGraph \/ PersistGraph
    \/ \E f \in TreeFiles : EditText(f)
    \/ StoreEntries \/ KillAnalysis

GraphSpec == GraphInit /\ [][GraphNext]_graphVars

--------------------------------------------------------------------------
(* Whichever source was analysed last after an edit of a header, the graph *)
(* is right for the other sources that share it: once every file a source  *)
(* includes without a condition has been visited in its present text by    *)
(* some stored analysis, the stored edges lead from the source to all of   *)
(* these files, each with all of its unconditional includes and none that  *)
(* its text does not have, and every end of an edge is registered.         *)
(* (replaceDependencies)                                                   *)
GraphOfPresentTexts ==
    LET possible == UNION {MayInclude(f) : f \in TreeFiles}
        certain == possible \ DOMAIN OnlyFor
    IN /\ UNION {{e[1], e[2]} : e \in dependencies} \subseteq fileIds
       /\ \A s \in {f \in TreeFiles : latest[f] = texts[f]} :
             LET included == LeastClosed(certain, {s})
             IN (\A f \in included : latest[f] = texts[f]) =>
                   /\ included \subseteq LeastClosed(dependencies, {s})
                   /\ \A f \in included :
                         /\ {e \in certain : e[1] = f} \subseteq dependencies
                         /\ {e \in dependencies : e[1] = f} \subseteq possible
=============================================================================
