--------------------------- MODULE StoredCommands ---------------------------
(***************************************************************************)
(* The compile commands of a project, from the compilation database of one *)
(* checkout to the command that a later extraction of another one runs.    *)
(* Import anchors the commands at the project root, gives each source to a *)
(* component, drops what only a build needs and writes the paths below the *)
(* component in terms of it; reading resolves them against the checkout in *)
(* effect.                                                                 *)
(***************************************************************************)
EXTENDS NoValue
LOCAL INSTANCE Naturals
LOCAL INSTANCE Sequences
LOCAL INSTANCE SequencesExt
LOCAL INSTANCE FiniteSetsExt

CONSTANTS
    Clones,         \* checkouts
    CloneRoot,      \* their directories
    RepositoryOf,
    ProjectComponents,   \* per repository: a sequence of [name, path]
    Versions,       \* path segments that look like versions, with their order
    Links,          \* symbolic links and what they lead to
    Databases,      \* compilation databases: sequences of commands
    PathFlags,      \* options with a path that import rewrites ...
    IncludeFlags,   \* ... and those that reading resolves
    Dropped, DroppedPrefix, DroppedWithArgument,
    MaxImports      \* bound on the imports

VARIABLES
    activeClone,    \* per repository
    storedFile,     \* per file of a component: driver, directory, options
    selectedClone,  \* the clone that an invocation selects, or None
    given,          \* the command that each stored one was made from
    imports
commandVars == <<activeClone, storedFile, selectedClone, given, imports>>

(* A path is names below "/", below a directory ("."), or below a component *)
(* (its name).  An argument is a flag, a path, or a flag joined to a path.  *)
NoPath == [at |-> "", names |-> <<>>]
Absolute(names) == [at |-> "/", names |-> names]
Argument(flag, path) == [flag |-> flag, path |-> path]
Word(path) == Argument("", path)
SourceMarker == Argument("<source>", NoPath)

RepositoryNames == {RepositoryOf[c] : c \in Clones}
External == [name |-> "external", path |-> <<>>]    \* always there, with root "/"

-----------------------------------------------------------------------------
(* Paths *)

lexically_normal(names) ==
    FoldLeft(LAMBDA done, n : IF n # ".." THEN Append(done, n)
                              ELSE IF done = <<>> THEN <<>> ELSE Front(done), <<>>, names)

Below(root, names) == SubSeq(names, Len(root) + 1, Len(names))
ownsPath(root, names) == IsPrefix(root, names)

weakly_canonical(names) ==
    LET Followed(p) == LET links == {l \in DOMAIN Links : ownsPath(l, p)}
                       IN  IF links = {} THEN p
                           ELSE LET l == CHOOSE l \in links : TRUE IN Links[l] \o Below(l, p)
    IN  Followed(Followed(names))    \* no more than a link below a link

logicalCommandPath(command, path) ==
    lexically_normal(IF path.at = "/" THEN path.names ELSE command.directory \o path.names)
resolveCommandPath(command, path) == weakly_canonical(logicalCommandPath(command, path))

\* A path that is spelled below the root stays below it, whatever it links to.
projectPath(root, command, path) ==
    LET logical == logicalCommandPath(command, path)
    IN  IF ownsPath(root.logical, logical)
        THEN root.canonical \o Below(root.logical, logical)
        ELSE weakly_canonical(logical)

\* The deepest directory above all working directories and sources.
commonRoot(first, named) ==
    SubSeq(first, 1, Max({n \in 0..Len(first) : \A p \in named : ownsPath(SubSeq(first, 1, n), p)}))

\* The closest directory with a .git at or above this one, or None.
gitRoot(directory) ==
    LET roots == {n \in 0..Len(directory) :
                    weakly_canonical(SubSeq(directory, 1, n)) \in {CloneRoot[c] : c \in Clones}}
    IN  IF roots = {} THEN None ELSE SubSeq(directory, 1, Max(roots))

selectProjectRoot(commands) ==
    LET Root(Spelling(_, _)) ==
            commonRoot(Spelling(commands[1], Absolute(commands[1].directory)),
                       UNION {{Spelling(c, Absolute(c.directory)), Spelling(c, c.file)} : c \in Range(commands)})
        logical == Root(logicalCommandPath)
        canonical == Root(resolveCommandPath)
        chosen == IF gitRoot(logical) # None THEN gitRoot(logical)
                  ELSE IF gitRoot(canonical) # None THEN gitRoot(canonical)
                  ELSE IF Len(canonical) > Len(logical) THEN canonical ELSE logical
    IN  [logical |-> chosen, canonical |-> weakly_canonical(chosen)]

effectiveComponentRoot(component, clone) ==
    IF component = External THEN component.path ELSE CloneRoot[clone] \o component.path

\* The component with the longest root above the source, or None.
selectOwningComponent(components, clone, source) ==
    LET Root(i) == effectiveComponentRoot(components[i], clone)
        owners == {i \in DOMAIN components : ownsPath(Root(i), source)}
        longest == {i \in owners : \A j \in owners : Len(Root(j)) <= Len(Root(i))}
    IN  IF owners = {} THEN None ELSE components[Min(longest)]

portablePath(names, component, clone) ==
    LET root == effectiveComponentRoot(component, clone)
    IN  IF ownsPath(root, names) THEN [at |-> component.name, names |-> Below(root, names)]
        ELSE Absolute(names)

-----------------------------------------------------------------------------
(* Arguments *)

\* Keep is told what the argument before left to do with this one.
Filtered(arguments, Step(_, _)) ==
    FoldLeft(Step, [out |-> <<>>, next |-> FALSE], arguments).out

isSourceArgument(root, command, source, argument) ==
    argument.flag = "" /\ projectPath(root, command, argument.path) = source

\* The source is marked where it first stands; further mentions go.
preserveSourcePosition(root, command, source, arguments) ==
    Filtered(arguments, LAMBDA s, a :
        IF ~ isSourceArgument(root, command, source, a) THEN [s EXCEPT !.out = Append(@, a)]
        ELSE IF s.next THEN s
        ELSE [out |-> Append(s.out, SourceMarker), next |-> TRUE])

\* What goes by itself; of an option that goes by its prefix a separate
\* argument stays behind.
hasDropPrefix(argument) == argument.flag \in Dropped \cup DroppedPrefix

sanitizeCommandArguments(arguments) ==
    Filtered(arguments, LAMBDA s, a :
        IF s.next THEN [s EXCEPT !.next = FALSE]
        ELSE IF hasDropPrefix(a) THEN s
        ELSE IF a.flag \in DroppedWithArgument THEN [s EXCEPT !.next = TRUE]
        ELSE [s EXCEPT !.out = Append(@, a)])

\* The paths of the options in Flags, joined or in the next argument.
Rewritten(arguments, Flags, Rewrite(_)) ==
    Filtered(arguments, LAMBDA s, a :
        [out |-> Append(s.out, IF (s.next \/ a.flag \in Flags) /\ a.path # NoPath
                               THEN [a EXCEPT !.path = Rewrite(@)] ELSE a),
         next |-> ~ s.next /\ a.flag \in Flags /\ a.path = NoPath])

\* Mutant of normalizePathOptions: relative paths stay as they are.
normalizeAbsoluteOptions(root, command, options, component, clone) ==
    Rewritten(options, PathFlags, LAMBDA p : IF p.at = "/" THEN portablePath(p.names, component, clone) ELSE p)

normalizePathOptions(root, command, options, component, clone) ==
    Rewritten(options, PathFlags,
              LAMBDA p : portablePath(projectPath(root, command, p), component, clone))

-----------------------------------------------------------------------------
(* Import *)

\* A driver that is a path is kept only if it leads to a compiler.
compilerDriver(command) == IF command.usable THEN command.driver ELSE [at |-> ".", names |-> <<"clang++">>]

\* The row of a command, with the source it is for and its owner (or None).
prepareCommand(root, command, clone) ==
    LET source == projectPath(root, command, command.file)
        component == selectOwningComponent(ProjectComponents[RepositoryOf[clone]], clone, source)
        options == sanitizeCommandArguments(
                     preserveSourcePosition(root, command, source, command.arguments))
    IN  IF component = None THEN [component |-> None]
        ELSE [component |-> component,
              file |-> Below(effectiveComponentRoot(component, clone), source),
              rank |-> command.rank,
              from |-> command,
              driver |-> compilerDriver(command),
              directory |-> portablePath(projectPath(root, command, Absolute(command.directory)), component, clone),
              options |-> normalizePathOptions(root, command, options, component, clone)]

RowKey(repository, row) == <<repository, row.component, row.file>>

\* Of several commands of a source the one with the least key is selected.
Winners(prepared) ==
    {prepared[i] : i \in {i \in DOMAIN prepared : \A j \in DOMAIN prepared :
        <<prepared[j].component, prepared[j].file>> = <<prepared[i].component, prepared[i].file>>
        => prepared[i].rank < prepared[j].rank \/ (prepared[i].rank = prepared[j].rank /\ i <= j)}}

\* storeProjectConfiguration: rows of sources that are not named stay.
Store(clone, rows) ==
    LET repository == RepositoryOf[clone]
        RowOf == [k \in {RowKey(repository, r) : r \in rows} |->
                    CHOOSE r \in rows : RowKey(repository, r) = k]
        Updated(old, Value(_)) == [k \in DOMAIN old \cup DOMAIN RowOf |->
                                     IF k \in DOMAIN RowOf THEN Value(RowOf[k]) ELSE old[k]]
    IN  /\ storedFile' = Updated(storedFile, LAMBDA r :
                            [driver |-> r.driver, directory |-> r.directory, options |-> r.options])
        /\ given' = Updated(given, LAMBDA r : [clone |-> clone, command |-> r.from])

\* The checkout is found from the commands, and becomes the active one, or is
\* named by the watcher (identity) and must be the active one still.
importProjectConfiguration(database, identity) ==
    LET root == IF identity = None THEN selectProjectRoot(database)
                ELSE [logical |-> CloneRoot[identity], canonical |-> CloneRoot[identity]]
        clone == CHOOSE c \in Clones : CloneRoot[c] = root.canonical
        prepared == [i \in DOMAIN database |-> prepareCommand(root, database[i], clone)]
    IN  /\ imports < MaxImports /\ selectedClone = None
        /\ identity # None => activeClone[RepositoryOf[identity]] = identity
        /\ \A i \in DOMAIN prepared : prepared[i].component # None
        /\ activeClone' = [activeClone EXCEPT ![RepositoryOf[clone]] = clone]
        /\ Store(clone, Winners(prepared))
        /\ imports' = imports + 1
        /\ UNCHANGED selectedClone

\* repo switch
activateRegisteredClone(clone) ==
    /\ selectedClone = None
    /\ activeClone[RepositoryOf[clone]] \notin {None, clone}
    /\ activeClone' = [activeClone EXCEPT ![RepositoryOf[clone]] = clone]
    /\ UNCHANGED <<storedFile, selectedClone, given, imports>>

\* An operation of the API runs with a clone of its own choice, or has ended.
ScopedCloneContext(clone) ==
    /\ (clone = None) # (selectedClone = None)
    /\ selectedClone' = clone
    /\ clone # None => activeClone[RepositoryOf[clone]] # None
    /\ UNCHANGED <<activeClone, storedFile, given, imports>>

-----------------------------------------------------------------------------
(* Reading back *)

invocationClone(repository) ==
    IF selectedClone # None /\ RepositoryOf[selectedClone] = repository THEN selectedClone
    ELSE activeClone[repository]

\* Every component that is registered, with its root; the external one is first.
registeredComponents ==
    {[id |-> <<None, External>>, name |-> External.name, root |-> <<>>]} \cup
    UNION {{[id |-> <<r, c>>, name |-> c.name, root |-> effectiveComponentRoot(c, invocationClone(r))] :
              c \in Range(ProjectComponents[r])} : r \in {r \in RepositoryNames : activeClone[r] # None}}

\* A name stands for its one root, or for the newest of several versions.
componentAliases ==
    LET Roots(name) == {c.root : c \in {c \in registeredComponents : c.name = name}}
        Versioned(p) == Len(p) > 1 /\ Last(p) \in DOMAIN Versions
        Base(p) == IF Versioned(p) THEN Front(p) ELSE p
        Number(p) == IF Versioned(p) THEN Versions[Last(p)] ELSE 0
        Alias(name) == CHOOSE p \in Roots(name) : \A q \in Roots(name) : Number(q) <= Number(p)
        named == {c.name : c \in registeredComponents}
    IN  [n \in {n \in named : \A p, q \in Roots(n) : Base(p) = Base(q)} |-> Alias(n)]

\* `<name>` is the alias, or else the root of the file's own component.
expandLabels(path, root) ==
    IF path.at \in DOMAIN componentAliases THEN componentAliases[path.at] \o path.names
    ELSE root \o path.names

resolvePath(path, root) ==
    IF path.at \in {"/", ".", ""} THEN path ELSE Absolute(weakly_canonical(expandLabels(path, root)))

\* Mutant of remapCompilePath: only the source is looked up in the selected clone.
remapNoPath(path, repository) == path

\* Absolute paths below the active clone move to the selected one.
remapCompilePath(path, repository) ==
    LET from == CloneRoot[activeClone[repository]]
    IN  IF path.at = "/" /\ invocationClone(repository) # activeClone[repository] /\ ownsPath(from, path.names)
        THEN Absolute(CloneRoot[selectedClone] \o Below(from, path.names))
        ELSE path

resolveStoredPath(path, root, repository) == remapCompilePath(resolvePath(path, root), repository)

resolveIncludePaths(options, root, repository) ==
    Rewritten(options, IncludeFlags, LAMBDA p : resolveStoredPath(p, root, repository))

restoreSourceArgument(arguments, source) ==
    IF SourceMarker \in Range(arguments)
    THEN [i \in DOMAIN arguments |-> IF arguments[i] = SourceMarker THEN Word(source) ELSE arguments[i]]
    ELSE Append(arguments, Word(source))

\* The stored row of a file, under the clone in effect.
resolveStoredCommand(key) ==
    LET root == effectiveComponentRoot(key[2], invocationClone(key[1]))
        row == storedFile[key]
        source == Absolute(lexically_normal(root \o key[3]))
    IN  [file |-> source,
         directory |-> resolveStoredPath(row.directory, root, key[1]).names,
         driver |-> remapCompilePath(row.driver, key[1]),
         arguments |-> restoreSourceArgument(
             resolveIncludePaths(sanitizeCommandArguments(row.options), root, key[1]), source)]

\* Mutant of identifyRequestedFile: the component with the shortest root.
identifyAtShortest(path) ==
    LET owners == {c \in registeredComponents : ownsPath(c.root, path)}
        c == CHOOSE c \in owners : \A d \in owners : d.root # <<>> => Len(c.root) <= Len(d.root) /\ c.root # <<>>
    IN  <<c.id, Below(c.root, path)>>

\* The component and the file that a requested path names, or None: the longest
\* root above the path as it is spelled, else above the path it leads to.
identifyRequestedFile(path) ==
    LET Owners(p) == {c \in registeredComponents : ownsPath(c.root, p)}
        identity == IF Owners(path) # {} THEN path ELSE weakly_canonical(path)
        longest == {c \in Owners(identity) : \A d \in Owners(identity) : Len(d.root) <= Len(c.root)}
    IN  IF Cardinality(longest) # 1 THEN None
        ELSE LET c == CHOOSE c \in longest : TRUE IN <<c.id, Below(c.root, identity)>>

\* The stored command of a requested source; {} when there is none to use.
readRequestedFile(path) ==
    {k \in DOMAIN storedFile : identifyRequestedFile(path) = <<<<k[1], k[2]>>, k[3]>>}

-----------------------------------------------------------------------------
StoredCommandsInit ==
    /\ activeClone = [r \in RepositoryNames |-> None]
    /\ storedFile = <<>> /\ given = <<>>
    /\ selectedClone = None /\ imports = 0

StoredCommandsNext ==
    \/ \E d \in Databases, identity \in Clones \cup {None} : importProjectConfiguration(d, identity)
    \/ \E c \in Clones : activateRegisteredClone(c)
    \/ \E c \in Clones \cup {None} : ScopedCloneContext(c)

-----------------------------------------------------------------------------
(* Properties *)

\* What a compiler takes from arguments: options in order, joined to their
\* paths, without those that only concern the build.
Denoted(arguments) ==
    LET Noise == Dropped \cup DroppedPrefix \cup DroppedWithArgument
        TakesArgument == PathFlags \cup IncludeFlags \cup DroppedWithArgument \cup DroppedPrefix
        Taken(flag, path) == IF flag \in Noise \cup {""} THEN <<>> ELSE <<Argument(flag, path)>>
    IN  FoldLeft(LAMBDA s, a :
            IF a.flag = "" THEN [out |-> s.out \o Taken(s.flag, a.path), flag |-> ""]
            ELSE IF a.path = NoPath /\ a.flag \in TakesArgument THEN [s EXCEPT !.flag = a.flag]
            ELSE [out |-> s.out \o Taken(a.flag, a.path), flag |-> ""],
        [out |-> <<>>, flag |-> ""], arguments).out

\* The place of a path in a checkout, however the checkout is spelled; or None.
InCheckout(clone, names) ==
    LET roots == {n \in 0..Len(names) : weakly_canonical(SubSeq(names, 1, n)) = CloneRoot[clone]}
    IN  IF roots = {} THEN None ELSE SubSeq(names, Min(roots) + 1, Len(names))

\* The command that is read back names the source, the directory, the driver
\* and, in order, the options of the imported one, at the same place of the
\* checkout in effect.  Two kinds of paths stay in the checkout of the import:
\* when the repository has been switched to another one for good, all but the
\* source and the rewritten options below its component; and an absolute path
\* that import does not rewrite, when it is spelled through a link.
BuildContextKept ==
    \A key \in DOMAIN storedFile :
        LET from == given[key].clone
            command == given[key].command
            read == resolveStoredCommand(key)
            switched == from # activeClone[key[1]]
            Moved(names) == weakly_canonical(
                IF InCheckout(from, names) = None THEN names
                ELSE CloneRoot[invocationClone(key[1])] \o InCheckout(from, names))
            Old(path) == logicalCommandPath(command, path)
            New(path) == weakly_canonical(logicalCommandPath(read, path))
            Own(names) == LET place == InCheckout(from, names)
                          IN  place # None /\ selectOwningComponent(ProjectComponents[key[1]], from,
                                                 CloneRoot[from] \o place) = key[2]
            Follows(flag, path) ==
                IF flag \in PathFlags THEN switched => Own(Old(path))
                ELSE ~ switched /\ (path.at = "." \/ ownsPath(CloneRoot[from], path.names))
            wanted == Denoted(command.arguments)
            got == Denoted(read.arguments)
        IN  /\ weakly_canonical(read.file.names) = Moved(Old(command.file))
            /\ Len(SelectSeq(read.arguments, LAMBDA a : a = Word(read.file))) = 1
            /\ Len(got) = Len(wanted)
            /\ \A i \in DOMAIN wanted :
                  /\ got[i].flag = wanted[i].flag
                  /\ wanted[i].path # NoPath /\ Follows(wanted[i].flag, wanted[i].path)
                     => New(got[i].path) = Moved(Old(wanted[i].path))
            /\ ~ switched => /\ weakly_canonical(read.directory) = Moved(command.directory)
                             /\ command.usable /\ Follows("", command.driver)
                                => New(read.driver) = Moved(Old(command.driver))

\* A source that was imported is found by its path in the checkout in effect,
\* and no path finds the command of another file.
RequestFindsItsFile ==
    /\ \A key \in DOMAIN storedFile : readRequestedFile(resolveStoredCommand(key).file.names) = {key}
    /\ \A d \in Databases : \A c \in Range(d) :
         LET path == logicalCommandPath(c, c.file)
         IN  \A key \in readRequestedFile(path) :
               weakly_canonical(resolveStoredCommand(key).file.names) = weakly_canonical(path)

\* What is read back is what was imported, and it is found: the context of a
\* build survives upgrades, switches and links (importProjectConfiguration,
\* loadStoredCompilationDatabase).
StoredBuildKept == BuildContextKept /\ RequestFindsItsFile
=============================================================================
