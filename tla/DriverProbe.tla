----------------------------- MODULE DriverProbe -----------------------------
(***************************************************************************)
(* What makes a stored compile command usable by the linked Clang          *)
(* (platform/PlatformFlags, DriverIncludes, DriverProbeKey): its resource  *)
(* directory, and for a GNU driver the C++ directories that driver prints  *)
(* when it is asked.  Asking costs a process, so the answer is remembered  *)
(* in the memory of the process and in the project database                *)
(* (storage/driverprobe), under a key made of all that it depends on.      *)
(*                                                                         *)
(* A driver is found by a name that links to an executable; executables    *)
(* are replaced, names are linked to other ones, processes are killed and  *)
(* the rows in the database are damaged or left by halves.                 *)
(*                                                                         *)
(* A path is a directory and a name, "." being the directory of whoever    *)
(* reads it.  An option is a record of its flag, the directory and the     *)
(* name of its value.                                                      *)
(***************************************************************************)
EXTENDS NoValue, Naturals, FiniteSets, Sequences, SequencesExt, FiniteSetsExt

CONSTANTS
    Tools,             \* processes of facts-tool
    EnvironmentOf,     \* process -> the variables of its environment that a driver reads
    CacheEnabled,      \* process -> whether it may use the project database
    InvocationDirectory,
    CommandsFor,       \* path of a source -> what the compilation database returns for it
    PhysicalOf,        \* path -> the path without links
    Selections,        \* the sequences of sources a process may be asked for
    DriverNames, Executables,
    SdkRoot,           \* the SDK of the machine, or None
    Resources,         \* the linked Clang's resource directory, or None
    MemoryLimit,       \* 128 in the code
    BrokenBuilds,      \* <<executable, build>> of those that fail, or print no list
    MaxReplacements, MaxDamages, MaxSelections, \* bounds
    SwitchedWhileProbing \* whether a driver may change while it is being asked

VARIABLES
    driverFile,  \* name of a driver -> the executable it links to, or None
    build,       \* executable -> the build that is installed (its size and time)
    memory,     \* process -> what it remembers: [key -> directories]
    probes,      \* the project database: key -> [count, digest, rows]
    configuring,        \* process -> the commands it configures
    replacements, damages, selections

probeVars == <<driverFile, build, memory, probes, configuring, replacements, damages, selections>>

--------------------------------------------------------------------------
(* The options of a command *)

\* The members of a sequence at some positions, in their order.
Picked(s, positions) ==
    FlattenSeq([i \in DOMAIN s |-> IF i \in positions THEN <<s[i]>> ELSE <<>>])

TakesSeparateValue == {"--target", "-target", "--gcc-toolchain", "--sysroot", "-isysroot", "-stdlib", "-B"}
PathOptions == {"--sysroot", "-isysroot", "-B"}
ProbeOptions == PathOptions \union {"-m"}

toolchainOptions(options) ==
    Picked(options, {i \in DOMAIN options : options[i].flag \in TakesSeparateValue \union {"-m"}})

\* A value that is a relative path is one of the directory of the command.
resolveProbeOptions(options, directory) ==
    [i \in DOMAIN options |->
        IF options[i].flag \in PathOptions /\ options[i].at = "."
        THEN [options[i] EXCEPT !.at = directory] ELSE options[i]]

\* A GNU driver does not know the options that only Clang has.
executableProbeOptions(options) ==
    Picked(options, {i \in DOMAIN options : options[i].flag \in ProbeOptions})

removeResourceDirectory(options) ==
    Picked(options, {i \in DOMAIN options : options[i].flag # "-resource-dir"})
hasSysroot(options) == \E i \in DOMAIN options : options[i].flag \in {"--sysroot", "-isysroot"}
explicitIncludePaths(options) ==
    {[at |-> o.at, name |-> o.name] : o \in {p \in ToSet(options) : p.flag \in {"-I", "-isystem"}}}

\* The part of configureCommand before any driver is asked.
CommandBefore(command) ==
    LET kept == Append(removeResourceDirectory(command.options),
                       [flag |-> "-resource-dir", at |-> "/", name |-> Resources])
    IN [command EXCEPT !.options =
           IF SdkRoot = None \/ hasSysroot(kept) THEN kept
           ELSE Append(kept, [flag |-> "-isysroot", at |-> "/", name |-> SdkRoot])]

appendIncludes(command, includes) ==
    LET isNew(i) == /\ includes[i] \notin explicitIncludePaths(command.options)
                    /\ \A j \in 1..(i - 1) : includes[j] # includes[i]
        added == Picked(includes, {i \in DOMAIN includes : isNew(i)})
    IN [command EXCEPT !.options = @ \o
           [i \in DOMAIN added |-> [flag |-> "-isystem", at |-> added[i].at, name |-> added[i].name]]]

isGnuCxxDriver(command) == command.driver \in DriverNames

--------------------------------------------------------------------------
(* A driver, its answer, and the key of the answer *)

\* What the executable prints depends on itself, on the options and the
\* directory it is run with, and on the environment.
DriverCall(executable, options, directory, environment) ==
    [file |-> executable, build |-> build[executable], options |-> options,
     directory |-> directory, environment |-> environment]

\* Two C++ directories with one of C between them.
SearchList(call) == <<[at |-> call, name |-> "c++"], [at |-> call, name |-> "c"],
                      [at |-> call, name |-> "c++/target"]>>
isCxxLibraryDirectory(directory) == directory.name # "c"

\* runDriverProbe and parseIncludeSearch: a failed child, a list without an
\* end and a list without a C++ directory are errors.
PrintedBy(call) == IF <<call.file, call.build>> \in BrokenBuilds THEN None
                ELSE Picked(SearchList(call),
                            {i \in DOMAIN SearchList(call) : isCxxLibraryDirectory(SearchList(call)[i])})

DirectoryOf(command) == IF command.directory = "." THEN InvocationDirectory ELSE command.directory

Asked(t, command) ==
    [name |-> command.driver, directory |-> DirectoryOf(command), environment |-> EnvironmentOf[t],
     options |-> resolveProbeOptions(toolchainOptions(command.options), DirectoryOf(command))]

\* Mutant of driverProbeKey: the executable without its size and time.
KeyWithoutStamp(t, command) ==
    LET a == Asked(t, command)
    IN [driver |-> a.name, canonical |-> driverFile[a.name],
        directory |-> a.directory, options |-> a.options, environment |-> a.environment]

driverProbeKey(t, command) ==
    LET a == Asked(t, command)
    IN [driver |-> a.name, canonical |-> driverFile[a.name], stamp |-> build[driverFile[a.name]],
        directory |-> a.directory, options |-> a.options, environment |-> a.environment]

\* What the driver answers at this moment.
AnswerNow(t, command) ==
    LET a == Asked(t, command)
    IN PrintedBy(DriverCall(driverFile[a.name], executableProbeOptions(a.options), a.directory, a.environment))

--------------------------------------------------------------------------
(* The memory and the rows *)

memoryKey(t, key) == <<CacheEnabled[t], key>>

\* An entry that is there stays; a full memory loses one, and keys are
\* digests, so that it may be any.
Remembered(held, key, includes) ==
    LET with(kept) == [k \in kept \union {key} |->
                          IF k \in DOMAIN held THEN held[k] ELSE includes]
    IN IF Cardinality(DOMAIN held) < MemoryLimit THEN {with(DOMAIN held)}
       ELSE {with(DOMAIN held \ {lost}) : lost \in DOMAIN held}

PathRows(includes) == {<<i, includes[i]>> : i \in DOMAIN includes}

\* Mutant of load: the rows that are there are taken for all.
LoadUncounted(key) ==
    IF key \notin DOMAIN probes \/ probes[key].rows = {} THEN None
    ELSE LET least == Min({r[1] : r \in probes[key].rows})
         IN [i \in 1..Cardinality(probes[key].rows) |->
                (CHOOSE r \in probes[key].rows : r[1] = least + i - 1)[2]]

\* load: the rows under a key count only if they are all there, in order,
\* and have the digest that was stored with them.
load(key) ==
    IF key \notin DOMAIN probes THEN None
    ELSE LET p == probes[key]
             positions == {r[1] : r \in p.rows}
         IN IF \/ p.rows = {}
               \/ Cardinality(p.rows) # p.count
               \/ positions # 1..p.count
            THEN None
            ELSE LET includes == [i \in 1..p.count |-> (CHOOSE r \in p.rows : r[1] = i)[2]]
                 IN IF includes = p.digest THEN includes ELSE None

\* store: one transaction.
ProbesWith(key, includes) ==
    [k \in DOMAIN probes \union {key} |->
        IF k = key THEN [count |-> Len(includes), digest |-> includes, rows |-> PathRows(includes)]
        ELSE probes[k]]

--------------------------------------------------------------------------
(* The commands of the selected sources *)

commandPath(directory, path) == IF path.at = "." THEN [path EXCEPT !.at = directory] ELSE path
SourceOf(command) == commandPath(DirectoryOf(command), command.file)

\* A compilation database has the commands of a path as it is registered, or
\* else those of the file.  (StoredCompilationDatabase::getCompileCommands)
ASSUME CommandsAssumption ==
    /\ \A path \in DOMAIN CommandsFor :
          CommandsFor[path] \in Seq([driver : STRING, directory : STRING, file : [at : STRING, name : STRING],
                                     options : Seq([flag : STRING, at : STRING, name : STRING])])
    /\ \A path \in DOMAIN CommandsFor :
          LET source == commandPath(InvocationDirectory, path)
              all == UNION {ToSet(CommandsFor[p]) : p \in DOMAIN CommandsFor}
              logical == {c \in all : SourceOf(c) = source}
              physical == {c \in all : PhysicalOf[SourceOf(c)] = PhysicalOf[source]}
          IN ToSet(CommandsFor[path]) \in {{}, IF logical # {} THEN logical ELSE physical}
    /\ Selections \subseteq Seq(DOMAIN CommandsFor)

\* Each command once, in the order of the sources: None when one has none.
selectedCommands(sources) ==
    LET all == FlattenSeq([i \in DOMAIN sources |-> CommandsFor[sources[i]]])
        first(i) == \A j \in 1..(i - 1) : all[j] # all[i]
    IN IF \E i \in DOMAIN sources : CommandsFor[sources[i]] = <<>> THEN None
       ELSE Picked(all, {i \in DOMAIN all : first(i)})

\* PlatformCompilationDatabase: the commands of a path as it is registered,
\* and only when there is none those of the same file by another path.
Configured(done, path) ==
    LET source == commandPath(InvocationDirectory, path)
        logical == Picked(done, {i \in DOMAIN done : SourceOf(done[i].of) = source})
        physical == Picked(done, {i \in DOMAIN done : PhysicalOf[SourceOf(done[i].of)] = PhysicalOf[source]})
    IN IF logical # <<>> THEN logical ELSE physical

--------------------------------------------------------------------------
NoWork == [at |-> "idle"]
NextCommand(t) == CommandBefore(Head(configuring[t].left))

\* "meant" remembers what the driver answers when it is identified: only
\* the property reads it.
FinishCommand(t, command, includes) ==
    LET w == configuring[t]
        next == [w EXCEPT !.done = Append(@, [of |-> Head(w.left), as |-> appendIncludes(command, includes),
                                              meant |-> w.meant]),
                          !.left = Tail(@), !.key = None, !.found = None, !.meant = <<>>,
                          !.at = IF Len(w.left) = 1 THEN "configured" ELSE "next"]
    IN configuring' = [configuring EXCEPT ![t] = next]

FailTool(t) == configuring' = [configuring EXCEPT ![t] = [at |-> "failed"]]

\* configurePlatformCompilationDatabase: no resource directory, or a source
\* without a command, is an error.
SelectSources(t, sources) ==
    /\ configuring[t].at \in {"idle", "configured", "failed"} /\ selections < MaxSelections
    /\ IF Resources = None \/ selectedCommands(sources) = None
       THEN FailTool(t)
       ELSE configuring' = [configuring EXCEPT ![t] =
                        [at |-> IF selectedCommands(sources) = <<>> THEN "configured" ELSE "next",
                         sources |-> sources, left |-> selectedCommands(sources), done |-> <<>>,
                         key |-> None, found |-> None, meant |-> <<>>]]
    /\ selections' = selections + 1
    /\ UNCHANGED <<driverFile, build, memory, probes, replacements, damages>>

\* Another driver than GNU's is not asked.
ConfigureClang(t) ==
    /\ configuring[t].at = "next" /\ ~isGnuCxxDriver(NextCommand(t))
    /\ FinishCommand(t, NextCommand(t), <<>>)
    /\ UNCHANGED <<driverFile, build, memory, probes, replacements, damages, selections>>

\* The compiler that the first word of a command leads to now, if any.
resolveDriver(command) == driverFile[command.driver]

\* resolveDriver, driverProbeKey and the lookup in memory.
IdentifyDriver(t) ==
    /\ configuring[t].at = "next" /\ isGnuCxxDriver(NextCommand(t))
    /\ IF resolveDriver(NextCommand(t)) = None THEN FailTool(t)
       ELSE LET key == driverProbeKey(t, NextCommand(t))
                meant == AnswerNow(t, NextCommand(t))
            IN IF memoryKey(t, key) \in DOMAIN memory[t]
               THEN LET w == configuring[t]
                    IN configuring' = [configuring EXCEPT ![t].at = "found", ![t].key = key, ![t].meant = meant,
                                            ![t].found = memory[t][memoryKey(t, key)]]
               ELSE configuring' = [configuring EXCEPT ![t].at = IF CacheEnabled[t] THEN "reading" ELSE "asking",
                                         ![t].key = key, ![t].meant = meant]
    /\ UNCHANGED <<driverFile, build, memory, probes, replacements, damages, selections>>

\* A read that fails, on a lock or on an unknown schema, finds nothing.
ReadProbe(t) ==
    /\ configuring[t].at = "reading"
    /\ \/ /\ load(configuring[t].key) # None
          /\ \E held \in Remembered(memory[t], memoryKey(t, configuring[t].key), load(configuring[t].key)) :
                /\ memory' = [memory EXCEPT ![t] = held]
                /\ configuring' = [configuring EXCEPT ![t].at = "found", ![t].found = load(configuring[t].key)]
       \/ /\ configuring' = [configuring EXCEPT ![t].at = "asking"]
          /\ UNCHANGED memory
    /\ UNCHANGED <<driverFile, build, probes, replacements, damages, selections>>

\* The driver is run by its name, which may lead elsewhere by now.
AskDriver(t) ==
    /\ configuring[t].at = "asking"
    /\ LET answer == IF driverFile[NextCommand(t).driver] = None THEN None ELSE AnswerNow(t, NextCommand(t))
       IN IF answer = None THEN FailTool(t)
          ELSE configuring' = [configuring EXCEPT ![t].at = "publishing", ![t].found = answer]
    /\ UNCHANGED <<driverFile, build, memory, probes, replacements, damages, selections>>

\* The row, when it can be written, then the memory.
PublishProbe(t) ==
    /\ configuring[t].at = "publishing"
    /\ probes' \in {probes} \union (IF CacheEnabled[t] THEN {ProbesWith(configuring[t].key, configuring[t].found)} ELSE {})
    /\ \E held \in Remembered(memory[t], memoryKey(t, configuring[t].key), configuring[t].found) :
          /\ memory' = [memory EXCEPT ![t] = held]
          /\ configuring' = [configuring EXCEPT ![t].at = "found", ![t].found = held[memoryKey(t, configuring[t].key)]]
    /\ UNCHANGED <<driverFile, build, replacements, damages, selections>>

AppendProbed(t) ==
    /\ configuring[t].at = "found"
    /\ FinishCommand(t, NextCommand(t), configuring[t].found)
    /\ UNCHANGED <<driverFile, build, memory, probes, replacements, damages, selections>>

--------------------------------------------------------------------------
(* Around the processes *)

Identified(t) == configuring[t].at \in {"reading", "asking"}
Quiet == SwitchedWhileProbing \/ \A t \in Tools : ~Identified(t)

\* A new build of the compiler, another one under the name, or none.
ReplaceDriver ==
    /\ replacements < MaxReplacements /\ Quiet
    /\ \/ /\ \E f \in Executables : build' = [build EXCEPT ![f] = @ + 1]
          /\ UNCHANGED driverFile
       \/ /\ \E d \in DriverNames : \E f \in (Executables \union {None}) \ {driverFile[d]} :
                driverFile' = [driverFile EXCEPT ![d] = f]
          /\ UNCHANGED build
    /\ replacements' = replacements + 1
    /\ UNCHANGED <<memory, probes, configuring, damages, selections>>

\* PathRows that are lost or altered outside of the tool.
DamageRows(key) ==
    /\ damages < MaxDamages
    /\ \E r \in probes[key].rows : \E changed \in {{}, {<<r[1], [r[2] EXCEPT !.name = "altered"]>>}} :
          probes' = [probes EXCEPT ![key].rows = (@ \ {r}) \union changed]
    /\ damages' = damages + 1
    /\ UNCHANGED <<driverFile, build, memory, configuring, replacements, selections>>

\* The memory goes with the process.
EndTool(t) ==
    /\ configuring[t] # NoWork \/ memory[t] # <<>>
    /\ configuring' = [configuring EXCEPT ![t] = NoWork]
    /\ memory' = [memory EXCEPT ![t] = <<>>]
    /\ UNCHANGED <<driverFile, build, probes, replacements, damages, selections>>

DriverProbeInit ==
    /\ driverFile \in [DriverNames -> Executables]
    /\ build = [f \in Executables |-> 1]
    /\ memory = [t \in Tools |-> <<>>] /\ probes = <<>>
    /\ configuring = [t \in Tools |-> NoWork]
    /\ replacements = 0 /\ damages = 0 /\ selections = 0

DriverProbeNext ==
    \/ \E t \in Tools :
          \/ \E sources \in Selections : SelectSources(t, sources)
          \/ ConfigureClang(t) \/ IdentifyDriver(t) \/ ReadProbe(t)
          \/ AskDriver(t) \/ PublishProbe(t) \/ AppendProbed(t) \/ EndTool(t)
    \/ ReplaceDriver
    \/ \E key \in DOMAIN probes : DamageRows(key)

DriverProbeSpec == DriverProbeInit /\ [][DriverProbeNext]_probeVars

--------------------------------------------------------------------------
(* Whoever is configured, after whatever was remembered, replaced or       *)
(* damaged before, has for each source the commands that were selected for *)
(* it, each once, and each with the directories that its driver answered   *)
(* when it was identified.  (configurePlatformCompilationDatabase)         *)
DirectoriesOf(options, command) ==
    [i \in 1..(Len(options) - Len(command.options)) |->
        [at |-> options[Len(command.options) + i].at, name |-> options[Len(command.options) + i].name]]

ProbedAsAnswered ==
    \A t \in Tools : configuring[t].at = "configured" =>
        \A i \in DOMAIN configuring[t].sources :
            LET found == Configured(configuring[t].done, configuring[t].sources[i])
            IN /\ {d.of : d \in ToSet(found)} = ToSet(CommandsFor[configuring[t].sources[i]])
               /\ \A j, k \in DOMAIN found : found[j].of = found[k].of => j = k
               /\ \A d \in ToSet(found) :
                     ToSet(DirectoriesOf(d.as.options, CommandBefore(d.of)))
                        = ToSet(d.meant) \ explicitIncludePaths(d.of.options)
=============================================================================
