---------------------------- MODULE ProjectProofs ----------------------------
(***************************************************************************)
(* Proofs about the databases of a project, for every set of files,        *)
(* sources, outputs and runs.                                              *)
(*                                                                         *)
(*   ExtractIndex   a step of an extraction never takes back what another  *)
(*                  run stored, and what a run skips is current            *)
(*   ProjectFacts   a project and the facts it is paired with name the     *)
(*                  same files, and an accepted pair stays accepted        *)
(*   Migration      an upgrade is whole or leaves the database as it was,  *)
(*                  and a reader that finds the current version finds      *)
(*                  every table of it                                      *)
(*   FactStore      whatever runs leave in a facts database fits together, *)
(*                  its entries have the calls of the bodies that were     *)
(*                  read, and an id never denotes another symbol           *)
(*                                                                         *)
(* Each part first types the variables, then states what one action does   *)
(* to the fields it writes, and then shows the strengthened invariant      *)
(* preserved, one step for each action.                                    *)
(***************************************************************************)
EXTENDS ExtractIndex, ProjectFacts, Migration, FactStore, FiniteSetTheorems, TLAPS

-----------------------------------------------------------------------------
(* Incremental extraction: the types *)

RunRecords ==
    [at : {"idle", "discovered", "partitioned", "parsing", "committed"},
     out : Outputs \cup {None}, force : BOOLEAN, selected : SUBSET Sources,
     command : [Sources -> Nat], closure : [Sources -> SUBSET Files],
     stale : SUBSET Sources, commit : Nat, observed : [Files -> Nat],
     parsed : [Sources -> FactInputs \cup {None}]]

\* A content is a number of changes.
ExtractTypeOK ==
    /\ content \in [Files -> Nat] /\ head \in Nat
    /\ treeChanges \in 0..MaxChanges /\ failures \in Nat
    /\ \A f \in Files : content[f] <= treeChanges
    /\ compileCommand \in [Sources -> Nat]
    /\ indexState \in [Files -> IndexStates \cup {None}]
    /\ registered \in SUBSET Files /\ complete \in BOOLEAN /\ importing \in SUBSET Files
    /\ stored \in [Outputs -> [Sources -> FactInputs \cup {None}]]
    /\ writeLock \in [Outputs -> Runs \cup {None}]
    /\ extraction \in [Runs -> RunRecords]

LEMMA ContentBounded ==
    ASSUME ExtractTypeOK, NEW f \in Files
    PROVE  content[f] \in 0..MaxChanges
  BY ExtractAssumption DEF ExtractTypeOK

LEMMA ClosureTyped ==
    ASSUME ExtractTypeOK, NEW s \in Sources
    PROVE  /\ Closure(s) \in SUBSET Files /\ s \in Closure(s)
           /\ Includes[s][content[s]] \in SUBSET Headers
  <1>1. s \in Files
    BY DEF Files
  <1>2. content[s] \in 0..MaxChanges
    BY <1>1, ContentBounded
  <1>3. Includes[s] \in [0..MaxChanges -> SUBSET Headers]
    BY ExtractAssumption
  <1>4. Includes[s][content[s]] \in SUBSET Headers
    BY <1>2, <1>3
  <1> QED BY <1>1, <1>4 DEF Closure, Files

LEMMA InputsTyped ==
    ASSUME ExtractTypeOK, NEW s \in Sources, NEW c \in Nat
    PROVE  /\ Inputs(s, c) \in FactInputs /\ Inputs(s, c) # None
           /\ Inputs(s, c).files = [f \in Closure(s) |-> content[f]]
           /\ Inputs(s, c).command = c
  <1>1. Closure(s) \in SUBSET Files
    BY ClosureTyped
  <1>2. [f \in Closure(s) |-> content[f]] \in [Closure(s) -> Nat]
    BY <1>1 DEF ExtractTypeOK
  <1>3. [f \in Closure(s) |-> content[f]] \in UNION {[fs -> Nat] : fs \in SUBSET Files}
    BY <1>1, <1>2
  <1>4. Inputs(s, c) \in FactInputs
    BY <1>3 DEF Inputs, FactInputs
  <1>5. Inputs(s, c) # None
    BY <1>4, ExtractAssumption
  <1> QED BY <1>4, <1>5 DEF Inputs

LEMMA UnparsedTyped == Unparsed \in [Sources -> FactInputs \cup {None}]
                       /\ \A s \in Sources : Unparsed[s] = None
  BY DEF Unparsed

LEMMA NotRunningTyped == NotRunning \in RunRecords
  BY UnparsedTyped DEF NotRunning, RunRecords

LEMMA NotRunningFields ==
    /\ NotRunning.at = "idle" /\ NotRunning.out = None /\ NotRunning.stale = {}
    /\ \A s \in Sources : NotRunning.parsed[s] = None
  BY UnparsedTyped DEF NotRunning

LEMMA Proceeded ==
    ASSUME ExtractTypeOK, NEW p \in Runs, NEW run, Proceed(p, run)
    PROVE  /\ extraction'[p] = run
           /\ \A q \in Runs : q # p => extraction'[q] = extraction[q]
           /\ run \in RunRecords => extraction' \in [Runs -> RunRecords]
  BY DEF Proceed, ExtractTypeOK

LEMMA DiscoverRun ==
    ASSUME ExtractTypeOK, NEW p \in Runs, NEW req \in Requests, NEW d \in Outputs,
           NEW force \in BOOLEAN, Discover(p, req, d, force)
    PROVE  LET run == extraction'[p] IN
           /\ extraction' \in [Runs -> RunRecords]
           /\ \A q \in Runs : q # p => extraction'[q] = extraction[q]
           /\ run.at = "discovered" /\ run.out = d /\ run.stale = {}
           /\ run.selected = Selected(req)
           /\ \A s \in Sources : run.parsed[s] = None
           /\ \A s \in run.selected : run.command[s] = compileCommand[s] /\ run.closure[s] = Closure(s)
  <1>1. Selected(req) \in SUBSET Sources
    BY ExtractAssumption DEF Selected
  <1>2. StoredCommands(Selected(req)) \in [Sources -> Nat]
    BY DEF StoredCommands, ExtractTypeOK
  <1>3. Closures(Selected(req)) \in [Sources -> SUBSET Files]
    BY ClosureTyped DEF Closures
  <1> DEFINE new == [NotRunning EXCEPT !.at = "discovered", !.out = d, !.force = force,
                                       !.selected = Selected(req),
                                       !.command = StoredCommands(Selected(req)),
                                       !.closure = Closures(Selected(req))]
  <1>4. Proceed(p, new)
    BY DEF Discover
  <1>5. new \in RunRecords
    BY <1>1, <1>2, <1>3, NotRunningTyped DEF RunRecords
  <1>6. /\ new.at = "discovered" /\ new.out = d /\ new.stale = {} /\ new.selected = Selected(req)
        /\ new.parsed = Unparsed /\ new.command = StoredCommands(Selected(req))
        /\ new.closure = Closures(Selected(req))
    BY DEF NotRunning
  <1> HIDE DEF new
  <1>7. extraction'[p] = new
    BY <1>4, Proceeded
  <1>8. extraction' \in [Runs -> RunRecords] /\ \A q \in Runs : q # p => extraction'[q] = extraction[q]
    BY <1>4, <1>5, Proceeded
  <1> QED BY <1>1, <1>6, <1>7, <1>8, UnparsedTyped DEF StoredCommands, Closures

LEMMA StaleTyped ==
    ASSUME ExtractTypeOK, NEW r \in RunRecords
    PROVE  StaleSources(r) \in SUBSET r.selected /\ StaleSources(r) \in SUBSET Sources
  BY DEF StaleSources, RunRecords

\* What an action of run p leaves of its record and of those of the others.
Others(p) == \A q \in Runs : q # p => extraction'[q] = extraction[q]

Keeps(p) ==
    LET r == extraction[p]
        run == extraction'[p]
    IN  /\ run.out = r.out /\ run.force = r.force /\ run.selected = r.selected
        /\ run.command = r.command /\ run.closure = r.closure

LEMMA PartitionRun ==
    ASSUME ExtractTypeOK, NEW p \in Runs, Partition(p)
    PROVE  /\ extraction' \in [Runs -> RunRecords] /\ Others(p)
           /\ \/ extraction'[p] = NotRunning
              \/ /\ Keeps(p) /\ extraction'[p].at = "partitioned"
                 /\ extraction'[p].stale = StaleSources(extraction[p])
                 /\ extraction'[p].commit = head /\ extraction'[p].observed = content
                 /\ extraction'[p].parsed = extraction[p].parsed
  <1> DEFINE r == extraction[p]
             new == [r EXCEPT !.at = "partitioned", !.stale = StaleSources(r), !.commit = head,
                              !.observed = content]
  <1>1. r \in RunRecords
    BY DEF ExtractTypeOK
  <1>2. Proceed(p, NotRunning) \/ Proceed(p, new)
    BY DEF Partition
  <1>3. new \in RunRecords
    BY <1>1, StaleTyped DEF RunRecords, ExtractTypeOK
  <1>4. /\ new.out = r.out /\ new.force = r.force /\ new.selected = r.selected
        /\ new.command = r.command /\ new.closure = r.closure
        /\ new.at = "partitioned" /\ new.stale = StaleSources(r)
        /\ new.commit = head /\ new.observed = content /\ new.parsed = r.parsed
    BY <1>1 DEF RunRecords
  <1> HIDE DEF new
  <1>5. CASE Proceed(p, NotRunning)
    BY <1>5, Proceeded, NotRunningTyped DEF Others
  <1>6. CASE Proceed(p, new)
    <2>1. extraction'[p] = new /\ extraction' \in [Runs -> RunRecords] /\ Others(p)
      BY <1>3, <1>6, Proceeded DEF Others
    <2> QED BY <1>4, <2>1 DEF Keeps
  <1> QED BY <1>2, <1>5, <1>6

LEMMA BeginRun ==
    ASSUME ExtractTypeOK, NEW p \in Runs, BeginExtraction(p)
    PROVE  /\ extraction' \in [Runs -> RunRecords] /\ Others(p) /\ Keeps(p)
           /\ extraction'[p].at = "parsing" /\ extraction'[p].stale = extraction[p].stale
           /\ extraction'[p].commit = extraction[p].commit
           /\ extraction'[p].observed = extraction[p].observed
           /\ extraction'[p].parsed = extraction[p].parsed
  <1> DEFINE r == extraction[p]
             new == [r EXCEPT !.at = "parsing"]
  <1>1. r \in RunRecords
    BY DEF ExtractTypeOK
  <1>2. Proceed(p, new)
    BY DEF BeginExtraction
  <1>3. new \in RunRecords
    BY <1>1 DEF RunRecords
  <1>4. /\ new.out = r.out /\ new.force = r.force /\ new.selected = r.selected
        /\ new.command = r.command /\ new.closure = r.closure
        /\ new.at = "parsing" /\ new.stale = r.stale
        /\ new.commit = r.commit /\ new.observed = r.observed /\ new.parsed = r.parsed
    BY <1>1 DEF RunRecords
  <1> HIDE DEF new
  <1>5. extraction'[p] = new /\ extraction' \in [Runs -> RunRecords] /\ Others(p)
    BY <1>2, <1>3, Proceeded DEF Others
  <1> QED BY <1>4, <1>5 DEF Keeps

LEMMA ParseRun ==
    ASSUME ExtractTypeOK, NEW p \in Runs, NEW s \in Sources, ParseSource(p, s)
    PROVE  /\ extraction' \in [Runs -> RunRecords] /\ Others(p) /\ Keeps(p)
           /\ extraction[p].at = "parsing" /\ extraction'[p].at = "parsing"
           /\ extraction'[p].stale = extraction[p].stale /\ s \in extraction[p].stale
           /\ extraction'[p].commit = extraction[p].commit
           /\ extraction'[p].observed = extraction[p].observed
           /\ extraction'[p].parsed[s] = Inputs(s, extraction[p].command[s])
           /\ \A t \in Sources : t # s => extraction'[p].parsed[t] = extraction[p].parsed[t]
  <1> DEFINE r == extraction[p]
             new == [r EXCEPT !.parsed[s] = Inputs(s, r.command[s])]
  <1>1. r \in RunRecords
    BY DEF ExtractTypeOK
  <1>2. Proceed(p, new) /\ r.at = "parsing" /\ s \in r.stale
    BY DEF ParseSource
  <1>3. r.parsed \in [Sources -> FactInputs \cup {None}] /\ r.command[s] \in Nat
    BY <1>1 DEF RunRecords
  <1>4. Inputs(s, r.command[s]) \in FactInputs
    BY <1>3, InputsTyped
  <1>5. new.parsed = [r.parsed EXCEPT ![s] = Inputs(s, r.command[s])]
    BY <1>1 DEF RunRecords
  <1>6. new \in RunRecords
    <2>1. [r.parsed EXCEPT ![s] = Inputs(s, r.command[s])] \in [Sources -> FactInputs \cup {None}]
      BY <1>3, <1>4
    <2> QED BY <1>1, <2>1 DEF RunRecords
  <1>7. /\ new.out = r.out /\ new.force = r.force /\ new.selected = r.selected
        /\ new.command = r.command /\ new.closure = r.closure
        /\ new.at = r.at /\ new.stale = r.stale
        /\ new.commit = r.commit /\ new.observed = r.observed
    BY <1>1 DEF RunRecords
  <1> HIDE DEF new
  <1>8. extraction'[p] = new /\ extraction' \in [Runs -> RunRecords] /\ Others(p)
    BY <1>2, <1>6, Proceeded DEF Others
  <1> QED BY <1>2, <1>3, <1>5, <1>7, <1>8 DEF Keeps

LEMMA CommitRun ==
    ASSUME ExtractTypeOK, NEW p \in Runs, CommitExtraction(p)
    PROVE  /\ extraction' \in [Runs -> RunRecords] /\ Others(p) /\ Keeps(p)
           /\ extraction[p].at = "parsing" /\ extraction'[p].at = "committed"
           /\ extraction'[p].stale = extraction[p].stale
           /\ extraction'[p].commit = extraction[p].commit
           /\ extraction'[p].observed = extraction[p].observed
           /\ \A s \in Sources : extraction'[p].parsed[s] = None
  <1> DEFINE r == extraction[p]
             new == [r EXCEPT !.at = "committed", !.parsed = Unparsed]
  <1>1. r \in RunRecords
    BY DEF ExtractTypeOK
  <1>2. Proceed(p, new) /\ r.at = "parsing"
    BY DEF CommitExtraction
  <1>3. new \in RunRecords
    BY <1>1, UnparsedTyped DEF RunRecords
  <1>4. /\ new.out = r.out /\ new.force = r.force /\ new.selected = r.selected
        /\ new.command = r.command /\ new.closure = r.closure
        /\ new.at = "committed" /\ new.stale = r.stale
        /\ new.commit = r.commit /\ new.observed = r.observed /\ new.parsed = Unparsed
    BY <1>1 DEF RunRecords
  <1> HIDE DEF new
  <1>5. extraction'[p] = new /\ extraction' \in [Runs -> RunRecords] /\ Others(p)
    BY <1>2, <1>3, Proceeded DEF Others
  <1> QED BY <1>2, <1>4, <1>5, UnparsedTyped DEF Keeps

LEMMA LastRun ==
    ASSUME ExtractTypeOK, NEW p \in Runs, RecordState(p) \/ EndExtraction(p)
    PROVE  /\ extraction' \in [Runs -> RunRecords] /\ Others(p) /\ extraction'[p] = NotRunning
  <1>1. Proceed(p, NotRunning)
    BY DEF RecordState, EndExtraction
  <1> QED BY <1>1, Proceeded, NotRunningTyped DEF Others

-----------------------------------------------------------------------------
(* The types stay *)

LEMMA MarkedTyped ==
    ASSUME ExtractTypeOK, NEW p \in Runs, extraction[p].out \in Outputs
    PROVE  Marked(extraction[p]) \in [Files -> IndexStates \cup {None}]
  <1> DEFINE r == extraction[p]
  <1>1. r \in RunRecords
    BY DEF ExtractTypeOK
  <1>2. ASSUME NEW f \in Files
        PROVE  [db |-> r.out, mtime |-> RecordedMtime(r, f), commit |-> RecordedCommit(r)] \in IndexStates
    <2>1. r.observed[f] \in Nat /\ r.commit \in Nat /\ head \in Nat
      BY <1>1 DEF RunRecords, ExtractTypeOK
    <2> QED BY <2>1 DEF RecordedMtime, RecordedCommit, IndexStates
  <1> QED BY <1>2 DEF Marked, ExtractTypeOK

LEMMA CommitTyped ==
    ASSUME ExtractTypeOK, NEW p \in Runs, CommitExtraction(p)
    PROVE  stored' \in [Outputs -> [Sources -> FactInputs \cup {None}]]
  <1> DEFINE r == extraction[p]
  <1>1. r \in RunRecords
    BY DEF ExtractTypeOK
  <1>2. r.parsed \in [Sources -> FactInputs \cup {None}]
    BY <1>1 DEF RunRecords
  <1>3. stored' = [stored EXCEPT ![r.out] =
                     [s \in Sources |-> IF s \in r.stale THEN r.parsed[s] ELSE @[s]]]
    BY DEF CommitExtraction
  <1>4. stored \in [Outputs -> [Sources -> FactInputs \cup {None}]]
    BY DEF ExtractTypeOK
  <1> HIDE DEF r
  <1>5. CASE r.out \in Outputs
    <2>1. stored[r.out] \in [Sources -> FactInputs \cup {None}]
      BY <1>4, <1>5
    <2>2. [s \in Sources |-> IF s \in r.stale THEN r.parsed[s] ELSE stored[r.out][s]]
            \in [Sources -> FactInputs \cup {None}]
      BY <1>2, <2>1
    <2> QED BY <1>3, <1>4, <2>2
  <1>6. CASE r.out \notin Outputs
    BY <1>3, <1>4, <1>6
  <1> QED BY <1>5, <1>6

\* The commands on the project change rows and commands within their types.
LEMMA RowsTyped ==
    ASSUME ExtractTypeOK
    PROVE  /\ \A fs : ResetRows(fs) \in [Files -> IndexStates \cup {None}]
           /\ \A ss : NewCommands(ss) \in [Sources -> Nat]
           /\ Sources \in SUBSET Files
           /\ Discovered \in SUBSET Files
  <1>1. \A fs : ResetRows(fs) \in [Files -> IndexStates \cup {None}]
    BY DEF ResetRows, ExtractTypeOK
  <1>2. \A ss : NewCommands(ss) \in [Sources -> Nat]
    BY DEF NewCommands, ExtractTypeOK
  <1>3. Discovered \in SUBSET Files
    BY ClosureTyped DEF Discovered
  <1> QED BY <1>1, <1>2, <1>3 DEF Files

\* A run that has begun has an output.
OutputKnown == \A p \in Runs : extraction[p].at # "idle" => extraction[p].out \in Outputs

LEMMA ExtractInitTyped == ExtractInit => ExtractTypeOK /\ OutputKnown
  <1> SUFFICES ASSUME ExtractInit PROVE ExtractTypeOK /\ OutputKnown
    OBVIOUS
  <1>1. extraction \in [Runs -> RunRecords] /\ \A p \in Runs : extraction[p].at = "idle"
    BY NotRunningTyped, NotRunningFields DEF ExtractInit
  <1> QED BY <1>1, ExtractAssumption DEF ExtractInit, ExtractTypeOK, OutputKnown

\* What changes outside the runs: edits, git and the commands on the project.
Outside ==
    \/ \E f \in Files : EditFile(f) \/ DropSource(f) \/ RestoreSource(f)
    \/ GitCommit
    \/ \E ss \in SUBSET Sources : SetOption(ss) \/ ImportStore(ss)
    \/ ImportRegister
    \/ ImportComplete

LEMMA OutsideFrame ==
    ASSUME Outside
    PROVE  UNCHANGED <<extraction, stored, writeLock, failures>>
  BY DEF Outside, EditFile, DropSource, RestoreSource, GitCommit, SetOption, ImportStore,
     ImportRegister, ImportComplete

LEMMA OutsideTyped ==
    ASSUME ExtractTypeOK, Outside
    PROVE  ExtractTypeOK'
  <1> USE DEF ExtractTypeOK
  <1>1. UNCHANGED <<extraction, stored, writeLock, failures>>
    BY OutsideFrame
  <1>2. ASSUME Change PROVE /\ treeChanges' \in 0..MaxChanges /\ treeChanges' = treeChanges + 1
                            /\ \A f \in Files : content[f] <= treeChanges'
    <2>1. \A f \in Files : content[f] \in Nat
      OBVIOUS
    <2>2. MaxChanges \in Nat
      BY ExtractAssumption
    <2>3. treeChanges' = treeChanges + 1 /\ treeChanges < MaxChanges
      BY <1>2 DEF Change
    <2>4. treeChanges' \in 0..MaxChanges
      BY <2>2, <2>3
    <2>5. \A f \in Files : content[f] <= treeChanges'
      BY <2>1, <2>3
    <2> QED BY <2>3, <2>4, <2>5
  <1>3. ASSUME NEW f \in Files, EditFile(f) PROVE ExtractTypeOK'
    <2>1. /\ content' = [content EXCEPT ![f] = @ + 1]
          /\ UNCHANGED <<head, compileCommand, indexState, registered, complete, importing>>
          /\ Change
      BY <1>3 DEF EditFile, registry
    <2>2. content' \in [Files -> Nat]
      BY <2>1
    <2>3. \A g \in Files : content'[g] <= treeChanges'
      <3>1. \A g \in Files : content'[g] = content[g] \/ content'[g] = content[g] + 1
        BY <2>1
      <3>2. \A g \in Files : content[g] \in Nat /\ content[g] <= treeChanges
        OBVIOUS
      <3>3. treeChanges \in Nat /\ treeChanges' = treeChanges + 1
        BY <1>2, <2>1
      <3> QED BY <3>1, <3>2, <3>3
    <2> QED BY <1>1, <1>2, <2>1, <2>2, <2>3
  <1>4. CASE GitCommit
    <2>1. head' = head + 1 /\ UNCHANGED <<content, compileCommand, indexState, registered, complete, importing>>
          /\ Change
      BY <1>4 DEF GitCommit, registry
    <2> QED BY <1>1, <1>2, <2>1
  <1>5. ASSUME NEW fs \in SUBSET Files, NEW ss,
               Change, UNCHANGED <<content, head>>,
               indexState' = ResetRows(fs) \/ indexState' = indexState,
               compileCommand' = NewCommands(ss) \/ compileCommand' = compileCommand,
               registered' \in SUBSET Files,
               complete' \in BOOLEAN, importing' \in SUBSET Files
        PROVE  ExtractTypeOK'
    <2>1. /\ indexState' \in [Files -> IndexStates \cup {None}]
          /\ compileCommand' \in [Sources -> Nat]
      BY <1>5, RowsTyped
    <2> QED BY <1>1, <1>2, <1>5, <2>1
  <1>6. ASSUME NEW f \in Files, DropSource(f) \/ RestoreSource(f) PROVE ExtractTypeOK'
    <2>1. {f} \in SUBSET Files
      OBVIOUS
    <2> QED BY <1>5, <1>6, <2>1 DEF DropSource, RestoreSource, workingTree
  <1>7. ASSUME NEW ss \in SUBSET Sources, SetOption(ss) \/ ImportStore(ss) PROVE ExtractTypeOK'
    <2>1. ss \in SUBSET Files
      BY RowsTyped
    <2> QED BY <1>5, <1>7, <2>1, RowsTyped DEF SetOption, ImportStore, workingTree, WithRows
  <1>8. CASE ImportRegister \/ ImportComplete
    BY <1>1, <1>8, RowsTyped DEF ImportRegister, ImportComplete, workingTree, WithRows
  <1> QED BY <1>3, <1>4, <1>6, <1>7, <1>8 DEF Outside

LEMMA RunsTyped ==
    ASSUME ExtractTypeOK, OutputKnown, NEW p \in Runs, Extraction(p)
    PROVE  ExtractTypeOK'
  <1> USE DEF ExtractTypeOK
  <1>1. ASSUME UNCHANGED <<content, head, compileCommand, indexState, registered, complete, importing>>,
               UNCHANGED <<treeChanges>>, extraction' \in [Runs -> RunRecords],
               stored' \in [Outputs -> [Sources -> FactInputs \cup {None}]],
               writeLock' \in [Outputs -> Runs \cup {None}], failures' \in Nat
        PROVE  ExtractTypeOK'
    BY <1>1
  <1>2. ASSUME NEW req \in Requests, NEW d \in Outputs, NEW force \in BOOLEAN,
               Discover(p, req, d, force)
        PROVE  ExtractTypeOK'
    BY <1>1, <1>2, DiscoverRun DEF Discover, workingTree, registry
  <1>3. CASE Partition(p)
    BY <1>1, <1>3, PartitionRun DEF Partition, workingTree, registry
  <1>4. CASE BeginExtraction(p)
    BY <1>1, <1>4, BeginRun DEF BeginExtraction, workingTree, registry
  <1>5. ASSUME NEW s \in Sources, ParseSource(p, s) PROVE ExtractTypeOK'
    BY <1>1, <1>5, ParseRun DEF ParseSource, workingTree, registry
  <1>6. CASE CommitExtraction(p)
    <2>1. writeLock' \in [Outputs -> Runs \cup {None}]
      BY <1>6 DEF CommitExtraction
    <2> QED BY <1>1, <1>6, <2>1, CommitRun, CommitTyped DEF CommitExtraction, workingTree, registry
  <1>7. CASE EndExtraction(p)
    BY <1>1, <1>7, LastRun DEF EndExtraction, workingTree, registry
  <1>8. CASE RecordState(p)
    <2>1. extraction[p].out \in Outputs
      BY <1>8 DEF RecordState, OutputKnown
    <2>2. indexState' \in [Files -> IndexStates \cup {None}]
      BY <1>8, <2>1, MarkedTyped DEF RecordState
    <2> QED BY <1>8, <2>2, LastRun DEF RecordState, workingTree
  <1> QED BY <1>2, <1>3, <1>4, <1>5, <1>6, <1>7, <1>8 DEF Extraction

LEMMA OutputStays ==
    ASSUME ExtractTypeOK, OutputKnown, NEW p \in Runs, Extraction(p)
    PROVE  OutputKnown'
  <1>1. ASSUME NEW req \in Requests, NEW d \in Outputs, NEW force \in BOOLEAN,
               Discover(p, req, d, force)
        PROVE  OutputKnown'
    BY <1>1, DiscoverRun DEF OutputKnown
  <1>2. CASE Partition(p)
    BY <1>2, PartitionRun, NotRunningFields DEF OutputKnown, Others, Keeps, Partition
  <1>3. CASE BeginExtraction(p)
    BY <1>3, BeginRun DEF OutputKnown, Others, Keeps, BeginExtraction
  <1>4. ASSUME NEW s \in Sources, ParseSource(p, s) PROVE OutputKnown'
    BY <1>4, ParseRun DEF OutputKnown, Others, Keeps
  <1>5. CASE CommitExtraction(p)
    BY <1>5, CommitRun DEF OutputKnown, Others, Keeps
  <1>6. CASE RecordState(p) \/ EndExtraction(p)
    BY <1>6, LastRun, NotRunningFields DEF OutputKnown, Others
  <1> QED BY <1>1, <1>2, <1>3, <1>4, <1>5, <1>6 DEF Extraction

LEMMA ExtractTypeKept ==
    ASSUME ExtractTypeOK, OutputKnown, [ExtractNext]_extractVars
    PROVE  ExtractTypeOK' /\ OutputKnown'
  <1>1. CASE Outside
    BY <1>1, OutsideTyped, OutsideFrame DEF OutputKnown
  <1>2. ASSUME NEW p \in Runs, Extraction(p) PROVE ExtractTypeOK' /\ OutputKnown'
    BY <1>2, RunsTyped, OutputStays
  <1>3. CASE UNCHANGED extractVars
    BY <1>3 DEF extractVars, workingTree, registry, ExtractTypeOK, OutputKnown
  <1> QED BY <1>1, <1>2, <1>3 DEF ExtractNext, Outside

-----------------------------------------------------------------------------
(* Extraction moves forward: what a run has parsed is not older than what  *)
(* is stored, because it parses with the write transaction open.           *)

\* The inputs of facts of s that were made from contents of the past.
Past(s, x) ==
    /\ s \in DOMAIN x.files
    /\ DOMAIN x.files = {s} \cup Includes[s][x.files[s]]
    /\ \A f \in DOMAIN x.files : x.files[f] <= content[f]

AllPast ==
    \A s \in Sources :
        /\ \A d \in Outputs : stored[d][s] # None => Past(s, stored[d][s])
        /\ \A p \in Runs : extraction[p].parsed[s] # None => Past(s, extraction[p].parsed[s])

\* Only a run that holds the lock of its output has parsed anything.
Locked ==
    \A p \in Runs :
        /\ extraction[p].at = "parsing" => writeLock[extraction[p].out] = p
        /\ \A s \in Sources : extraction[p].parsed[s] # None => extraction[p].at = "parsing"

\* The facts made from y were made from earlier contents than those from x.
Before(s, y, x) ==
    y # None =>
        \/ y.files[s] < x.files[s]
        \/ y.files[s] = x.files[s] /\ \A f \in DOMAIN x.files : y.files[f] <= x.files[f]

Newest ==
    \A p \in Runs, s \in Sources :
        extraction[p].parsed[s] # None =>
            Before(s, stored[extraction[p].out][s], extraction[p].parsed[s])

Forward == ExtractTypeOK /\ OutputKnown /\ AllPast /\ Locked /\ Newest

LEMMA FactInputsTyped ==
    ASSUME NEW x \in FactInputs
    PROVE  /\ x.files \in [DOMAIN x.files -> Nat] /\ x.command \in Nat
           /\ DOMAIN x.files \in SUBSET Files
           /\ x = [files |-> x.files, command |-> x.command]
  <1>1. x.files \in UNION {[fs -> Nat] : fs \in SUBSET Files} /\ x.command \in Nat
    BY DEF FactInputs
  <1>2. PICK fs \in SUBSET Files : x.files \in [fs -> Nat]
    BY <1>1
  <1> QED BY <1>1, <1>2 DEF FactInputs

\* What is stored and parsed is typed.
LEMMA FactsTyped ==
    ASSUME ExtractTypeOK
    PROVE  /\ \A d \in Outputs, s \in Sources : stored[d][s] # None => stored[d][s] \in FactInputs
           /\ \A p \in Runs, s \in Sources :
                extraction[p].parsed[s] # None => extraction[p].parsed[s] \in FactInputs
  BY DEF ExtractTypeOK, RunRecords

LEMMA ContentGrows ==
    ASSUME ExtractTypeOK, [ExtractNext]_extractVars
    PROVE  \A f \in Files : content[f] <= content'[f]
  <1>1. content' = content \/ \E g \in Files : content' = [content EXCEPT ![g] = @ + 1]
    <2>1. CASE Outside
      BY <2>1 DEF Outside, EditFile, DropSource, RestoreSource, GitCommit, SetOption, ImportStore,
         ImportRegister, ImportComplete, workingTree
    <2>2. ASSUME NEW p \in Runs, Extraction(p) PROVE content' = content
      BY <2>2 DEF Extraction, Discover, Partition, BeginExtraction, ParseSource, CommitExtraction,
         RecordState, EndExtraction, workingTree
    <2>3. CASE UNCHANGED extractVars
      BY <2>3 DEF extractVars, workingTree
    <2> QED BY <2>1, <2>2, <2>3 DEF ExtractNext, Outside
  <1>2. \A f \in Files : content[f] \in Nat
    BY DEF ExtractTypeOK
  <1>3. content \in [Files -> Nat]
    BY DEF ExtractTypeOK
  <1> QED BY <1>1, <1>2, <1>3

LEMMA PastStays ==
    ASSUME ExtractTypeOK, [ExtractNext]_extractVars, NEW s \in Sources, NEW x \in FactInputs,
           Past(s, x)
    PROVE  /\ s \in DOMAIN x.files
           /\ DOMAIN x.files = {s} \cup Includes[s][x.files[s]]
           /\ \A f \in DOMAIN x.files : x.files[f] <= content'[f]
  <1>1. DOMAIN x.files \in SUBSET Files /\ \A f \in DOMAIN x.files : x.files[f] \in Nat
    BY FactInputsTyped
  <1>2. \A f \in Files : content[f] \in Nat /\ content'[f] \in Nat /\ content[f] <= content'[f]
    <2>1. OutputKnown => ExtractTypeOK'
      BY ExtractTypeKept
    <2>2. content' = content \/ \E g \in Files : content' = [content EXCEPT ![g] = @ + 1]
      <3>1. CASE Outside
        BY <3>1 DEF Outside, EditFile, DropSource, RestoreSource, GitCommit, SetOption, ImportStore,
           ImportRegister, ImportComplete, workingTree
      <3>2. ASSUME NEW p \in Runs, Extraction(p) PROVE content' = content
        BY <3>2 DEF Extraction, Discover, Partition, BeginExtraction, ParseSource, CommitExtraction,
           RecordState, EndExtraction, workingTree
      <3>3. CASE UNCHANGED extractVars
        BY <3>3 DEF extractVars, workingTree
      <3> QED BY <3>1, <3>2, <3>3 DEF ExtractNext, Outside
    <2> QED BY <2>2, ContentGrows DEF ExtractTypeOK
  <1>3. \A f \in DOMAIN x.files : x.files[f] <= content[f]
    BY DEF Past
  <1>4. \A f \in DOMAIN x.files : x.files[f] <= content'[f]
    BY <1>1, <1>2, <1>3
  <1> QED BY <1>4 DEF Past

\* All steps but a parse and a commit leave the facts alone.
Quiet ==
    /\ stored' = stored
    /\ \A q \in Runs, s \in Sources :
           extraction'[q].parsed[s] # None =>
               /\ extraction'[q].parsed[s] = extraction[q].parsed[s]
               /\ extraction'[q].out = extraction[q].out

LEMMA QuietSteps ==
    ASSUME ExtractTypeOK, [ExtractNext]_extractVars
    PROVE  \/ Quiet
           \/ \E p \in Runs, s \in Sources : ParseSource(p, s)
           \/ \E p \in Runs : CommitExtraction(p)
  <1>1. CASE Outside
    BY <1>1, OutsideFrame DEF Quiet
  <1>2. ASSUME NEW p \in Runs, Extraction(p)
        PROVE  Quiet \/ (\E s \in Sources : ParseSource(p, s)) \/ CommitExtraction(p)
    <2>1. ASSUME NEW req \in Requests, NEW d \in Outputs, NEW force \in BOOLEAN,
                 Discover(p, req, d, force)
          PROVE  Quiet
      <3>1. \A s \in Sources : extraction'[p].parsed[s] = None
        BY <2>1, DiscoverRun
      <3>2. \A q \in Runs : q # p => extraction'[q] = extraction[q]
        BY <2>1, DiscoverRun
      <3>3. stored' = stored
        BY <2>1 DEF Discover
      <3> QED BY <3>1, <3>2, <3>3 DEF Quiet
    <2>2. CASE Partition(p)
      BY <2>2, PartitionRun, NotRunningFields DEF Quiet, Partition, Others, Keeps
    <2>3. CASE BeginExtraction(p)
      BY <2>3, BeginRun DEF Quiet, BeginExtraction, Others, Keeps
    <2>4. CASE RecordState(p) \/ EndExtraction(p)
      BY <2>4, LastRun, NotRunningFields DEF Quiet, RecordState, EndExtraction, Others
    <2> QED BY <1>2, <2>1, <2>2, <2>3, <2>4 DEF Extraction
  <1>3. CASE UNCHANGED extractVars
    BY <1>3 DEF extractVars, Quiet
  <1> QED BY <1>1, <1>2, <1>3 DEF ExtractNext, Outside

LEMMA LocksStay ==
    ASSUME ExtractTypeOK, OutputKnown, Locked, [ExtractNext]_extractVars
    PROVE  Locked'
  <1>1. CASE Outside
    BY <1>1, OutsideFrame DEF Locked
  <1>2. CASE UNCHANGED extractVars
    BY <1>2 DEF extractVars, Locked
  <1>3. ASSUME NEW p \in Runs, Extraction(p) PROVE Locked'
    <2>1. ASSUME NEW req \in Requests, NEW d \in Outputs, NEW force \in BOOLEAN,
                 Discover(p, req, d, force)
          PROVE  Locked'
      <3>1. extraction'[p].at = "discovered" /\ \A s \in Sources : extraction'[p].parsed[s] = None
        BY <2>1, DiscoverRun
      <3>2. \A q \in Runs : q # p => extraction'[q] = extraction[q]
        BY <2>1, DiscoverRun
      <3>3. writeLock' = writeLock
        BY <2>1 DEF Discover
      <3> QED BY <3>1, <3>2, <3>3 DEF Locked
    <2>2. CASE Partition(p)
      <3>1. writeLock' = writeLock /\ extraction[p].at = "discovered"
        BY <2>2 DEF Partition
      <3>2. extraction'[p].at # "parsing" /\ \A s \in Sources : extraction'[p].parsed[s] = None
        BY <2>2, <3>1, PartitionRun, NotRunningFields DEF Locked
      <3> QED BY <2>2, <3>1, <3>2, PartitionRun DEF Locked, Others
    <2>3. CASE BeginExtraction(p)
      <3> DEFINE d == extraction[p].out
      <3>1. extraction[p].at = "partitioned" /\ d \in Outputs /\ writeLock[d] = None
        BY <2>3 DEF BeginExtraction, OutputKnown
      <3>2. writeLock'[d] = p /\ \A e \in Outputs : e # d => writeLock'[e] = writeLock[e]
        BY <2>3, <3>1 DEF BeginExtraction, ExtractTypeOK
      <3>3. Others(p) /\ extraction'[p].at = "parsing" /\ extraction'[p].out = d
        BY <2>3, BeginRun DEF Keeps
      <3>4. \A q \in Runs : extraction[q].at = "parsing" =>
              extraction[q].out \in Outputs /\ writeLock[extraction[q].out] = q /\ q # None
        BY ExtractAssumption DEF Locked, OutputKnown
      <3>5. \A q \in Runs : extraction'[q].at = "parsing" => writeLock'[extraction'[q].out] = q
        BY <3>1, <3>2, <3>3, <3>4 DEF Others
      <3>6. \A q \in Runs, s \in Sources :
              extraction'[q].parsed[s] # None => extraction'[q].at = "parsing"
        BY <2>3, <3>3, BeginRun DEF Locked, Others
      <3> QED BY <3>5, <3>6 DEF Locked
    <2>4. ASSUME NEW s \in Sources, ParseSource(p, s) PROVE Locked'
      <3>1. writeLock' = writeLock
        BY <2>4 DEF ParseSource
      <3> QED BY <2>4, <3>1, ParseRun DEF Locked, Others, Keeps
    <2>5. CASE CommitExtraction(p)
      <3> DEFINE d == extraction[p].out
      <3>1. extraction[p].at = "parsing" /\ d \in Outputs /\ writeLock[d] = p
        BY <2>5 DEF CommitExtraction, OutputKnown, Locked
      <3>2. \A e \in Outputs : e # d => writeLock'[e] = writeLock[e]
        BY <2>5, <3>1 DEF CommitExtraction, ExtractTypeOK
      <3>3. Others(p) /\ extraction'[p].at = "committed"
            /\ \A s \in Sources : extraction'[p].parsed[s] = None
        BY <2>5, CommitRun
      <3>4. \A q \in Runs : extraction[q].at = "parsing" =>
              extraction[q].out \in Outputs /\ writeLock[extraction[q].out] = q
        BY DEF Locked, OutputKnown
      <3>5. \A q \in Runs : extraction'[q].at = "parsing" => writeLock'[extraction'[q].out] = q
        BY <3>1, <3>2, <3>3, <3>4 DEF Others
      <3> QED BY <3>3, <3>5 DEF Locked, Others
    <2>6. CASE RecordState(p)
      <3>1. writeLock' = writeLock
        BY <2>6 DEF RecordState
      <3> QED BY <2>6, <3>1, LastRun, NotRunningFields DEF Locked, Others
    <2>7. CASE EndExtraction(p)
      <3>1. \A e \in Outputs : writeLock[e] # p => writeLock'[e] = writeLock[e]
        BY <2>7 DEF EndExtraction
      <3>2. Others(p) /\ extraction'[p].at = "idle" /\ \A s \in Sources : extraction'[p].parsed[s] = None
        BY <2>7, LastRun, NotRunningFields
      <3>3. \A q \in Runs : extraction[q].at = "parsing" =>
              extraction[q].out \in Outputs /\ writeLock[extraction[q].out] = q
        BY DEF Locked, OutputKnown
      <3>4. \A q \in Runs : extraction'[q].at = "parsing" => writeLock'[extraction'[q].out] = q
        BY <3>1, <3>2, <3>3 DEF Others
      <3> QED BY <3>2, <3>4 DEF Locked, Others
    <2> QED BY <1>3, <2>1, <2>2, <2>3, <2>4, <2>5, <2>6, <2>7 DEF Extraction
  <1> QED BY <1>1, <1>2, <1>3 DEF ExtractNext, Outside

\* The facts of a source that a parse makes.
LEMMA ParsedNow ==
    ASSUME ExtractTypeOK, NEW p \in Runs, NEW s \in Sources, ParseSource(p, s)
    PROVE  LET x == extraction'[p].parsed[s] IN
           /\ x \in FactInputs /\ x # None
           /\ DOMAIN x.files = Closure(s) /\ s \in Closure(s) /\ Closure(s) \in SUBSET Files
           /\ \A f \in Closure(s) : x.files[f] = content[f]
           /\ x.command = extraction[p].command[s]
           /\ stored' = stored /\ content' = content
           /\ UNCHANGED <<head, compileCommand, indexState, registered>>
  <1>1. extraction'[p].parsed[s] = Inputs(s, extraction[p].command[s])
    BY ParseRun
  <1>2. extraction[p].command[s] \in Nat
    BY DEF ExtractTypeOK, RunRecords
  <1>3. stored' = stored /\ content' = content /\ UNCHANGED <<head, compileCommand, indexState, registered>>
    BY DEF ParseSource, workingTree, registry
  <1> DEFINE x == extraction'[p].parsed[s]
  <1>4. x \in FactInputs /\ x # None /\ x.files = [f \in Closure(s) |-> content[f]]
        /\ x.command = extraction[p].command[s]
    BY <1>1, <1>2, InputsTyped
  <1>5. s \in Closure(s) /\ Closure(s) \in SUBSET Files
    BY ClosureTyped
  <1> HIDE DEF x
  <1>6. DOMAIN x.files = Closure(s) /\ \A f \in Closure(s) : x.files[f] = content[f]
    BY <1>4
  <1> QED BY <1>3, <1>4, <1>5, <1>6 DEF x

\* What a commit stores.
LEMMA CommittedNow ==
    ASSUME ExtractTypeOK, OutputKnown, NEW p \in Runs, CommitExtraction(p)
    PROVE  LET r == extraction[p] IN
           /\ r.out \in Outputs
           /\ \A s \in r.stale : s \in Sources /\ r.parsed[s] # None
           /\ \A d \in Outputs, s \in Sources :
                stored'[d][s] = IF d = r.out /\ s \in r.stale THEN r.parsed[s] ELSE stored[d][s]
           /\ UNCHANGED <<content, head, compileCommand, indexState, registered>>
  <1> DEFINE r == extraction[p]
  <1>1. r \in RunRecords
    BY DEF ExtractTypeOK
  <1>2. r.out \in Outputs /\ r.stale \in SUBSET Sources /\ \A s \in r.stale : r.parsed[s] # None
    BY <1>1 DEF CommitExtraction, OutputKnown, RunRecords
  <1>3. stored' = [stored EXCEPT ![r.out] =
                     [s \in Sources |-> IF s \in r.stale THEN r.parsed[s] ELSE @[s]]]
    BY DEF CommitExtraction
  <1>4. stored \in [Outputs -> [Sources -> FactInputs \cup {None}]]
    BY DEF ExtractTypeOK
  <1>5. UNCHANGED <<content, head, compileCommand, indexState, registered>>
    BY DEF CommitExtraction, workingTree, registry
  <1> HIDE DEF r
  <1>6. \A d \in Outputs, s \in Sources :
           stored'[d][s] = IF d = r.out /\ s \in r.stale THEN r.parsed[s] ELSE stored[d][s]
    BY <1>2, <1>3, <1>4
  <1> QED BY <1>2, <1>5, <1>6 DEF r

LEMMA PastKept ==
    ASSUME ExtractTypeOK, AllPast, OutputKnown, [ExtractNext]_extractVars
    PROVE  AllPast'
  <1>1. \A s \in Sources : \A x \in FactInputs : Past(s, x) =>
          /\ s \in DOMAIN x.files
          /\ DOMAIN x.files = {s} \cup Includes[s][x.files[s]]
          /\ \A f \in DOMAIN x.files : x.files[f] <= content'[f]
    BY PastStays
  <1>2. ASSUME NEW s \in Sources, NEW x, x \in FactInputs,
               \/ \E d \in Outputs : x = stored[d][s]
               \/ \E q \in Runs : x = extraction[q].parsed[s]
        PROVE  /\ s \in DOMAIN x.files
               /\ DOMAIN x.files = {s} \cup Includes[s][x.files[s]]
               /\ \A f \in DOMAIN x.files : x.files[f] <= content'[f]
    <2>1. x # None
      BY <1>2, ExtractAssumption
    <2>2. Past(s, x)
      BY <1>2, <2>1 DEF AllPast
    <2> QED BY <1>1, <1>2, <2>2
  <1>3. \A d \in Outputs, s \in Sources : stored[d][s] # None => stored[d][s] \in FactInputs
    BY FactsTyped
  <1>4. \A q \in Runs, s \in Sources :
          extraction[q].parsed[s] # None => extraction[q].parsed[s] \in FactInputs
    BY FactsTyped
  <1>5. CASE Quiet
    BY <1>2, <1>3, <1>4, <1>5 DEF Quiet, AllPast, Past
  <1>6. ASSUME NEW p \in Runs, NEW s \in Sources, ParseSource(p, s) PROVE AllPast'
    <2> DEFINE x == extraction'[p].parsed[s]
    <2>1. /\ DOMAIN x.files = Closure(s) /\ s \in Closure(s) /\ Closure(s) \in SUBSET Files
          /\ \A f \in Closure(s) : x.files[f] = content[f]
          /\ stored' = stored /\ content' = content
      BY <1>6, ParsedNow
    <2>2. Closure(s) = {s} \cup Includes[s][x.files[s]]
      BY <2>1 DEF Closure
    <2>3. \A f \in DOMAIN x.files : x.files[f] <= content'[f]
      BY <2>1 DEF ExtractTypeOK
    <2>4. \A q \in Runs, t \in Sources : (q # p \/ t # s) =>
            extraction'[q].parsed[t] = extraction[q].parsed[t]
      BY <1>6, ParseRun DEF Others
    <2> HIDE DEF x
    <2>5. ASSUME NEW q \in Runs, NEW t \in Sources, extraction'[q].parsed[t] # None
          PROVE  LET y == extraction'[q].parsed[t] IN
                 /\ t \in DOMAIN y.files
                 /\ DOMAIN y.files = {t} \cup Includes[t][y.files[t]]
                 /\ \A f \in DOMAIN y.files : y.files[f] <= content'[f]
      <3>1. CASE q = p /\ t = s
        BY <3>1, <2>1, <2>2, <2>3 DEF x
      <3>2. CASE ~(q = p /\ t = s)
        BY <3>2, <2>4, <2>5, <1>2, <1>4
      <3> QED BY <3>1, <3>2
    <2> QED BY <2>1, <2>5, <1>2, <1>3 DEF AllPast, Past
  <1>7. ASSUME NEW p \in Runs, CommitExtraction(p) PROVE AllPast'
    <2>1. \A d \in Outputs, s \in Sources :
             \/ stored'[d][s] = stored[d][s]
             \/ stored'[d][s] = extraction[p].parsed[s]
      BY <1>7, CommittedNow
    <2>2. \A q \in Runs, t \in Sources :
             extraction'[q].parsed[t] # None => extraction'[q].parsed[t] = extraction[q].parsed[t]
      BY <1>7, CommitRun DEF Others
    <2>3. ASSUME NEW d \in Outputs, NEW t \in Sources, stored'[d][t] # None
          PROVE  LET y == stored'[d][t] IN
                 /\ t \in DOMAIN y.files
                 /\ DOMAIN y.files = {t} \cup Includes[t][y.files[t]]
                 /\ \A f \in DOMAIN y.files : y.files[f] <= content'[f]
      BY <2>1, <2>3, <1>2, <1>3, <1>4
    <2>4. ASSUME NEW q \in Runs, NEW t \in Sources, extraction'[q].parsed[t] # None
          PROVE  LET y == extraction'[q].parsed[t] IN
                 /\ t \in DOMAIN y.files
                 /\ DOMAIN y.files = {t} \cup Includes[t][y.files[t]]
                 /\ \A f \in DOMAIN y.files : y.files[f] <= content'[f]
      BY <2>2, <2>4, <1>2, <1>4
    <2> QED BY <2>3, <2>4 DEF AllPast, Past
  <1> QED BY <1>5, <1>6, <1>7, QuietSteps

LEMMA NewestKept ==
    ASSUME Forward, [ExtractNext]_extractVars
    PROVE  Newest'
  <1> USE DEF Forward
  <1>1. CASE Quiet
    <2>1. ASSUME NEW q \in Runs, NEW s \in Sources, extraction'[q].parsed[s] # None
          PROVE  Before(s, stored'[extraction'[q].out][s], extraction'[q].parsed[s])
      BY <1>1, <2>1 DEF Quiet, Newest
    <2> QED BY <2>1 DEF Newest, Before
  <1>2. ASSUME NEW p \in Runs, NEW s \in Sources, ParseSource(p, s) PROVE Newest'
    <2> DEFINE x == extraction'[p].parsed[s]
               y == stored[extraction[p].out][s]
    <2>1. /\ DOMAIN x.files = Closure(s) /\ s \in Closure(s) /\ Closure(s) \in SUBSET Files
          /\ \A f \in Closure(s) : x.files[f] = content[f]
          /\ stored' = stored
      BY <1>2, ParsedNow
    <2>2. extraction[p].out \in Outputs
      BY <1>2 DEF ParseSource, OutputKnown
    <2>3. y # None => y \in FactInputs /\ Past(s, y)
      BY <2>2, FactsTyped DEF AllPast
    <2> HIDE DEF x, y
    <2>4. ASSUME y # None
          PROVE  y.files[s] < x.files[s]
                 \/ (y.files[s] = x.files[s] /\ \A f \in DOMAIN x.files : y.files[f] <= x.files[f])
      <3>1. /\ y.files[s] \in Nat /\ content[s] \in Nat /\ y.files[s] <= content[s]
            /\ x.files[s] = content[s]
        BY <2>1, <2>3, <2>4, FactInputsTyped DEF Past, ExtractTypeOK
      <3>2. CASE y.files[s] = content[s]
        <4>1. DOMAIN y.files = Closure(s)
          BY <2>3, <2>4, <3>2 DEF Past, Closure
        <4>2. \A f \in Closure(s) : y.files[f] <= x.files[f]
          BY <2>1, <2>3, <2>4, <4>1 DEF Past
        <4> QED BY <2>1, <3>1, <3>2, <4>2
      <3> QED BY <3>1, <3>2
    <2>5. extraction'[p].out = extraction[p].out
          /\ \A q \in Runs, t \in Sources : (q # p \/ t # s) =>
               extraction'[q].parsed[t] = extraction[q].parsed[t] /\ extraction'[q].out = extraction[q].out
      BY <1>2, ParseRun DEF Others, Keeps
    <2>6. ASSUME NEW q \in Runs, NEW t \in Sources, extraction'[q].parsed[t] # None
          PROVE  Before(t, stored'[extraction'[q].out][t], extraction'[q].parsed[t])
      <3>1. CASE q = p /\ t = s
        BY <3>1, <2>1, <2>4, <2>5 DEF Before, x, y
      <3>2. CASE ~(q = p /\ t = s)
        BY <3>2, <2>1, <2>5, <2>6 DEF Newest
      <3> QED BY <3>1, <3>2
    <2> QED BY <2>6 DEF Newest, Before
  <1>3. ASSUME NEW p \in Runs, CommitExtraction(p) PROVE Newest'
    <2> DEFINE r == extraction[p]
    <2>1. ASSUME NEW q \in Runs, NEW t \in Sources, extraction'[q].parsed[t] # None
          PROVE  Before(t, stored'[extraction'[q].out][t], extraction'[q].parsed[t])
      <3>1. q # p
        BY <1>3, <2>1, CommitRun
      <3>2. extraction'[q] = extraction[q]
        BY <1>3, <3>1, CommitRun DEF Others
      <3>3. writeLock[extraction[q].out] = q /\ writeLock[r.out] = p /\ extraction[q].at = "parsing"
        BY <1>3, <2>1, <3>2, CommitRun DEF Locked
      <3>4. extraction[q].out \in Outputs /\ extraction[q].out # r.out
        BY <3>1, <3>3 DEF OutputKnown
      <3>5. stored'[extraction[q].out][t] = stored[extraction[q].out][t]
        BY <1>3, <3>4, CommittedNow
      <3> QED BY <2>1, <3>2, <3>5 DEF Newest
    <2> QED BY <2>1 DEF Newest, Before
  <1> QED BY <1>1, <1>2, <1>3, QuietSteps

LEMMA ForwardInit == ExtractInit => Forward
  <1> SUFFICES ASSUME ExtractInit PROVE Forward
    OBVIOUS
  <1>1. ExtractTypeOK /\ OutputKnown
    BY ExtractInitTyped
  <1>2. \A p \in Runs : extraction[p].at = "idle" /\ \A s \in Sources : extraction[p].parsed[s] = None
    BY NotRunningFields DEF ExtractInit
  <1>3. \A d \in Outputs, s \in Sources : stored[d][s] = None
    BY DEF ExtractInit
  <1> QED BY <1>1, <1>2, <1>3 DEF Forward, AllPast, Locked, Newest

LEMMA ForwardNext == Forward /\ [ExtractNext]_extractVars => Forward'
  <1> SUFFICES ASSUME Forward, [ExtractNext]_extractVars PROVE Forward'
    OBVIOUS
  <1>1. ExtractTypeOK' /\ OutputKnown'
    BY ExtractTypeKept DEF Forward
  <1>2. AllPast' /\ Locked' /\ Newest'
    BY PastKept, LocksStay, NewestKept DEF Forward
  <1> QED BY <1>1, <1>2 DEF Forward

THEOREM ForwardAlways == ExtractSpec => []Forward
  BY ForwardInit, ForwardNext, PTL DEF ExtractSpec

-----------------------------------------------------------------------------
(* What a step does to facts and rows *)

LEMMA FactsStep ==
    ASSUME Forward, [ExtractNext]_extractVars, NEW d \in Outputs, NEW s \in Sources,
           stored[d][s] # None
    PROVE  stored'[d][s] # None /\ stored'[d][s].files[s] >= stored[d][s].files[s]
  <1> USE DEF Forward
  <1>1. stored[d][s] \in FactInputs /\ stored[d][s].files[s] \in Nat
    <2>1. stored[d][s] \in FactInputs /\ s \in DOMAIN stored[d][s].files
      BY FactsTyped DEF AllPast, Past
    <2> QED BY <2>1, FactInputsTyped
  <1>2. CASE stored'[d][s] = stored[d][s]
    BY <1>1, <1>2
  <1>3. ASSUME NEW p \in Runs, CommitExtraction(p), d = extraction[p].out, s \in extraction[p].stale
        PROVE  stored'[d][s] # None /\ stored'[d][s].files[s] >= stored[d][s].files[s]
    <2> DEFINE x == extraction[p].parsed[s]
    <2>1. stored'[d][s] = x /\ x # None
      BY <1>3, CommittedNow
    <2>2. x \in FactInputs /\ s \in DOMAIN x.files
      BY <2>1, FactsTyped DEF AllPast, Past
    <2>3. x.files[s] \in Nat
      BY <2>2, FactInputsTyped
    <2>4. Before(s, stored[d][s], x)
      BY <1>3, <2>1 DEF Newest
    <2> QED BY <1>1, <2>1, <2>2, <2>3, <2>4 DEF Before
  <1>4. \A p \in Runs, t \in Sources : ParseSource(p, t) => stored'[d][s] = stored[d][s]
    BY DEF ParseSource
  <1>5. Quiet => stored'[d][s] = stored[d][s]
    BY DEF Quiet
  <1>6. ASSUME NEW p \in Runs, CommitExtraction(p), ~(d = extraction[p].out /\ s \in extraction[p].stale)
        PROVE  stored'[d][s] = stored[d][s]
    BY <1>6, CommittedNow
  <1> QED BY <1>2, <1>3, <1>4, <1>5, <1>6, QuietSteps

\* What recording leaves of a row.
LEMMA RecordedRow ==
    ASSUME ExtractTypeOK, OutputKnown, NEW p \in Runs, RecordState(p), NEW f \in Files
    PROVE  LET r == extraction[p] IN
           \/ indexState'[f] = indexState[f]
           \/ /\ ToMark(r) \subseteq registered /\ f \in ToMark(r)
              /\ indexState'[f] \in IndexStates /\ indexState'[f] # None
              /\ indexState'[f].db = r.out /\ indexState'[f].mtime = r.observed[f]
              /\ indexState'[f].commit = RecordedCommit(r)
  <1> DEFINE r == extraction[p]
             row == [db |-> r.out, mtime |-> r.observed[f], commit |-> RecordedCommit(r)]
  <1>1. r \in RunRecords /\ r.out \in Outputs
    BY DEF RecordState, OutputKnown, ExtractTypeOK
  <1>2. indexState' = IF ToMark(r) \subseteq registered THEN Marked(r) ELSE indexState
    BY DEF RecordState
  <1>3. Marked(r)[f] = IF f \in ToMark(r) THEN row ELSE indexState[f]
    BY DEF Marked, RecordedMtime
  <1>4. row \in IndexStates
    <2>1. r.observed[f] \in Nat /\ RecordedCommit(r) \in Nat
      BY <1>1 DEF RunRecords, RecordedCommit, ExtractTypeOK
    <2> QED BY <1>1, <2>1 DEF IndexStates
  <1>5. row # None
    BY <1>4, ExtractAssumption
  <1>6. row.db = r.out /\ row.mtime = r.observed[f] /\ row.commit = RecordedCommit(r)
    OBVIOUS
  <1> HIDE DEF r, row
  <1> QED BY <1>2, <1>3, <1>4, <1>5, <1>6 DEF r

LEMMA RerunStep ==
    ASSUME ExtractTypeOK, OutputKnown, [ExtractNext]_extractVars,
           NEW p \in Runs, NEW s \in Sources, NEW d \in Outputs,
           LET r == extraction[p] IN
           /\ r.at = "committed" /\ extraction'[p] = NotRunning /\ indexState' # indexState
           /\ s \in r.stale /\ d = r.out /\ r.closure[s] = Closure(s)
           /\ head = r.commit
           /\ \A f \in r.closure[s] : content[f] = r.observed[f]
    PROVE  SourceFresh(s, d, Closure(s))'
  <1> DEFINE r == extraction[p]
  <1>1. RecordState(p)
    <2>1. extraction'[p] # extraction[p]
      BY NotRunningFields
    <2>2. CASE Outside
      BY <2>1, <2>2, OutsideFrame
    <2>3. ASSUME NEW q \in Runs, Extraction(q) PROVE RecordState(p)
      <3>1. CASE q = p
        <4>1. ~(\E req \in Requests, e \in Outputs, force \in BOOLEAN : Discover(p, req, e, force))
          BY DEF Discover
        <4>2. ~Partition(p) /\ ~BeginExtraction(p) /\ ~CommitExtraction(p)
              /\ ~\E t \in Sources : ParseSource(p, t)
          BY DEF Partition, BeginExtraction, ParseSource, CommitExtraction
        <4>3. ~EndExtraction(p)
          BY DEF EndExtraction, registry
        <4> QED BY <2>3, <3>1, <4>1, <4>2, <4>3 DEF Extraction
      <3>2. CASE q # p
        <4>1. \A req \in Requests, e \in Outputs, force \in BOOLEAN :
                Discover(q, req, e, force) => extraction'[p] = extraction[p]
          BY <3>2, DiscoverRun
        <4>2. Partition(q) \/ BeginExtraction(q) \/ CommitExtraction(q) \/ RecordState(q)
              \/ EndExtraction(q) => extraction'[p] = extraction[p]
          BY <3>2, PartitionRun, BeginRun, CommitRun, LastRun DEF Others
        <4>3. \A t \in Sources : ParseSource(q, t) => extraction'[p] = extraction[p]
          BY <3>2, ParseRun DEF Others
        <4> QED BY <2>1, <2>3, <4>1, <4>2, <4>3 DEF Extraction
      <3> QED BY <3>1, <3>2
    <2>4. CASE UNCHANGED extractVars
      BY <2>1, <2>4 DEF extractVars
    <2> QED BY <2>2, <2>3, <2>4 DEF ExtractNext, Outside
  <1>2. content' = content /\ head' = head
    BY <1>1 DEF RecordState, workingTree
  <1>3. ToMark(r) \subseteq registered
    BY <1>1 DEF RecordState
  <1>4. Closure(s) \in SUBSET Files /\ \A f \in Closure(s) : f \in ToMark(r)
    BY ClosureTyped DEF ToMark
  <1>5. ASSUME NEW f \in Closure(s)
        PROVE  /\ indexState'[f] # None /\ indexState'[f].db = d
               /\ indexState'[f].commit = head' /\ indexState'[f].mtime = content'[f]
    <2>1. indexState' = Marked(r) /\ f \in Files /\ f \in ToMark(r)
      BY <1>1, <1>3, <1>4 DEF RecordState
    <2>2. indexState'[f] = [db |-> r.out, mtime |-> r.observed[f], commit |-> RecordedCommit(r)]
      BY <2>1 DEF Marked, RecordedMtime
    <2>3. r.out \in Outputs /\ r.observed[f] \in Nat /\ RecordedCommit(r) \in Nat
      BY <2>1 DEF ExtractTypeOK, RunRecords, OutputKnown, RecordedCommit
    <2>4. indexState'[f] \in IndexStates
      BY <2>2, <2>3 DEF IndexStates
    <2>5. indexState'[f] # None
      BY <2>4, ExtractAssumption
    <2>6. RecordedCommit(r) = head /\ r.observed[f] = content[f]
      BY DEF RecordedCommit
    <2> QED BY <1>2, <2>2, <2>5, <2>6
  <1>6. Closure(s)' = Closure(s)
    BY <1>2 DEF Closure
  <1> QED BY <1>5, <1>6 DEF SourceFresh, FileFresh

(* Whichever runs overlap, fail and crash: facts of newer inputs are never  *)
(* replaced by older ones, and a run whose inputs nobody touched leaves     *)
(* every source that it extracted fresh (commands/Extract.cpp).             *)
THEOREM ExtractionGoesForward == ExtractSpec => ExtractionAdvances
  <1>1. Forward /\ [ExtractNext]_extractVars =>
          [\A d \in Outputs, s \in Sources :
             stored[d][s] # None =>
                /\ stored'[d][s] # None
                /\ stored'[d][s].files[s] >= stored[d][s].files[s]]_extractVars
    BY FactsStep
  <1>2. Forward /\ [ExtractNext]_extractVars =>
          [\A p \in Runs, s \in Sources, d \in Outputs :
             LET r == extraction[p]
                 undisturbed == /\ r.at = "committed" /\ extraction'[p] = NotRunning /\ indexState' # indexState
                                /\ s \in r.stale /\ d = r.out /\ r.closure[s] = Closure(s)
                                /\ head = r.commit
                                /\ \A f \in r.closure[s] : content[f] = r.observed[f]
             IN  undisturbed => SourceFresh(s, d, Closure(s))']_extractVars
    BY RerunStep DEF Forward
  <1>3. ExtractSpec => FactsNeverGoBack
    BY <1>1, ForwardAlways, PTL DEF ExtractSpec, FactsNeverGoBack
  <1>4. ExtractSpec => RerunSkips
    BY <1>2, ForwardAlways, PTL DEF ExtractSpec, RerunSkips
  <1> QED BY <1>3, <1>4 DEF ExtractionAdvances

-----------------------------------------------------------------------------
(* A skipped source has current facts.  The runs extract all sources and    *)
(* the commands do not change under them.                                   *)

\* No edit makes a source include a header that another source includes.
NoNewSharing ==
    \A s, t \in Sources : s # t =>
        \A u, v, w \in 0..MaxChanges :
            u < v => (Includes[s][v] \ Includes[s][u]) \cap Includes[t][w] = {}

OneAtATime == \A p, q \in Runs : p = q

Undivided == ~MidRun /\ Requests \subseteq {{}, Sources} /\ (OneAtATime \/ NoNewSharing)

Observing(p) == extraction[p].at \in {"partitioned", "parsing", "committed"}

\* A run selects every source; it knows a closure that each of them had once.
Whole ==
    \A p \in Runs : extraction[p].at # "idle" =>
        /\ extraction[p].selected = Sources
        /\ \A s \in Sources :
             /\ \E v \in 0..MaxChanges :
                  v <= content[s] /\ extraction[p].closure[s] = {s} \cup Includes[s][v]
             /\ extraction[p].command[s] = compileCommand[s]

\* When runs do not overlap, what is stored is not newer than the closure that
\* the run knows, until it has stored facts itself.
NotAhead ==
    OneAtATime =>
        \A p \in Runs, s \in Sources :
            (\/ extraction[p].at = "discovered"
             \/ extraction[p].at # "idle" /\ s \notin extraction[p].stale)
            => \E v \in 0..MaxChanges :
                 /\ v <= content[s] /\ extraction[p].closure[s] = {s} \cup Includes[s][v]
                 /\ \A d \in Outputs : stored[d][s] # None => stored[d][s].files[s] <= v

Observed ==
    \A p \in Runs : Observing(p) => \A f \in Files : extraction[p].observed[f] <= content[f]

\* The facts x of s that d has or that a run is about to store there.
Held(s, d, x) ==
    \/ x = stored[d][s]
    \/ \E q \in Runs : extraction[q].out = d /\ x = extraction[q].parsed[s]

\* Facts made from nothing older than what run p observed.
AsSeen(p, x) == \A f \in DOMAIN x.files : x.files[f] >= extraction[p].observed[f]

\* Facts made after an edit that run p has not observed.
Overtaken ==
    \A p \in Runs, s \in Sources, d \in Outputs, x \in FactInputs :
        (Observing(p) /\ Held(s, d, x) /\ x.files[s] > extraction[p].observed[s]) => AsSeen(p, x)

\* A run parses what it observed or later; so do those that follow it.
Parsed ==
    \A p \in Runs, s \in Sources : extraction[p].parsed[s] # None =>
        /\ AsSeen(p, extraction[p].parsed[s])
        /\ extraction[p].parsed[s].command = compileCommand[s]
        /\ \A q \in Runs :
             (extraction[q].at = "committed" /\ extraction[q].out = extraction[p].out)
             => AsSeen(q, extraction[p].parsed[s])

\* What is stored once a run has committed.
Written ==
    \A p \in Runs, s \in Sources :
        (extraction[p].at = "committed" /\ s \in extraction[p].stale) =>
            LET x == stored[extraction[p].out][s] IN
            x # None /\ AsSeen(p, x) /\ x.command = compileCommand[s]

\* What is stored of a source that a run skips.
Skipped ==
    \A p \in Runs, s \in Sources :
        (Observing(p) /\ s \notin extraction[p].stale) =>
            LET x == stored[extraction[p].out][s] IN
            /\ x # None
            /\ \A f \in extraction[p].closure[s] \cap DOMAIN x.files :
                 x.files[f] >= extraction[p].observed[f]

\* Facts of the current text of a source are as new as the rows of its files.
Reached ==
    \A s \in Sources, d \in Outputs, x \in FactInputs :
        (Held(s, d, x) /\ x.files[s] = content[s]) =>
            \A f \in DOMAIN x.files :
                (indexState[f] # None /\ indexState[f].db = d) => x.files[f] >= indexState[f].mtime

\* The row of a source stands for facts.
Vouched ==
    \A s \in Sources : indexState[s] # None =>
        LET x == stored[indexState[s].db][s] IN
        x # None /\ x.files[s] >= indexState[s].mtime /\ x.command = compileCommand[s]

RowsKnown ==
    \A f \in Files :
        /\ f \notin registered => indexState[f] = None
        /\ indexState[f] # None => indexState[f].mtime <= content[f]

SkipInv == Forward /\ Whole /\ NotAhead /\ Observed /\ Overtaken /\ Parsed /\ Written /\ Skipped
           /\ Reached /\ Vouched /\ RowsKnown

\* Steps of a run that is not idle afterwards.
LEMMA RunStep ==
    ASSUME ExtractTypeOK, [ExtractNext]_extractVars, NEW p \in Runs, extraction'[p].at # "idle"
    PROVE  \/ extraction'[p] = extraction[p]
           \/ \E req \in Requests, d \in Outputs, force \in BOOLEAN : Discover(p, req, d, force)
           \/ Partition(p) \/ BeginExtraction(p)
           \/ \E s \in Sources : ParseSource(p, s)
           \/ CommitExtraction(p)
  <1>1. CASE Outside
    BY <1>1, OutsideFrame
  <1>2. CASE UNCHANGED extractVars
    BY <1>2 DEF extractVars
  <1>3. ASSUME NEW q \in Runs, Extraction(q), q # p PROVE extraction'[p] = extraction[p]
    <2>1. \A req \in Requests, e \in Outputs, force \in BOOLEAN :
            Discover(q, req, e, force) => extraction'[p] = extraction[p]
      BY <1>3, DiscoverRun
    <2>2. Partition(q) \/ BeginExtraction(q) \/ CommitExtraction(q) \/ RecordState(q)
          \/ EndExtraction(q) => extraction'[p] = extraction[p]
      BY <1>3, PartitionRun, BeginRun, CommitRun, LastRun DEF Others
    <2>3. \A t \in Sources : ParseSource(q, t) => extraction'[p] = extraction[p]
      BY <1>3, ParseRun DEF Others
    <2> QED BY <1>3, <2>1, <2>2, <2>3 DEF Extraction
  <1>4. RecordState(p) \/ EndExtraction(p) => extraction'[p].at = "idle"
    BY LastRun, NotRunningFields
  <1> QED BY <1>1, <1>2, <1>3, <1>4 DEF ExtractNext, Outside, Extraction

\* A run that observes has just partitioned, or goes on with what it has.
LEMMA ObservingStep ==
    ASSUME ExtractTypeOK, [ExtractNext]_extractVars, NEW p \in Runs,
           extraction'[p].at \in {"partitioned", "parsing", "committed"}
    PROVE  LET r == extraction[p]
               run == extraction'[p] IN
           \/ /\ Partition(p) /\ r.at = "discovered" /\ run.at = "partitioned"
              /\ run.out = r.out /\ run.closure = r.closure /\ run.selected = r.selected
              /\ run.command = r.command
              /\ run.stale = StaleSources(r) /\ run.observed = content
           \/ /\ Observing(p) /\ run.out = r.out /\ run.closure = r.closure
              /\ run.selected = r.selected /\ run.command = r.command
              /\ run.stale = r.stale /\ run.observed = r.observed
              /\ run.at = "committed" => (r.at = "committed" \/ CommitExtraction(p))
  <1>1. CASE extraction'[p] = extraction[p]
    BY <1>1 DEF Observing
  <1>2. ~(\E req \in Requests, d \in Outputs, force \in BOOLEAN : Discover(p, req, d, force))
    BY DiscoverRun
  <1>3. CASE Partition(p)
    <2>1. extraction[p].at = "discovered"
      BY <1>3 DEF Partition
    <2>2. extraction'[p] # NotRunning
      BY NotRunningFields
    <2> QED BY <1>3, <2>1, <2>2, PartitionRun DEF Keeps
  <1>4. CASE BeginExtraction(p)
    <2>1. extraction[p].at = "partitioned"
      BY <1>4 DEF BeginExtraction
    <2> QED BY <1>4, <2>1, BeginRun DEF Keeps, Observing
  <1>5. ASSUME NEW s \in Sources, ParseSource(p, s)
        PROVE  /\ Observing(p) /\ extraction'[p].out = extraction[p].out
               /\ extraction'[p].closure = extraction[p].closure
               /\ extraction'[p].selected = extraction[p].selected
               /\ extraction'[p].command = extraction[p].command
               /\ extraction'[p].stale = extraction[p].stale
               /\ extraction'[p].observed = extraction[p].observed
               /\ extraction'[p].at # "committed"
    BY <1>5, ParseRun DEF Keeps, Observing
  <1>6. CASE CommitExtraction(p)
    BY <1>6, CommitRun DEF Keeps, Observing
  <1> QED BY <1>1, <1>2, <1>3, <1>4, <1>5, <1>6, RunStep

\* Facts that are held after a step were held before, or were just parsed.
LEMMA HeldStep ==
    ASSUME ExtractTypeOK, OutputKnown, [ExtractNext]_extractVars,
           NEW s \in Sources, NEW d \in Outputs, NEW x \in FactInputs,
           \/ x = stored'[d][s]
           \/ \E q \in Runs : extraction'[q].out = d /\ x = extraction'[q].parsed[s]
    PROVE  \/ Held(s, d, x)
           \/ \E p \in Runs : /\ ParseSource(p, s) /\ x = extraction'[p].parsed[s]
                              /\ d = extraction[p].out
  <1>0. x # None
    BY ExtractAssumption
  <1>1. CASE Quiet
    BY <1>0, <1>1 DEF Quiet, Held
  <1>2. ASSUME NEW p \in Runs, NEW t \in Sources, ParseSource(p, t)
        PROVE  Held(s, d, x) \/ (ParseSource(p, s) /\ x = extraction'[p].parsed[s] /\ d = extraction[p].out)
    <2>1. stored' = stored
      BY <1>2 DEF ParseSource
    <2>2. extraction'[p].out = extraction[p].out
          /\ \A u \in Sources : u # t => extraction'[p].parsed[u] = extraction[p].parsed[u]
      BY <1>2, ParseRun DEF Keeps
    <2>3. \A q \in Runs : q # p => extraction'[q] = extraction[q]
      BY <1>2, ParseRun DEF Others
    <2> QED BY <1>2, <2>1, <2>2, <2>3 DEF Held
  <1>3. ASSUME NEW p \in Runs, CommitExtraction(p) PROVE Held(s, d, x)
    <2>1. stored'[d][s] = stored[d][s]
          \/ (d = extraction[p].out /\ stored'[d][s] = extraction[p].parsed[s])
      BY <1>3, CommittedNow
    <2>2. \A q \in Runs : q # p => extraction'[q] = extraction[q]
      BY <1>3, CommitRun DEF Others
    <2>3. extraction'[p].parsed[s] = None
      BY <1>3, CommitRun
    <2> QED BY <1>0, <2>1, <2>2, <2>3 DEF Held
  <1> QED BY <1>1, <1>2, <1>3, QuietSteps

\* Held facts were made from the past.
LEMMA HeldPast ==
    ASSUME Forward, NEW s \in Sources, NEW d \in Outputs, NEW x \in FactInputs, Held(s, d, x)
    PROVE  Past(s, x)
  <1>1. x # None
    BY ExtractAssumption
  <1> QED BY <1>1 DEF Held, Forward, AllPast

\* Facts that a run has just parsed are those of the contents now.
LEMMA ParsedIsNow ==
    ASSUME Forward, NEW p \in Runs, NEW s \in Sources, ParseSource(p, s)
    PROVE  LET x == extraction'[p].parsed[s] IN
           /\ \A f \in DOMAIN x.files : f \in Files /\ x.files[f] = content'[f] /\ content'[f] = content[f]
           /\ s \in DOMAIN x.files
  BY ParsedNow DEF Forward

\* When nothing changes under a run, a command changes only while all are idle.
LEMMA CommandsStay ==
    ASSUME ExtractTypeOK, ~MidRun, [ExtractNext]_extractVars, NEW p \in Runs,
           extraction[p].at # "idle" \/ extraction'[p].at # "idle"
    PROVE  compileCommand' = compileCommand
  <1>1. CASE Outside
    <2>1. extraction[p].at # "idle"
      BY <1>1, OutsideFrame
    <2>2. ~MayMutate
      BY <2>1 DEF MayMutate
    <2> QED BY <1>1, <2>2 DEF Outside, EditFile, DropSource, RestoreSource, GitCommit, SetOption,
            ImportStore, ImportRegister, ImportComplete, registry
  <1>2. ASSUME NEW q \in Runs, Extraction(q) PROVE compileCommand' = compileCommand
    BY <1>2 DEF Extraction, Discover, Partition, BeginExtraction, ParseSource, CommitExtraction,
       RecordState, EndExtraction, registry
  <1>3. CASE UNCHANGED extractVars
    BY <1>3 DEF extractVars, registry
  <1> QED BY <1>1, <1>2, <1>3 DEF ExtractNext, Outside

\* What a step does to a row, apart from recording.
LEMMA RowStep ==
    ASSUME ExtractTypeOK, OutputKnown, RowsKnown, [ExtractNext]_extractVars,
           NEW f \in Files, indexState'[f] # None
    PROVE  \/ /\ indexState'[f] = indexState[f]
              /\ f \in Sources => compileCommand'[f] = compileCommand[f]
           \/ \E p \in Runs :
                LET r == extraction[p] IN
                /\ RecordState(p) /\ f \in ToMark(r)
                /\ indexState'[f].db = r.out /\ indexState'[f].mtime = r.observed[f]
                /\ UNCHANGED <<content, stored, compileCommand, registered>>
                /\ ToMark(r) \subseteq registered
  <1>1. ASSUME NEW fs \in SUBSET Files, indexState' = ResetRows(fs), compileCommand' = NewCommands(fs)
        PROVE  /\ indexState'[f] = indexState[f]
               /\ f \in Sources => compileCommand'[f] = compileCommand[f]
    BY <1>1 DEF ResetRows, NewCommands
  <1>2. CASE Outside
    <2>1. ASSUME NEW ss \in SUBSET Sources, SetOption(ss) \/ ImportStore(ss)
          PROVE  /\ indexState'[f] = indexState[f]
                 /\ f \in Sources => compileCommand'[f] = compileCommand[f]
      <3>1. ss \in SUBSET Files
        BY DEF Files
      <3> QED BY <1>1, <2>1, <3>1 DEF SetOption, ImportStore
    <2>2. ASSUME NEW g \in Files, DropSource(g)
          PROVE  /\ indexState'[f] = indexState[f]
                 /\ f \in Sources => compileCommand'[f] = compileCommand[f]
      <3>1. indexState' = ResetRows({g}) /\ compileCommand' = compileCommand
        BY <2>2 DEF DropSource
      <3> QED BY <3>1 DEF ResetRows
    <2>3. ASSUME NEW g \in Files, RestoreSource(g)
          PROVE  /\ indexState'[f] = indexState[f]
                 /\ f \in Sources => compileCommand'[f] = compileCommand[f]
      <3>1. indexState' = indexState /\ compileCommand' = NewCommands({g}) /\ g \notin registered
        BY <2>3 DEF RestoreSource
      <3>2. f # g
        BY <3>1 DEF RowsKnown
      <3> QED BY <3>1, <3>2 DEF NewCommands
    <2>4. CASE (\E g \in Files : EditFile(g)) \/ GitCommit \/ ImportRegister \/ ImportComplete
      BY <2>4 DEF EditFile, GitCommit, ImportRegister, ImportComplete, registry
    <2> QED BY <1>2, <2>1, <2>2, <2>3, <2>4 DEF Outside
  <1>3. ASSUME NEW p \in Runs, Extraction(p), ~RecordState(p)
        PROVE  indexState'[f] = indexState[f] /\ compileCommand' = compileCommand
    BY <1>3 DEF Extraction, Discover, Partition, BeginExtraction, ParseSource, CommitExtraction,
       EndExtraction, registry
  <1>4. ASSUME NEW p \in Runs, RecordState(p)
        PROVE  /\ UNCHANGED <<content, stored, compileCommand, registered>>
               /\ \/ indexState'[f] = indexState[f]
                  \/ /\ f \in ToMark(extraction[p]) /\ ToMark(extraction[p]) \subseteq registered
                     /\ indexState'[f].db = extraction[p].out
                     /\ indexState'[f].mtime = extraction[p].observed[f]
    BY <1>4, RecordedRow DEF RecordState, workingTree
  <1>5. CASE UNCHANGED extractVars
    BY <1>5 DEF extractVars, registry
  <1> QED BY <1>2, <1>3, <1>4, <1>5 DEF ExtractNext, Outside

LEMMA ContentNat ==
    ASSUME ExtractTypeOK, OutputKnown, [ExtractNext]_extractVars, NEW f \in Files
    PROVE  content[f] \in Nat /\ content'[f] \in Nat /\ content[f] <= content'[f]
  BY ExtractTypeKept, ContentGrows DEF ExtractTypeOK

LEMMA WholeKept ==
    ASSUME SkipInv, Undivided, [ExtractNext]_extractVars
    PROVE  Whole'
  <1> USE DEF SkipInv, Forward
  <1> SUFFICES ASSUME NEW p \in Runs, extraction'[p].at # "idle"
               PROVE  /\ extraction'[p].selected = Sources
                      /\ \A s \in Sources :
                           /\ \E v \in 0..MaxChanges :
                                /\ v <= content'[s]
                                /\ extraction'[p].closure[s] = {s} \cup Includes[s][v]
                           /\ extraction'[p].command[s] = compileCommand'[s]
    BY DEF Whole
  <1>1. compileCommand' = compileCommand
    BY CommandsStay DEF Undivided
  <1>2. ASSUME NEW req \in Requests, NEW d \in Outputs, NEW force \in BOOLEAN,
               Discover(p, req, d, force)
        PROVE  /\ extraction'[p].selected = Sources
               /\ \A s \in Sources :
                    /\ \E v \in 0..MaxChanges :
                         /\ v <= content'[s]
                         /\ extraction'[p].closure[s] = {s} \cup Includes[s][v]
                    /\ extraction'[p].command[s] = compileCommand'[s]
    <2>1. extraction'[p].selected = Sources
      BY <1>2, DiscoverRun DEF Selected, Undivided
    <2>2. \A s \in Sources : extraction'[p].command[s] = compileCommand[s]
                             /\ extraction'[p].closure[s] = {s} \cup Includes[s][content[s]]
      BY <1>2, <2>1, DiscoverRun DEF Closure
    <2>3. \A s \in Sources : content[s] \in 0..MaxChanges /\ content[s] <= content'[s]
      BY ContentBounded, ContentNat DEF Files
    <2> QED BY <1>1, <2>1, <2>2, <2>3
  <1>3. CASE /\ extraction'[p].selected = extraction[p].selected
             /\ extraction'[p].closure = extraction[p].closure
             /\ extraction'[p].command = extraction[p].command
             /\ extraction[p].at # "idle"
    <2>1. ASSUME NEW s \in Sources
          PROVE  \E v \in 0..MaxChanges :
                   v <= content'[s] /\ extraction[p].closure[s] = {s} \cup Includes[s][v]
      <3>1. PICK v \in 0..MaxChanges :
              v <= content[s] /\ extraction[p].closure[s] = {s} \cup Includes[s][v]
        BY <1>3 DEF Whole
      <3>2. content[s] \in Nat /\ content'[s] \in Nat /\ content[s] <= content'[s]
        BY ContentNat DEF Files
      <3>3. v <= content'[s]
        BY <3>1, <3>2
      <3> QED BY <3>1, <3>3
    <2> QED BY <1>1, <1>3, <2>1 DEF Whole
  <1>4. Partition(p) \/ BeginExtraction(p) \/ (\E s \in Sources : ParseSource(p, s)) \/ CommitExtraction(p)
        => /\ extraction'[p].selected = extraction[p].selected
           /\ extraction'[p].closure = extraction[p].closure
           /\ extraction'[p].command = extraction[p].command
           /\ extraction[p].at # "idle"
    <2>1. Partition(p) => Keeps(p) /\ extraction[p].at # "idle"
      BY PartitionRun, NotRunningFields DEF Partition
    <2>2. BeginExtraction(p) => Keeps(p) /\ extraction[p].at # "idle"
      BY BeginRun DEF BeginExtraction
    <2>3. (\E s \in Sources : ParseSource(p, s)) => Keeps(p) /\ extraction[p].at # "idle"
      BY ParseRun
    <2>4. CommitExtraction(p) => Keeps(p) /\ extraction[p].at # "idle"
      BY CommitRun
    <2> QED BY <2>1, <2>2, <2>3, <2>4 DEF Keeps
  <1> QED BY <1>2, <1>3, <1>4, RunStep

LEMMA ObservedKept ==
    ASSUME SkipInv, [ExtractNext]_extractVars
    PROVE  Observed'
  <1> USE DEF SkipInv, Forward
  <1> SUFFICES ASSUME NEW p \in Runs, extraction'[p].at \in {"partitioned", "parsing", "committed"},
                      NEW f \in Files
               PROVE  extraction'[p].observed[f] <= content'[f]
    BY DEF Observed, Observing
  <1>1. content[f] \in Nat /\ content'[f] \in Nat /\ content[f] <= content'[f]
    BY ContentNat
  <1>2. CASE extraction'[p].observed = content
    BY <1>1, <1>2
  <1>3. CASE Observing(p) /\ extraction'[p].observed = extraction[p].observed
    <2>1. extraction[p].observed[f] <= content[f] /\ extraction[p].observed[f] \in Nat
      BY <1>3 DEF Observed, ExtractTypeOK, RunRecords
    <2> QED BY <1>1, <1>3, <2>1
  <1> QED BY <1>2, <1>3, ObservingStep

LEMMA RowsKnownKept ==
    ASSUME SkipInv, [ExtractNext]_extractVars
    PROVE  RowsKnown'
  <1> USE DEF SkipInv, Forward
  <1>1. ASSUME NEW f \in Files, indexState'[f] # None
        PROVE  indexState'[f].mtime <= content'[f]
    <2>1. content[f] \in Nat /\ content'[f] \in Nat /\ content[f] <= content'[f]
      BY ContentNat
    <2>2. CASE indexState'[f] = indexState[f]
      <3>1. indexState[f].mtime <= content[f] /\ indexState[f].mtime \in Nat
        BY <1>1, <2>2 DEF RowsKnown, ExtractTypeOK, IndexStates
      <3> QED BY <2>1, <2>2, <3>1
    <2>3. ASSUME NEW p \in Runs, RecordState(p), indexState'[f].mtime = extraction[p].observed[f]
          PROVE  indexState'[f].mtime <= content'[f]
      <3>1. Observing(p)
        BY <2>3 DEF RecordState, Observing
      <3>2. extraction[p].observed[f] <= content[f] /\ extraction[p].observed[f] \in Nat
        BY <3>1 DEF Observed, ExtractTypeOK, RunRecords
      <3> QED BY <2>1, <2>3, <3>2
    <2> QED BY <1>1, <2>2, <2>3, RowStep
  <1>2. ASSUME NEW f \in Files, f \notin registered' PROVE indexState'[f] = None
    <2>1. CASE f \in registered
      <3>1. CASE Outside
        <4>1. DropSource(f)
          BY <1>2, <2>1, <3>1 DEF Outside, EditFile, DropSource, RestoreSource, GitCommit, SetOption,
             ImportStore, ImportRegister, ImportComplete, registry, WithRows
        <4> QED BY <4>1 DEF DropSource, ResetRows
      <3>2. ASSUME NEW p \in Runs, Extraction(p) PROVE registered' = registered
        BY <3>2 DEF Extraction, Discover, Partition, BeginExtraction, ParseSource, CommitExtraction,
           RecordState, EndExtraction, registry
      <3>3. CASE UNCHANGED extractVars
        BY <3>3, <1>2, <2>1 DEF extractVars, registry
      <3> QED BY <1>2, <2>1, <3>1, <3>2, <3>3 DEF ExtractNext, Outside
    <2>2. CASE f \notin registered
      <3>1. indexState[f] = None
        BY <2>2 DEF RowsKnown
      <3>2. ASSUME indexState'[f] # None PROVE FALSE
        BY <3>1, <3>2, <2>2, RowStep
      <3> QED BY <3>2
    <2> QED BY <2>1, <2>2
  <1> QED BY <1>1, <1>2 DEF RowsKnown

LEMMA OvertakenKept ==
    ASSUME SkipInv, [ExtractNext]_extractVars
    PROVE  Overtaken'
  <1> USE DEF SkipInv, Forward
  <1> SUFFICES ASSUME NEW p \in Runs, NEW s \in Sources, NEW d \in Outputs, NEW x \in FactInputs,
                      extraction'[p].at \in {"partitioned", "parsing", "committed"},
                      \/ x = stored'[d][s]
                      \/ \E q \in Runs : extraction'[q].out = d /\ x = extraction'[q].parsed[s],
                      x.files[s] > extraction'[p].observed[s]
               PROVE  \A f \in DOMAIN x.files : x.files[f] >= extraction'[p].observed[f]
    BY DEF Overtaken, Observing, Held, AsSeen
  <1>1. s \in Files
    BY DEF Files
  <1>2. ASSUME NEW q \in Runs, ParseSource(q, s), x = extraction'[q].parsed[s]
        PROVE  \A f \in DOMAIN x.files : x.files[f] >= extraction'[p].observed[f]
    <2>1. \A f \in DOMAIN x.files : f \in Files /\ x.files[f] = content'[f]
      BY <1>2, ParsedIsNow
    <2>2. \A f \in Files : extraction'[p].observed[f] <= content'[f]
      BY ObservedKept DEF Observed, Observing
    <2>3. \A f \in Files : extraction'[p].observed[f] \in Nat /\ content'[f] \in Nat
      BY ExtractTypeKept DEF ExtractTypeOK, RunRecords
    <2> QED BY <2>1, <2>2, <2>3
  <1>3. CASE Held(s, d, x)
    <2>1. CASE Observing(p) /\ extraction'[p].observed = extraction[p].observed
      BY <1>3, <2>1 DEF Overtaken, AsSeen
    <2>2. CASE extraction'[p].observed = content
      <3>1. x.files[s] <= content[s] /\ x.files[s] \in Nat /\ content[s] \in Nat
        BY <1>1, <1>3, HeldPast, FactInputsTyped DEF Past, ExtractTypeOK
      <3> QED BY <2>2, <3>1
    <2> QED BY <2>1, <2>2, ObservingStep
  <1> QED BY <1>2, <1>3, HeldStep

\* What a step does to the facts that a run has parsed.
LEMMA ParsedStep ==
    ASSUME ExtractTypeOK, OutputKnown, Locked, [ExtractNext]_extractVars,
           NEW p \in Runs, NEW s \in Sources, extraction'[p].parsed[s] # None
    PROVE  /\ extraction[p].at = "parsing" /\ extraction'[p].at = "parsing"
           /\ extraction'[p].observed = extraction[p].observed /\ extraction'[p].out = extraction[p].out
           /\ extraction'[p].parsed[s] = extraction[p].parsed[s] \/ ParseSource(p, s)
  <1>1. extraction'[p].at = "parsing"
    BY LocksStay DEF Locked
  <1>2. CASE extraction'[p] = extraction[p]
    BY <1>1, <1>2
  <1>3. ASSUME NEW t \in Sources, ParseSource(p, t)
        PROVE  /\ extraction[p].at = "parsing"
               /\ extraction'[p].observed = extraction[p].observed /\ extraction'[p].out = extraction[p].out
               /\ extraction'[p].parsed[s] = extraction[p].parsed[s] \/ ParseSource(p, s)
    BY <1>3, ParseRun DEF Keeps
  <1>4. ~(\E req \in Requests, d \in Outputs, force \in BOOLEAN : Discover(p, req, d, force))
    BY <1>1, DiscoverRun
  <1>5. ~Partition(p)
    BY <1>1, PartitionRun, NotRunningFields
  <1>6. ~CommitExtraction(p)
    BY <1>1, CommitRun
  <1>7. ~BeginExtraction(p)
    <2>1. ASSUME BeginExtraction(p) PROVE FALSE
      <3>1. extraction[p].at = "partitioned" /\ extraction'[p].parsed = extraction[p].parsed
        BY <2>1, BeginRun DEF BeginExtraction
      <3> QED BY <3>1 DEF Locked
    <2> QED BY <2>1
  <1> QED BY <1>1, <1>2, <1>3, <1>4, <1>5, <1>6, <1>7, RunStep

LEMMA ParsedKept ==
    ASSUME SkipInv, Undivided, [ExtractNext]_extractVars
    PROVE  Parsed'
  <1> USE DEF SkipInv, Forward
  <1> SUFFICES ASSUME NEW p \in Runs, NEW s \in Sources, extraction'[p].parsed[s] # None
               PROVE  LET x == extraction'[p].parsed[s] IN
                      /\ \A f \in DOMAIN x.files : x.files[f] >= extraction'[p].observed[f]
                      /\ x.command = compileCommand'[s]
                      /\ \A q \in Runs :
                           (extraction'[q].at = "committed" /\ extraction'[q].out = extraction'[p].out)
                           => \A f \in DOMAIN x.files : x.files[f] >= extraction'[q].observed[f]
    BY DEF Parsed, AsSeen
  <1> DEFINE x == extraction'[p].parsed[s]
  <1>1. /\ extraction[p].at = "parsing" /\ extraction'[p].at = "parsing"
        /\ extraction'[p].observed = extraction[p].observed /\ extraction'[p].out = extraction[p].out
        /\ x = extraction[p].parsed[s] \/ ParseSource(p, s)
    BY ParsedStep
  <1>2. compileCommand' = compileCommand
    BY <1>1, CommandsStay DEF Undivided
  <1>3. CASE ParseSource(p, s)
    <2>1. \A f \in DOMAIN x.files : f \in Files /\ x.files[f] = content'[f]
      BY <1>3, ParsedIsNow
    <2>2. \A q \in Runs : extraction'[q].at \in {"partitioned", "parsing", "committed"} =>
            \A f \in Files : extraction'[q].observed[f] <= content'[f]
      BY ObservedKept DEF Observed, Observing
    <2>3. \A q \in Runs, f \in Files : extraction'[q].observed[f] \in Nat /\ content'[f] \in Nat
      BY ExtractTypeKept DEF ExtractTypeOK, RunRecords
    <2>4. x.command = extraction[p].command[s] /\ extraction[p].command[s] = compileCommand[s]
      BY <1>1, <1>3, ParsedNow DEF Whole
    <2> HIDE DEF x
    <2>5. \A q \in Runs : extraction'[q].at \in {"partitioned", "parsing", "committed"} =>
            \A f \in DOMAIN x.files : x.files[f] >= extraction'[q].observed[f]
      BY <2>1, <2>2, <2>3
    <2> QED BY <1>1, <1>2, <2>4, <2>5 DEF x
  <1>4. CASE x = extraction[p].parsed[s]
    <2>1. /\ \A f \in DOMAIN x.files : x.files[f] >= extraction'[p].observed[f]
          /\ x.command = compileCommand'[s]
      BY <1>1, <1>2, <1>4 DEF Parsed, AsSeen
    <2>2. ASSUME NEW q \in Runs, extraction'[q].at = "committed", extraction'[q].out = extraction'[p].out
          PROVE  \A f \in DOMAIN x.files : x.files[f] >= extraction'[q].observed[f]
      <3>1. ~CommitExtraction(q)
        <4>1. ASSUME CommitExtraction(q) PROVE FALSE
          <5>1. extraction[q].at = "parsing" /\ extraction[q].out = extraction[p].out /\ q # p
            BY <4>1, <1>1, <2>2, CommitRun DEF Keeps
          <5>2. writeLock[extraction[p].out] = q /\ writeLock[extraction[p].out] = p
            BY <1>1, <5>1 DEF Locked
          <5> QED BY <5>1, <5>2
        <4> QED BY <4>1
      <3>2. /\ extraction[q].at = "committed" /\ extraction[q].out = extraction[p].out
            /\ extraction'[q].observed = extraction[q].observed
        BY <1>1, <2>2, <3>1, ObservingStep
      <3> QED BY <1>4, <3>2 DEF Parsed, AsSeen
    <2> QED BY <2>1, <2>2
  <1> QED BY <1>1, <1>3, <1>4

\* What a step does to the facts that are stored.
LEMMA StoredStep ==
    ASSUME ExtractTypeOK, OutputKnown, [ExtractNext]_extractVars, NEW d \in Outputs, NEW s \in Sources
    PROVE  \/ stored'[d][s] = stored[d][s]
           \/ \E p \in Runs : /\ CommitExtraction(p) /\ d = extraction[p].out /\ s \in extraction[p].stale
                              /\ stored'[d][s] = extraction[p].parsed[s]
                              /\ extraction[p].parsed[s] # None /\ extraction[p].at = "parsing"
  <1>1. \A p \in Runs, t \in Sources : ParseSource(p, t) => stored' = stored
    BY DEF ParseSource
  <1>2. ASSUME NEW p \in Runs, CommitExtraction(p)
        PROVE  \/ stored'[d][s] = stored[d][s]
               \/ /\ d = extraction[p].out /\ s \in extraction[p].stale
                  /\ stored'[d][s] = extraction[p].parsed[s]
                  /\ extraction[p].parsed[s] # None /\ extraction[p].at = "parsing"
    BY <1>2, CommittedNow, CommitRun
  <1> QED BY <1>1, <1>2, QuietSteps DEF Quiet

LEMMA WrittenKept ==
    ASSUME SkipInv, Undivided, [ExtractNext]_extractVars
    PROVE  Written'
  <1> USE DEF SkipInv, Forward
  <1> SUFFICES ASSUME NEW p \in Runs, NEW s \in Sources,
                      extraction'[p].at = "committed", s \in extraction'[p].stale
               PROVE  LET x == stored'[extraction'[p].out][s] IN
                      /\ x # None
                      /\ \A f \in DOMAIN x.files : x.files[f] >= extraction'[p].observed[f]
                      /\ x.command = compileCommand'[s]
    BY DEF Written, AsSeen
  <1> DEFINE d == extraction[p].out
             x == stored'[d][s]
  <1>1. /\ extraction'[p].out = d /\ extraction'[p].observed = extraction[p].observed
        /\ s \in extraction[p].stale /\ Observing(p)
        /\ extraction[p].at = "committed" \/ CommitExtraction(p)
    BY ObservingStep
  <1>2. compileCommand' = compileCommand
    BY CommandsStay DEF Undivided
  <1>3. d \in Outputs
    BY <1>1 DEF OutputKnown, Observing
  <1>4. CASE CommitExtraction(p)
    <2>1. s \in extraction[p].stale
      BY <1>4, CommitRun
    <2>2. x = extraction[p].parsed[s] /\ x # None
      BY <1>3, <1>4, <2>1, CommittedNow
    <2> QED BY <1>1, <1>2, <2>2 DEF Parsed, AsSeen
  <1>5. CASE extraction[p].at = "committed" /\ s \in extraction[p].stale
    <2>1. CASE stored'[d][s] = stored[d][s]
      BY <1>1, <1>2, <1>5, <2>1 DEF Written, AsSeen
    <2>2. ASSUME NEW q \in Runs, d = extraction[q].out, x = extraction[q].parsed[s],
                 extraction[q].parsed[s] # None
          PROVE  /\ x # None
                 /\ \A f \in DOMAIN x.files : x.files[f] >= extraction'[p].observed[f]
                 /\ x.command = compileCommand'[s]
      BY <1>1, <1>2, <1>5, <2>2 DEF Parsed, AsSeen
    <2> QED BY <1>1, <1>3, <2>1, <2>2, StoredStep
  <1> QED BY <1>1, <1>4, <1>5

\* Facts of s with the same text were made from the same files.
LEMMA SameText ==
    ASSUME NEW s, NEW x, NEW y, Past(s, x), Past(s, y), x.files[s] = y.files[s]
    PROVE  DOMAIN x.files = DOMAIN y.files
  BY DEF Past

LEMMA SkippedKept ==
    ASSUME SkipInv, [ExtractNext]_extractVars
    PROVE  Skipped'
  <1> USE DEF SkipInv, Forward
  <1> SUFFICES ASSUME NEW p \in Runs, NEW s \in Sources,
                      extraction'[p].at \in {"partitioned", "parsing", "committed"},
                      s \notin extraction'[p].stale
               PROVE  LET x == stored'[extraction'[p].out][s] IN
                      /\ x # None
                      /\ \A f \in extraction'[p].closure[s] \cap DOMAIN x.files :
                           x.files[f] >= extraction'[p].observed[f]
    BY DEF Skipped, Observing
  <1> DEFINE r == extraction[p]
             d == r.out
             x == stored[d][s]
  <1>1. CASE /\ Partition(p) /\ r.at = "discovered"
             /\ extraction'[p].out = d /\ extraction'[p].closure = r.closure
             /\ extraction'[p].stale = StaleSources(r) /\ extraction'[p].observed = content
    <2>1. stored' = stored /\ d \in Outputs
      BY <1>1 DEF Partition, OutputKnown
    <2>2. r.selected = Sources /\ s \in r.closure[s] /\ r.closure[s] \in SUBSET Files
      BY <1>1 DEF Whole, ExtractTypeOK, RunRecords
    <2>3. SourceFresh(s, d, r.closure[s])
      BY <1>1, <2>2 DEF StaleSources
    <2>4. \A f \in r.closure[s] : indexState[f] # None /\ indexState[f].db = d
                                   /\ indexState[f].mtime = content[f]
      BY <2>3 DEF SourceFresh, FileFresh
    <2>5. x # None /\ x.files[s] >= content[s]
      BY <2>2, <2>4 DEF Vouched
    <2>6. x \in FactInputs /\ Held(s, d, x) /\ Past(s, x)
      BY <2>1, <2>5, FactsTyped DEF Held, AllPast
    <2>7. x.files[s] = content[s]
      <3>1. x.files[s] \in Nat /\ content[s] \in Nat /\ x.files[s] <= content[s]
        BY <2>2, <2>6, FactInputsTyped DEF Past, ExtractTypeOK
      <3> QED BY <2>5, <3>1
    <2>8. \A f \in DOMAIN x.files : (indexState[f] # None /\ indexState[f].db = d)
                                    => x.files[f] >= indexState[f].mtime
      BY <2>1, <2>6, <2>7 DEF Reached
    <2> QED BY <1>1, <2>1, <2>4, <2>5, <2>8
  <1>2. CASE /\ Observing(p) /\ extraction'[p].out = d /\ extraction'[p].closure = r.closure
             /\ extraction'[p].stale = r.stale /\ extraction'[p].observed = r.observed
    <2>1. d \in Outputs /\ r.closure[s] \in SUBSET Files
      BY <1>2 DEF OutputKnown, Observing, ExtractTypeOK, RunRecords
    <2>2. x # None /\ \A f \in r.closure[s] \cap DOMAIN x.files : x.files[f] >= r.observed[f]
      BY <1>2 DEF Skipped
    <2>3. x \in FactInputs /\ Past(s, x)
      BY <2>1, <2>2, FactsTyped DEF AllPast
    <2>4. CASE stored'[d][s] = x
      BY <1>2, <2>2, <2>4
    <2>5. ASSUME NEW q \in Runs, d = extraction[q].out, stored'[d][s] = extraction[q].parsed[s],
                 extraction[q].parsed[s] # None
          PROVE  LET y == stored'[d][s] IN
                 /\ y # None
                 /\ \A f \in r.closure[s] \cap DOMAIN y.files : y.files[f] >= r.observed[f]
      <3> DEFINE y == extraction[q].parsed[s]
      <3>1. y \in FactInputs /\ Held(s, d, y) /\ Past(s, y)
        BY <2>5, FactsTyped DEF Held, AllPast
      <3>2. Before(s, x, y)
        BY <2>5 DEF Newest
      <3>3. CASE x.files[s] = y.files[s] /\ \A f \in DOMAIN y.files : x.files[f] <= y.files[f]
        <4>1. DOMAIN x.files = DOMAIN y.files
          BY <2>3, <3>1, <3>3, SameText
        <4>2. ASSUME NEW f \in r.closure[s] \cap DOMAIN y.files PROVE y.files[f] >= r.observed[f]
          <5>1. f \in Files /\ r.observed[f] \in Nat
            BY <2>1 DEF ExtractTypeOK, RunRecords
          <5>2. x.files[f] \in Nat /\ y.files[f] \in Nat
            BY <2>3, <3>1, <4>1, FactInputsTyped
          <5> QED BY <2>2, <3>3, <4>1, <5>1, <5>2
        <4> QED BY <2>5, <4>2
      <3>4. CASE x.files[s] < y.files[s]
        <4>1. s \in r.closure[s] /\ s \in Files
          BY <1>2 DEF Whole, Observing, Files
        <4>2. x.files[s] \in Nat /\ y.files[s] \in Nat /\ r.observed[s] \in Nat
          <5>1. s \in DOMAIN x.files /\ s \in DOMAIN y.files
            BY <2>3, <3>1 DEF Past
          <5>2. r.observed \in [Files -> Nat]
            BY DEF ExtractTypeOK, RunRecords
          <5> QED BY <2>3, <3>1, <4>1, <5>1, <5>2, FactInputsTyped
        <4>5. x.files[s] >= r.observed[s]
          BY <2>2, <2>3, <4>1 DEF Past
        <4>3. y.files[s] > r.observed[s]
          BY <3>4, <4>2, <4>5
        <4>4. AsSeen(p, y)
          BY <1>2, <2>1, <3>1, <4>3 DEF Overtaken
        <4> QED BY <2>5, <4>4 DEF AsSeen
      <3> QED BY <2>2, <3>2, <3>3, <3>4 DEF Before
    <2> QED BY <1>2, <2>1, <2>4, <2>5, StoredStep
  <1> QED BY <1>1, <1>2, ObservingStep

LEMMA VouchedKept ==
    ASSUME SkipInv, Undivided, [ExtractNext]_extractVars
    PROVE  Vouched'
  <1> USE DEF SkipInv, Forward
  <1> SUFFICES ASSUME NEW s \in Sources, indexState'[s] # None
               PROVE  LET x == stored'[indexState'[s].db][s] IN
                      x # None /\ x.files[s] >= indexState'[s].mtime /\ x.command = compileCommand'[s]
    BY DEF Vouched
  <1>1. s \in Files
    BY DEF Files
  <1>2. CASE indexState'[s] = indexState[s] /\ compileCommand'[s] = compileCommand[s]
    <2> DEFINE d == indexState[s].db
               x == stored[d][s]
               y == stored'[d][s]
    <2>1. d \in Outputs /\ indexState[s].mtime \in Nat
      BY <1>1, <1>2 DEF ExtractTypeOK, IndexStates
    <2>2. x # None /\ x.files[s] >= indexState[s].mtime /\ x.command = compileCommand[s]
      BY <1>2 DEF Vouched
    <2>3. y # None /\ y.files[s] >= x.files[s]
      BY <2>1, <2>2, FactsStep
    <2>4. x.files[s] \in Nat /\ y.files[s] \in Nat
      <3>1. x \in FactInputs /\ Past(s, x) /\ y \in FactInputs
        BY <2>1, <2>2, <2>3, FactsTyped, ExtractTypeKept DEF AllPast, ExtractTypeOK
      <3>2. s \in DOMAIN y.files
        BY <2>1, <2>3, PastKept DEF AllPast, Past
      <3> QED BY <3>1, <3>2, FactInputsTyped DEF Past
    <2>5. y.command = compileCommand[s]
      <3>1. CASE y = x
        BY <2>2, <3>1
      <3>2. ASSUME NEW q \in Runs, y = extraction[q].parsed[s], extraction[q].parsed[s] # None
            PROVE  y.command = compileCommand[s]
        BY <3>2 DEF Parsed
      <3> QED BY <2>1, <3>1, <3>2, StoredStep
    <2> HIDE DEF d, x, y
    <2>6. y # None /\ y.files[s] >= indexState[s].mtime /\ y.command = compileCommand[s]
      BY <2>1, <2>2, <2>3, <2>4, <2>5
    <2> QED BY <1>2, <2>6 DEF d, y
  <1>3. ASSUME NEW p \in Runs, RecordState(p), s \in ToMark(extraction[p]),
               indexState'[s].db = extraction[p].out, indexState'[s].mtime = extraction[p].observed[s],
               UNCHANGED <<content, stored, compileCommand, registered>>
        PROVE  LET x == stored'[indexState'[s].db][s] IN
               x # None /\ x.files[s] >= indexState'[s].mtime /\ x.command = compileCommand'[s]
    <2> DEFINE r == extraction[p]
               x == stored[r.out][s]
    <2>1. r.at = "committed" /\ r.stale \subseteq Sources
      BY <1>3 DEF RecordState, ExtractTypeOK, RunRecords
    <2>2. PICK t \in r.stale : s \in r.closure[t]
      BY <1>3 DEF ToMark
    <2>3. PICK v \in 0..MaxChanges : r.closure[t] = {t} \cup Includes[t][v]
      BY <2>1, <2>2 DEF Whole
    <2>4. Includes[t][v] \subseteq Headers /\ s \notin Headers
      BY <2>1, <2>2, ExtractAssumption
    <2>5. s \in r.stale
      BY <2>2, <2>3, <2>4
    <2>6. x # None /\ AsSeen(p, x) /\ x.command = compileCommand[s]
      BY <2>1, <2>5 DEF Written
    <2>7. s \in DOMAIN x.files
      BY <2>1, <2>6 DEF AllPast, Past, OutputKnown
    <2> QED BY <1>3, <2>6, <2>7 DEF AsSeen
  <1> QED BY <1>1, <1>2, <1>3, RowStep

LEMMA ReachedKept ==
    ASSUME SkipInv, Undivided, [ExtractNext]_extractVars
    PROVE  Reached'
  <1> USE DEF SkipInv, Forward
  <1> SUFFICES ASSUME NEW s \in Sources, NEW d \in Outputs, NEW x \in FactInputs,
                      \/ x = stored'[d][s]
                      \/ \E q \in Runs : extraction'[q].out = d /\ x = extraction'[q].parsed[s],
                      x.files[s] = content'[s], NEW f \in DOMAIN x.files,
                      indexState'[f] # None, indexState'[f].db = d
               PROVE  x.files[f] >= indexState'[f].mtime
    BY DEF Reached, Held
  <1>1. s \in Files /\ f \in Files
    BY FactInputsTyped DEF Files
  <1>2. ASSUME NEW p \in Runs, ParseSource(p, s), x = extraction'[p].parsed[s]
        PROVE  x.files[f] >= indexState'[f].mtime
    <2>1. x.files[f] = content'[f]
      BY <1>2, ParsedIsNow
    <2>2. indexState'[f].mtime <= content'[f] /\ indexState'[f].mtime \in Nat /\ content'[f] \in Nat
      BY <1>1, RowsKnownKept, ExtractTypeKept DEF RowsKnown, ExtractTypeOK, IndexStates
    <2> QED BY <2>1, <2>2
  <1>3. CASE Held(s, d, x)
    <2>1. Past(s, x)
      BY <1>3, HeldPast
    <2>2. x.files[s] = content[s]
      <3>1. x.files[s] <= content[s] /\ x.files[s] \in Nat
        BY <2>1, FactInputsTyped DEF Past
      <3>2. content[s] \in Nat /\ content'[s] \in Nat /\ content[s] <= content'[s]
        BY <1>1, ContentNat
      <3> QED BY <3>1, <3>2
    <2>3. CASE indexState'[f] = indexState[f]
      BY <1>3, <2>2, <2>3 DEF Reached
    <2>4. ASSUME NEW p \in Runs, RecordState(p), f \in ToMark(extraction[p]),
                 indexState'[f].db = extraction[p].out, indexState'[f].mtime = extraction[p].observed[f]
          PROVE  x.files[f] >= indexState'[f].mtime
      <3> DEFINE r == extraction[p]
      <3>1. r.at = "committed" /\ Observing(p) /\ d = r.out
        BY <2>4 DEF RecordState, Observing
      <3>2. ASSUME NEW q \in Runs, extraction[q].out = d, x = extraction[q].parsed[s]
            PROVE  AsSeen(p, x)
        <4>1. x # None
          BY ExtractAssumption
        <4> QED BY <3>1, <3>2, <4>1 DEF Parsed
      <3>3. CASE x = stored[d][s] /\ s \in r.stale
        BY <2>4, <3>1, <3>3 DEF Written, AsSeen
      <3>4. CASE x = stored[d][s] /\ s \notin r.stale
        <4>1. \A g \in r.closure[s] \cap DOMAIN x.files : x.files[g] >= r.observed[g]
          BY <3>1, <3>4 DEF Skipped
        <4>2. f \in r.closure[s]
          <5> SUFFICES ASSUME f \notin r.closure[s] PROVE FALSE
            OBVIOUS
          <5>0. ~OneAtATime
            <6>1. SUFFICES ASSUME OneAtATime PROVE FALSE
              OBVIOUS
            <6>2. x # None /\ r.at # "idle"
              BY <3>1, ExtractAssumption
            <6>3. PICK v \in 0..MaxChanges :
                    v <= content[s] /\ r.closure[s] = {s} \cup Includes[s][v] /\ x.files[s] <= v
              BY <3>1, <3>4, <6>1, <6>2 DEF NotAhead
            <6>4. content[s] = v
              BY <1>1, <2>2, <6>3, ContentBounded
            <6> QED BY <2>1, <2>2, <6>3, <6>4 DEF Past
          <5>1. PICK u \in 0..MaxChanges : u <= content[s] /\ r.closure[s] = {s} \cup Includes[s][u]
            BY <3>1 DEF Whole
          <5>2. f \in Includes[s][content[s]] \ Includes[s][u]
            BY <2>1, <2>2, <5>1 DEF Past
          <5>3. PICK t \in r.stale : f \in r.closure[t]
            BY <2>4 DEF ToMark
          <5>4. t \in Sources /\ t # s
            BY <3>4, <5>3 DEF ExtractTypeOK, RunRecords
          <5>5. PICK w \in 0..MaxChanges : r.closure[t] = {t} \cup Includes[t][w]
            BY <3>1, <5>4 DEF Whole
          <5>6. content[s] \in 0..MaxChanges /\ u < content[s]
            <6>1. content[s] \in 0..MaxChanges
              BY <1>1, ContentBounded
            <6>2. u # content[s]
              BY <5>2
            <6> QED BY <5>1, <6>1, <6>2
          <5>7. f \in Headers /\ t \notin Headers
            BY <5>2, <5>4, <5>6, ExtractAssumption
          <5>8. f \in Includes[t][w]
            BY <5>3, <5>4, <5>5, <5>7
          <5> QED BY <5>0, <5>2, <5>4, <5>6, <5>8 DEF Undivided, NoNewSharing
        <4> QED BY <2>4, <4>1, <4>2
      <3> QED BY <1>3, <2>4, <3>2, <3>3, <3>4 DEF Held, AsSeen
    <2> QED BY <1>1, <2>3, <2>4, RowStep
  <1> QED BY <1>2, <1>3, HeldStep

LEMMA NotAheadKept ==
    ASSUME SkipInv, Undivided, [ExtractNext]_extractVars
    PROVE  NotAhead'
  <1> USE DEF SkipInv, Forward
  <1> SUFFICES ASSUME OneAtATime, NEW p \in Runs, NEW s \in Sources,
                      \/ extraction'[p].at = "discovered"
                      \/ extraction'[p].at # "idle" /\ s \notin extraction'[p].stale
               PROVE  \E v \in 0..MaxChanges :
                        /\ v <= content'[s] /\ extraction'[p].closure[s] = {s} \cup Includes[s][v]
                        /\ \A d \in Outputs : stored'[d][s] # None => stored'[d][s].files[s] <= v
    BY DEF NotAhead
  <1>1. s \in Files /\ extraction'[p].at # "idle"
    BY DEF Files
  <1>2. content[s] \in Nat /\ content'[s] \in Nat /\ content[s] <= content'[s]
    BY <1>1, ContentNat
  <1>3. ASSUME NEW req \in Requests, NEW e \in Outputs, NEW force \in BOOLEAN,
               Discover(p, req, e, force), s \in Selected(req)
        PROVE  \E v \in 0..MaxChanges :
                 /\ v <= content'[s] /\ extraction'[p].closure[s] = {s} \cup Includes[s][v]
                 /\ \A d \in Outputs : stored'[d][s] # None => stored'[d][s].files[s] <= v
    <2>1. stored' = stored
      BY <1>3 DEF Discover
    <2>2. extraction'[p].closure[s] = {s} \cup Includes[s][content[s]]
      BY <1>3, DiscoverRun DEF Closure
    <2>3. content[s] \in 0..MaxChanges
      BY <1>1, ContentBounded
    <2>4. \A d \in Outputs : stored[d][s] # None => stored[d][s].files[s] <= content[s]
      BY DEF AllPast, Past
    <2> QED BY <1>2, <2>1, <2>2, <2>3, <2>4
  <1>4. ASSUME extraction'[p].closure = extraction[p].closure,
               \/ extraction[p].at = "discovered"
               \/ extraction[p].at # "idle" /\ s \notin extraction[p].stale,
               \A d \in Outputs : stored'[d][s] = stored[d][s]
        PROVE  \E v \in 0..MaxChanges :
                 /\ v <= content'[s] /\ extraction'[p].closure[s] = {s} \cup Includes[s][v]
                 /\ \A d \in Outputs : stored'[d][s] # None => stored'[d][s].files[s] <= v
    <2>1. PICK v \in 0..MaxChanges :
            /\ v <= content[s] /\ extraction[p].closure[s] = {s} \cup Includes[s][v]
            /\ \A d \in Outputs : stored[d][s] # None => stored[d][s].files[s] <= v
      BY <1>4 DEF NotAhead
    <2>2. v <= content'[s]
      BY <1>2, <2>1
    <2> QED BY <1>4, <2>1, <2>2
  <1>5. ASSUME ~CommitExtraction(p) PROVE \A d \in Outputs : stored'[d][s] = stored[d][s]
    BY <1>5, StoredStep DEF OneAtATime
  <1>6. CASE extraction'[p] = extraction[p]
    <2>1. ~CommitExtraction(p)
      BY <1>6, CommitRun
    <2> QED BY <1>4, <1>5, <1>6, <2>1
  <1>7. CASE Partition(p)
    <2>1. ~CommitExtraction(p) /\ extraction[p].at = "discovered"
      BY <1>7 DEF Partition, CommitExtraction
    <2>2. extraction'[p].closure = extraction[p].closure
      BY <1>1, <1>7, PartitionRun, NotRunningFields DEF Keeps
    <2> QED BY <1>4, <1>5, <2>1, <2>2
  <1>8. CASE BeginExtraction(p)
    <2>1. ~CommitExtraction(p) /\ extraction[p].at = "partitioned"
      BY <1>8 DEF BeginExtraction, CommitExtraction
    <2> QED BY <1>4, <1>5, <1>8, <2>1, BeginRun DEF Keeps
  <1>9. ASSUME NEW t \in Sources, ParseSource(p, t)
        PROVE  \A d \in Outputs : stored'[d][s] = stored[d][s]
    BY <1>9 DEF ParseSource
  <1>10. ASSUME NEW t \in Sources, ParseSource(p, t)
         PROVE  \E v \in 0..MaxChanges :
                  /\ v <= content'[s] /\ extraction'[p].closure[s] = {s} \cup Includes[s][v]
                  /\ \A d \in Outputs : stored'[d][s] # None => stored'[d][s].files[s] <= v
    BY <1>4, <1>9, <1>10, ParseRun DEF Keeps
  <1>11. CASE CommitExtraction(p)
    <2>1. s \notin extraction[p].stale /\ extraction[p].at = "parsing"
          /\ extraction'[p].closure = extraction[p].closure
      BY <1>11, CommitRun DEF Keeps
    <2>2. \A d \in Outputs : stored'[d][s] = stored[d][s]
      BY <1>11, <2>1, CommittedNow
    <2> QED BY <1>4, <2>1, <2>2
  <1>12. ASSUME NEW req \in Requests, NEW e \in Outputs, NEW force \in BOOLEAN,
                Discover(p, req, e, force)
         PROVE  s \in Selected(req)
    BY <1>12, DiscoverRun, WholeKept DEF Whole
  <1> QED BY <1>1, <1>3, <1>6, <1>7, <1>8, <1>10, <1>11, <1>12, RunStep

LEMMA SkipInit == ExtractInit => SkipInv
  <1> SUFFICES ASSUME ExtractInit PROVE SkipInv
    OBVIOUS
  <1>1. Forward
    BY ForwardInit
  <1>2. \A p \in Runs : extraction[p].at = "idle" /\ \A s \in Sources : extraction[p].parsed[s] = None
    BY NotRunningFields DEF ExtractInit
  <1>3. \A d \in Outputs, s \in Sources : stored[d][s] = None
    BY DEF ExtractInit
  <1>4. \A f \in Files : indexState[f] = None
    BY DEF ExtractInit
  <1>5. \A s \in Sources, d \in Outputs, x \in FactInputs : ~Held(s, d, x)
    BY <1>2, <1>3, ExtractAssumption DEF Held
  <1>6. Whole /\ NotAhead /\ Observed /\ Written /\ Skipped
    BY <1>2 DEF Whole, NotAhead, Observed, Written, Skipped, Observing
  <1>7. Vouched /\ RowsKnown
    BY <1>4 DEF Vouched, RowsKnown, Files
  <1> QED BY <1>1, <1>2, <1>5, <1>6, <1>7 DEF SkipInv, Overtaken, Parsed, Reached

LEMMA SkipNext == Undivided /\ SkipInv /\ [ExtractNext]_extractVars => SkipInv'
  <1> SUFFICES ASSUME Undivided, SkipInv, [ExtractNext]_extractVars PROVE SkipInv'
    OBVIOUS
  <1>1. Forward'
    BY ForwardNext DEF SkipInv
  <1>2. Whole' /\ NotAhead' /\ Observed' /\ Overtaken' /\ Parsed'
    BY WholeKept, NotAheadKept, ObservedKept, OvertakenKept, ParsedKept
  <1>3. Written' /\ Skipped' /\ Reached' /\ Vouched' /\ RowsKnown'
    BY WrittenKept, SkippedKept, ReachedKept, VouchedKept, RowsKnownKept
  <1> QED BY <1>1, <1>2, <1>3 DEF SkipInv

LEMMA SkipInvCurrent == SkipInv => SkippedIsCurrent
  <1> USE DEF SkipInv, Forward
  <1> SUFFICES ASSUME SkipInv, NEW s \in Sources, NEW d \in Outputs, SourceFresh(s, d, Closure(s))
               PROVE  stored[d][s] = Inputs(s, compileCommand[s])
    BY DEF SkippedIsCurrent
  <1> DEFINE x == stored[d][s]
  <1>1. s \in Closure(s) /\ Closure(s) \in SUBSET Files
    BY ClosureTyped
  <1>2. \A f \in Closure(s) : indexState[f] # None /\ indexState[f].db = d /\ indexState[f].mtime = content[f]
    BY DEF SourceFresh, FileFresh
  <1>3. x # None /\ x.files[s] >= content[s] /\ x.command = compileCommand[s]
    BY <1>1, <1>2 DEF Vouched
  <1>4. x \in FactInputs /\ Held(s, d, x) /\ Past(s, x)
    BY <1>3, FactsTyped DEF Held, AllPast
  <1>5. x.files[s] = content[s]
    <2>1. x.files[s] \in Nat /\ content[s] \in Nat /\ x.files[s] <= content[s]
      BY <1>1, <1>4, FactInputsTyped DEF Past, ExtractTypeOK
    <2> QED BY <1>3, <2>1
  <1>6. DOMAIN x.files = Closure(s)
    BY <1>4, <1>5 DEF Past, Closure
  <1>7. \A f \in Closure(s) : x.files[f] = content[f]
    <2> SUFFICES ASSUME NEW f \in Closure(s) PROVE x.files[f] = content[f]
      OBVIOUS
    <2>1. x.files[f] >= content[f]
      BY <1>2, <1>4, <1>5, <1>6 DEF Reached
    <2>2. x.files[f] <= content[f] /\ x.files[f] \in Nat /\ content[f] \in Nat
      BY <1>1, <1>4, <1>6, FactInputsTyped DEF Past, ExtractTypeOK
    <2> QED BY <2>1, <2>2
  <1>8. x.files = [f \in Closure(s) |-> content[f]]
    BY <1>4, <1>6, <1>7, FactInputsTyped
  <1>9. x = [files |-> x.files, command |-> x.command]
    BY <1>4, FactInputsTyped
  <1> QED BY <1>3, <1>8, <1>9 DEF Inputs

(* A source that a run would skip has, in the database that the run would   *)
(* write, facts of its current text, headers and command, for any number of *)
(* overlapping runs, failures, crashes, edits and imports: when runs        *)
(* extract every source, commands change only between them, and no edit     *)
(* makes a source include a header of another one or runs do not overlap    *)
(* (ExtractionFreshness.h).                                                 *)
THEOREM SkippedMeansCurrent == ASSUME Undivided PROVE ExtractSpec => []SkippedIsCurrent
  <1>1. ExtractInit => SkipInv
    BY SkipInit
  <1>2. SkipInv /\ [ExtractNext]_extractVars => SkipInv'
    BY SkipNext
  <1>3. SkipInv => SkippedIsCurrent
    BY SkipInvCurrent
  <1> QED BY <1>1, <1>2, <1>3, PTL DEF ExtractSpec

-----------------------------------------------------------------------------
(* Catalogs and paired facts databases *)

LEMMA LeastExists ==
    ASSUME NEW ids, ids \subseteq Nat, ids # {}
    PROVE  Min(ids) \in ids /\ \A y \in ids : Min(ids) <= y
  <1> DEFINE upTo == {1..n : n \in ids}
  <1>1. \A n \in Nat : IsFiniteSet(1..n) /\ 1..n \subseteq Nat
    BY FS_Interval
  <1>2. upTo \subseteq FiniteSubsetsOf(Nat) /\ upTo # {}
    BY <1>1 DEF FiniteSubsetsOf
  <1> HIDE DEF upTo
  <1>3. PICK least \in upTo : \A other \in upTo : <<other, least>> \notin StrictSubsetOrdering(Nat)
    BY <1>2, FS_StrictSubsetOrderingWellFounded, WFMin
  <1>4. PICK x \in ids : least = 1..x
    BY DEF upTo
  <1>5. ASSUME NEW y \in ids, y < x PROVE FALSE
    <2>1. 1..y \in upTo /\ 1..y \subseteq Nat /\ 1..x \subseteq Nat
      BY <1>1 DEF upTo
    <2>2. 1..y \subseteq 1..x /\ x \in 1..x /\ x \notin 1..y
      BY <1>5
    <2>3. <<1..y, 1..x>> \in StrictSubsetOrdering(Nat)
      BY <2>1, <2>2 DEF StrictSubsetOrdering
    <2> QED BY <1>3, <1>4, <2>1, <2>3
  <1>6. \A y \in ids : x <= y
    BY <1>5
  <1> QED BY <1>6 DEF Min

-----------------------------------------------------------------------------
(* The databases of facts: every symbol is of the file that its id is      *)
(* known by.                                                               *)

Shaped(s) == s = [known |-> s.known, symbols |-> s.symbols, entries |-> s.entries]

\* What a facts database says of its files.
Kept(s) ==
    /\ Shaped(s)
    /\ \A f \in DOMAIN s.symbols : f \in DOMAIN s.known /\ s.symbols[f] = s.known[f]

StoresKept == store = [d \in Stores |-> store[d]]
              /\ \A d \in Stores : store[d] # None => Kept(store[d])

\* A writer knows the project as it is.
WriterKept ==
    writer # None =>
        /\ writer.store \in Stores /\ writer.rows = ProjectProvenance
        /\ writer.places \subseteq Checkouts \X Names

FactsInv == StoresKept /\ WriterKept

LEMMA FoundFile ==
    ASSUME NEW place \in Checkouts \X Names, GetId(place) # None
    PROVE  GetId(place) \in Rows(file) /\ Place(GetId(place)) = place
  <1> DEFINE owners == {c \in Rows(component) : Root(c) = place[1]}
             c == Owner(Rows(component), place[1])
             found == {f \in Rows(file) : file[f] = [component |-> c, name |-> place[2]]}
  <1>1. c # None /\ FileOf(c, place[2]) # None /\ GetId(place) = FileOf(c, place[2])
    BY DEF GetId
  <1>2. owners # {} /\ c = Min(owners)
    BY <1>1 DEF Owner
  <1>3. owners \subseteq Nat
    BY DEF Rows, Ids
  <1> HIDE DEF c
  <1>4. c \in owners
    BY <1>2, <1>3, LeastExists
  <1>5. found # {} /\ FileOf(c, place[2]) = CHOOSE f \in found : TRUE
    BY <1>1 DEF FileOf
  <1>6. GetId(place) \in found
    BY <1>1, <1>5
  <1>7. place = <<place[1], place[2]>>
    OBVIOUS
  <1> QED BY <1>4, <1>6, <1>7 DEF Place

\* A changed field of a database.
LEMMA Changed ==
    ASSUME NEW s, Shaped(s), NEW x, NEW y
    PROVE  /\ [s EXCEPT !.known = x, !.symbols = y] = [known |-> x, symbols |-> y, entries |-> s.entries]
           /\ [s EXCEPT !.known = x, !.entries = y] = [known |-> x, symbols |-> s.symbols, entries |-> y]
           /\ [s EXCEPT !.symbols = y] = [known |-> s.known, symbols |-> y, entries |-> s.entries]
           /\ [s EXCEPT !.entries = y] = [known |-> s.known, symbols |-> s.symbols, entries |-> y]
  <1>1. s \in [known : {s.known}, symbols : {s.symbols}, entries : {s.entries}]
    BY DEF Shaped
  <1>2. [s EXCEPT !.known = x, !.symbols = y] = [known |-> x, symbols |-> y, entries |-> s.entries]
    <2>1. ASSUME NEW t, t = [s EXCEPT !.known = x, !.symbols = y]
          PROVE  t \in [known : {x}, symbols : {y}, entries : {s.entries}]
      BY <1>1, <2>1
    <2>2. ASSUME NEW t, t \in [known : {x}, symbols : {y}, entries : {s.entries}]
          PROVE  t = [known |-> x, symbols |-> y, entries |-> s.entries]
      BY <2>2
    <2> QED BY <2>1, <2>2
  <1>3. [s EXCEPT !.known = x, !.entries = y] = [known |-> x, symbols |-> s.symbols, entries |-> y]
    <2>1. ASSUME NEW t, t = [s EXCEPT !.known = x, !.entries = y]
          PROVE  t \in [known : {x}, symbols : {s.symbols}, entries : {y}]
      BY <1>1, <2>1
    <2>2. ASSUME NEW t, t \in [known : {x}, symbols : {s.symbols}, entries : {y}]
          PROVE  t = [known |-> x, symbols |-> s.symbols, entries |-> y]
      BY <2>2
    <2> QED BY <2>1, <2>2
  <1>4. [s EXCEPT !.symbols = y] = [known |-> s.known, symbols |-> y, entries |-> s.entries]
    BY <1>1
  <1>5. [s EXCEPT !.entries = y] = [known |-> s.known, symbols |-> s.symbols, entries |-> y]
    BY <1>1
  <1> QED BY <1>2, <1>3, <1>4, <1>5

LEMMA RefreshedShape ==
    ASSUME NEW w, NEW ids, NEW s, Shaped(s)
    PROVE  LET moved == {f \in Movable(w, ids) \cap DOMAIN s.known : s.known[f] # w.rows[f].path}
               t == Refreshed(w, s, ids) IN
           /\ Shaped(t)
           /\ t.known = [f \in DOMAIN s.known |-> IF f \in moved THEN w.rows[f].path ELSE s.known[f]]
           /\ t.symbols = [f \in DOMAIN s.symbols \ moved |-> s.symbols[f]]
           /\ t.entries = s.entries
  <1> DEFINE moved == {f \in Movable(w, ids) \cap DOMAIN s.known : s.known[f] # w.rows[f].path}
             k == [f \in DOMAIN s.known |-> IF f \in moved THEN w.rows[f].path ELSE s.known[f]]
             y == [f \in DOMAIN s.symbols \ moved |-> s.symbols[f]]
  <1>1. Refreshed(w, s, ids) = [s EXCEPT !.known = k, !.symbols = y]
    BY DEF Refreshed
  <1> HIDE DEF k, y
  <1>2. Refreshed(w, s, ids) = [known |-> k, symbols |-> y, entries |-> s.entries]
    BY <1>1, Changed
  <1> QED BY <1>2 DEF Shaped, k, y

\* What a committed write leaves in its database.
LEMMA WriteStep ==
    ASSUME FactsInv, NEW declaring \in SUBSET (Checkouts \X Names), NEW whole \in SUBSET declaring,
           Write(declaring, whole)
    PROVE  LET t == store'[writer.store] IN
           /\ Kept(t)
           /\ WriteAccepts(t, ProjectProvenance)
           /\ \A d \in Stores : d # writer.store => store'[d] = store[d]
           /\ store' = [d \in Stores |-> store'[d]]
           /\ UNCHANGED catalog /\ writer' = None
  <1> DEFINE w == writer
             before == IF store[w.store] = None THEN Empty ELSE store[w.store]
             ids == {GetId(p) : p \in w.places}
             s == Refreshed(w, before, ids)
             kept == {f \in DOMAIN s.symbols : f \notin ids}
             symbols == [f \in kept \cup {GetId(p) : p \in declaring} |->
                            IF f \in kept THEN s.symbols[f]
                            ELSE CHOOSE p \in declaring : GetId(p) = f]
             after == [s EXCEPT !.symbols = symbols]
             t == [after EXCEPT !.known = Provenance(w, after, ids),
                                !.entries = {GetId(p) : p \in whole}]
             moved == {f \in Movable(w, ids) \cap DOMAIN before.known : before.known[f] # w.rows[f].path}
  <1>1. /\ w # None /\ declaring \subseteq w.places /\ whole \subseteq declaring
        /\ None \notin ids /\ Refreshable(w, before, ids) /\ Registrable(w, after, ids)
        /\ store' = [store EXCEPT ![w.store] = t]
        /\ writer' = None /\ UNCHANGED catalog
    BY DEF Write
  <1>2. w.store \in Stores /\ w.rows = ProjectProvenance /\ w.places \subseteq Checkouts \X Names
    BY <1>1 DEF FactsInv, WriterKept
  <1>3. Kept(before)
    <2>1. Kept(Empty)
      BY DEF Kept, Shaped, Empty
    <2> QED BY <1>2, <2>1 DEF FactsInv, StoresKept
  <1>4. /\ store'[w.store] = t
        /\ \A d \in Stores : d # w.store => store'[d] = store[d]
        /\ store' = [d \in Stores |-> store'[d]]
    <2>1. store = [d \in Stores |-> store[d]]
      BY DEF FactsInv, StoresKept
    <2> HIDE DEF t
    <2> QED BY <1>1, <1>2, <2>1
  <1>5. /\ Shaped(s) /\ DOMAIN s.known = DOMAIN before.known
        /\ s.known = [f \in DOMAIN before.known |->
                        IF f \in moved THEN w.rows[f].path ELSE before.known[f]]
        /\ s.symbols = [f \in DOMAIN before.symbols \ moved |-> before.symbols[f]]
    <2>1. Shaped(before)
      BY <1>3 DEF Kept
    <2> HIDE DEF before, ids, w
    <2> QED BY <2>1, RefreshedShape
  <1>6. \A p \in w.places : GetId(p) \in Rows(file) /\ Place(GetId(p)) = p
    BY <1>1, <1>2, FoundFile
  <1>7. \A f \in ids : f \in Rows(file) /\ f \in DOMAIN w.rows /\ w.rows[f].path = Place(f)
    BY <1>2, <1>6 DEF ProjectProvenance
  <1> HIDE DEF s, symbols, kept, ids, moved, before, w
  <1>8. /\ Shaped(after) /\ after.known = s.known /\ after.symbols = symbols
        /\ Shaped(t) /\ t.known = Provenance(w, after, ids) /\ t.symbols = symbols
        /\ t.entries = {GetId(p) : p \in whole}
    <2>1. after = [known |-> s.known, symbols |-> symbols, entries |-> s.entries]
      BY <1>5, Changed
    <2> HIDE DEF after
    <2>2. Shaped(after) /\ after.known = s.known /\ after.symbols = symbols
      BY <2>1 DEF Shaped
    <2> DEFINE k == Provenance(w, after, ids)
               e == {GetId(p) : p \in whole}
    <2>3. t = [after EXCEPT !.known = k, !.entries = e]
      OBVIOUS
    <2> HIDE DEF t, k, e
    <2>4. t = [known |-> k, symbols |-> after.symbols, entries |-> e]
      BY <2>2, <2>3, Changed
    <2> QED BY <2>2, <2>4 DEF Shaped, k, e
  <1> HIDE DEF after, t
  <1>9. DOMAIN symbols = kept \cup {GetId(p) : p \in declaring}
        /\ {GetId(p) : p \in declaring} \subseteq ids
    BY <1>1 DEF symbols, ids
  <1>10. /\ DOMAIN t.known = DOMAIN s.known \cup ids \cup DOMAIN symbols
         /\ \A f \in DOMAIN t.known :
              t.known[f] = IF f \in DOMAIN s.known THEN s.known[f] ELSE w.rows[f].path
    BY <1>8 DEF Provenance
  \* The files that were written are known by the path that they have.
  <1>11. ASSUME NEW f \in ids PROVE t.known[f] = Place(f)
    <2>1. f \in DOMAIN t.known /\ w.rows[f].path = Place(f)
      BY <1>7, <1>10
    <2>2. CASE f \notin DOMAIN s.known
      BY <1>10, <2>1, <2>2
    <2>3. CASE f \in DOMAIN s.known /\ f \in moved
      BY <1>5, <1>10, <2>1, <2>3
    <2>4. CASE f \in DOMAIN s.known /\ f \notin moved
      <3>1. s.known[f] = before.known[f] /\ f \in DOMAIN before.known
        BY <1>5, <2>4
      <3>2. CASE w.rows[f].aliases # {}
        BY <1>10, <2>1, <2>4, <3>1, <3>2 DEF moved, Movable
      <3>3. CASE w.rows[f].aliases = {}
        <4>1. Same(w.rows[f], s.known[f])
          BY <1>1, <1>8, <2>4 DEF Registrable
        <4> QED BY <1>10, <2>1, <2>4, <3>3, <4>1 DEF Same
      <3> QED BY <3>2, <3>3
    <2> QED BY <2>2, <2>3, <2>4
  <1>12. ASSUME NEW f \in DOMAIN symbols PROVE f \in DOMAIN t.known /\ symbols[f] = t.known[f]
    <2>1. CASE f \in kept
      <3>1. f \in DOMAIN before.symbols /\ f \notin moved /\ s.symbols[f] = before.symbols[f] /\ f \notin ids
        BY <1>5, <2>1 DEF kept
      <3>2. f \in DOMAIN before.known /\ before.symbols[f] = before.known[f]
        BY <1>3, <3>1 DEF Kept
      <3>3. t.known[f] = before.known[f] /\ f \in DOMAIN t.known
        BY <1>5, <1>10, <3>1, <3>2
      <3> QED BY <2>1, <3>1, <3>2, <3>3, <1>9 DEF symbols
    <2>2. CASE f \notin kept
      <3>1. PICK p \in declaring : GetId(p) = f
        BY <1>9, <2>2
      <3>2. symbols[f] = CHOOSE q \in declaring : GetId(q) = f
        BY <1>9, <2>2 DEF symbols
      <3>3. symbols[f] \in declaring /\ GetId(symbols[f]) = f
        BY <3>1, <3>2
      <3>4. f \in ids /\ Place(f) = symbols[f]
        BY <1>1, <1>6, <1>9, <3>1, <3>3
      <3> QED BY <1>10, <1>11, <3>4
    <2> QED BY <2>1, <2>2
  <1>13. Kept(t)
    BY <1>8, <1>12 DEF Kept
  <1>14. ASSUME NEW f \in UsedFiles(t)
         PROVE  f \in DOMAIN t.known /\ f \in DOMAIN w.rows /\ Same(w.rows[f], t.known[f])
    <2>1. f \in ids \cup DOMAIN symbols
      BY <1>1, <1>8 DEF UsedFiles, ids
    <2>2. f \in DOMAIN w.rows /\ (f \in DOMAIN s.known => Same(w.rows[f], s.known[f]))
      BY <1>1, <1>8, <2>1 DEF Registrable
    <2>3. f \in DOMAIN t.known
      BY <1>10, <2>1
    <2> QED BY <1>10, <2>2, <2>3 DEF Same
  <1>15. WriteAccepts(t, ProjectProvenance)
    BY <1>2, <1>14 DEF WriteAccepts, ReadAccepts
  <1> QED BY <1>1, <1>4, <1>13, <1>15 DEF w

LEMMA ProjectStays ==
    ASSUME UNCHANGED catalog
    PROVE  ProjectProvenance' = ProjectProvenance
  <1>1. repository' = repository /\ component' = component /\ file' = file
    BY DEF catalog
  <1> QED BY <1>1 DEF ProjectProvenance, Rows, Place, Root, Aliases

LEMMA MutationStep ==
    ASSUME ~MayOverlap, Mutation
    PROVE  store' = store /\ writer' = writer /\ writer = None
  <1>1. Mutate
    BY DEF Mutation, Refuse, AddRepository, AddClone, SwitchClone, RemoveClone, RemoveRepository,
       AddComponent, RemoveComponent, RemoveDirectory, AddFile, RemoveFile, Import
  <1> QED BY <1>1 DEF Mutate

\* What ends a run without a commit.
LEMMA WriteFailsStep ==
    ASSUME FactsInv, WriteFails
    PROVE  /\ StoresKept'
           /\ \A d \in Stores : store'[d] # store[d] => store'[d] = Empty
           /\ UNCHANGED catalog /\ writer' = None
  <1>1. writer.store \in Stores /\ store = [d \in Stores |-> store[d]]
        /\ \A d \in Stores : store[d] # None => Kept(store[d])
    BY DEF FactsInv, WriterKept, StoresKept, WriteFails
  <1>2. store' = [store EXCEPT ![writer.store] = IF @ = None THEN Empty ELSE @]
        /\ UNCHANGED catalog /\ writer' = None
    BY DEF WriteFails
  <1>3. Kept(Empty)
    BY DEF Kept, Shaped, Empty
  <1>4. store' = [d \in Stores |-> store'[d]]
        /\ \A d \in Stores : store'[d] = store[d] \/ store'[d] = Empty
    BY <1>1, <1>2
  <1>5. \A d \in Stores : store'[d] # None => Kept(store'[d])
    BY <1>1, <1>3, <1>4
  <1> QED BY <1>2, <1>4, <1>5 DEF StoresKept, Kept, Shaped

LEMMA FactsInvInit == FactsInit => FactsInv
  BY DEF FactsInit, FactsInv, StoresKept, WriterKept

LEMMA FactsInvNext == ~MayOverlap /\ FactsInv /\ [FactsNext]_factsVars => FactsInv'
  <1> SUFFICES ASSUME ~MayOverlap, FactsInv, [FactsNext]_factsVars PROVE FactsInv'
    OBVIOUS
  <1>1. store = [d \in Stores |-> store[d]] /\ \A d \in Stores : store[d] # None => Kept(store[d])
    BY DEF FactsInv, StoresKept
  <1>2. ASSUME NEW e \in Stores \cup {None}, Invalidate(e) PROVE FactsInv'
    <2>1. /\ store' = [k \in Stores |-> IF k = e /\ store[k] # None
                                        THEN [store[k] EXCEPT !.entries = {}] ELSE store[k]]
          /\ UNCHANGED catalog /\ writer' = writer
      BY <1>2 DEF Invalidate
    <2>2. ASSUME NEW k \in Stores, store'[k] # None PROVE Kept(store'[k])
      <3>1. CASE store'[k] = store[k]
        BY <1>1, <2>2, <3>1
      <3>2. CASE store'[k] = [store[k] EXCEPT !.entries = {}] /\ store[k] # None
        <4>1. Kept(store[k])
          BY <1>1, <3>2
        <4>2. store'[k] = [known |-> store[k].known, symbols |-> store[k].symbols, entries |-> {}]
          BY <3>2, <4>1, Changed, ZenonT(60) DEF Kept
        <4> QED BY <4>1, <4>2 DEF Kept, Shaped
      <3> QED BY <2>1, <3>1, <3>2
    <2>3. store' = [d \in Stores |-> store'[d]]
      BY <2>1
    <2> QED BY <2>1, <2>2, <2>3, ProjectStays DEF FactsInv, StoresKept, WriterKept, Kept, Shaped
  <1>3. CASE Mutation
    BY <1>3, MutationStep DEF FactsInv, StoresKept, WriterKept, Kept, Shaped
  <1>4. ASSUME NEW d \in Stores, NEW k \in Checkouts, NEW names \in SUBSET Names,
               PrepareWrite(d, {k} \X names)
        PROVE  FactsInv'
    <2>1. writer' = [store |-> d, places |-> {k} \X names, rows |-> ProjectProvenance]
          /\ UNCHANGED catalog /\ store' = store
      BY <1>4 DEF PrepareWrite
    <2>2. {k} \X names \subseteq Checkouts \X Names
      OBVIOUS
    <2> QED BY <2>1, <2>2, ProjectStays DEF FactsInv, StoresKept, WriterKept, Kept, Shaped
  <1>5. ASSUME NEW declaring \in SUBSET (Checkouts \X Names), NEW whole \in SUBSET declaring,
               Write(declaring, whole)
        PROVE  FactsInv'
    <2>1. \A d \in Stores : store'[d] # None => Kept(store'[d])
      BY <1>1, <1>5, WriteStep
    <2>2. store' = [d \in Stores |-> store'[d]] /\ writer' = None
      BY <1>5, WriteStep
    <2> QED BY <2>1, <2>2 DEF FactsInv, StoresKept, WriterKept, Kept, Shaped
  <1>6. CASE WriteFails
    BY <1>6, WriteFailsStep DEF FactsInv, WriterKept
  <1>7. CASE UNCHANGED factsVars
    BY <1>7, ProjectStays DEF factsVars, FactsInv, StoresKept, WriterKept, Kept, Shaped
  <1> QED BY <1>2, <1>3, <1>4, <1>5, <1>6, <1>7 DEF FactsNext

LEMMA FactsInvPaired == FactsInv => PairedIdentity
  <1> SUFFICES ASSUME FactsInv, NEW d \in Stores, store[d] # None,
                      ReadAccepts(store[d], ProjectProvenance), NEW f \in DOMAIN store[d].symbols
               PROVE  f \in Rows(file) /\ Same(ProjectProvenance[f], store[d].symbols[f])
    BY DEF PairedIdentity
  <1>1. f \in DOMAIN store[d].known /\ store[d].symbols[f] = store[d].known[f]
    BY DEF FactsInv, StoresKept, Kept
  <1>2. f \in DOMAIN ProjectProvenance /\ Same(ProjectProvenance[f], store[d].known[f])
    BY <1>1 DEF ReadAccepts, UsedFiles
  <1> QED BY <1>1, <1>2 DEF ProjectProvenance

\* A step that ends a run leaves a pair that the project accepts.
LEMMA CommitAgrees ==
    ASSUME ~MayOverlap, FactsInv, [FactsNext]_factsVars, NEW d \in Stores,
           writer # None, writer' = None, store'[d] # store[d]
    PROVE  WriteAccepts(store'[d], ProjectProvenance)
  <1>1. ASSUME NEW declaring \in SUBSET (Checkouts \X Names), NEW whole \in SUBSET declaring,
               Write(declaring, whole)
        PROVE  WriteAccepts(store'[d], ProjectProvenance)
    BY <1>1, WriteStep
  <1>2. CASE WriteFails
    BY <1>2, WriteFailsStep DEF WriteAccepts, ReadAccepts, UsedFiles, Empty
  <1>3. \A e \in Stores \cup {None} : ~Invalidate(e)
    BY DEF Invalidate
  <1>4. ~Mutation
    BY MutationStep
  <1>5. \A e \in Stores, k \in Checkouts, names \in SUBSET Names : ~PrepareWrite(e, {k} \X names)
    BY DEF PrepareWrite
  <1>6. ~UNCHANGED factsVars
    BY DEF factsVars
  <1> QED BY <1>1, <1>2, <1>3, <1>4, <1>5, <1>6 DEF FactsNext

(* Whatever commands on the catalog, runs, refusals and failures came       *)
(* before, the symbols of a pair that readers accept are of the files that  *)
(* their ids stand for now, although ids are used again and checkouts are   *)
(* switched, when no command changes the project while a run writes         *)
(* (FactPairValidation.cpp).                                                *)
THEOREM PairsNameTheirFiles == ASSUME ~MayOverlap PROVE FactsSpec => []PairedIdentity
  <1>1. FactsInit => FactsInv
    BY FactsInvInit
  <1>2. FactsInv /\ [FactsNext]_factsVars => FactsInv'
    BY FactsInvNext
  <1>3. FactsInv => PairedIdentity
    BY FactsInvPaired
  <1> QED BY <1>1, <1>2, <1>3, PTL DEF FactsSpec

(* Under the same condition a run never commits facts with which the        *)
(* project would refuse the pair afterwards (FactPairValidation.cpp).       *)
THEOREM PairsStayAccepted == ASSUME ~MayOverlap PROVE FactsSpec => CommittedPairAgrees
  <1>1. FactsInit => FactsInv
    BY FactsInvInit
  <1>2. FactsInv /\ [FactsNext]_factsVars => FactsInv'
    BY FactsInvNext
  <1>3. FactsInv /\ [FactsNext]_factsVars =>
          [\A d \in Stores :
             (writer # None /\ writer' = None /\ store'[d] # store[d]) =>
                WriteAccepts(store'[d], ProjectProvenance)]_factsVars
    BY CommitAgrees
  <1> QED BY <1>1, <1>2, <1>3, PTL DEF FactsSpec, CommittedPairAgrees

-----------------------------------------------------------------------------
(* Migration of a facts database *)

FactsRecords ==
    [version : Nat, shape : SUBSET (Fresh \cup {"flags", "identity"}), symbols : SUBSET Symbols, children : SUBSET Symbols,
     entries : SUBSET Symbols]

\* The version that a store has reached, at least, before each step.
Low(at) == IF at <= 10 THEN at - 1 ELSE at - 2

\* A store before a step has the parts of its version; the volatile column
\* came without a version.
Fits(base, at) ==
    /\ base.version \in 0..Current
    /\ IF "symbol" \in base.shape THEN base.version >= Low(at)
       ELSE IF at <= 13 THEN base.version = 0 ELSE base.version >= Low(at)
    /\ "flags" \in base.shape <=> "symbol" \in base.shape /\ base.version = 0
    /\ "identity" \in base.shape <=> "symbol" \in base.shape /\ base.version < 6
    /\ "columns" \in base.shape <=> "symbol" \in base.shape /\ base.version > 0
    /\ "initializer" \in base.shape <=> "symbol" \in base.shape /\ base.version >= 2
    /\ "default" \in base.shape <=> "symbol" \in base.shape /\ base.version >= 3
    /\ "enumeration" \in base.shape <=> "symbol" \in base.shape /\ base.version >= 4
    /\ "packed" \in base.shape <=> "symbol" \in base.shape /\ base.version >= 5
    /\ "site" \in base.shape <=> "symbol" \in base.shape /\ base.version >= 7
    /\ "context" \in base.shape <=> "symbol" \in base.shape /\ base.version >= 8
    /\ "returns" \in base.shape <=> "symbol" \in base.shape /\ base.version >= 9
    /\ "volatile" \in base.shape <=> "symbol" \in base.shape /\ (at > 10 \/ base.version >= 10)
    /\ "entry" \in base.shape <=> "symbol" \in base.shape /\ base.version >= 11
    /\ "run" \in base.shape <=> base.version >= 12
    /\ "evidence" \in base.shape <=> base.version >= 13
    /\ "pointer" \in base.shape <=> base.version >= 14

After(s, base) == IF Applies(s, base) THEN Upgraded(s, base) ELSE base

LEMMA UpgradedFields ==
    ASSUME NEW s, NEW base \in FactsRecords, s.adds \in SUBSET Fresh, s.to \in Nat
    PROVE  LET new == Upgraded(s, base) IN
           /\ new \in FactsRecords
           /\ new.shape = (base.shape \cup s.adds)
                \ ((IF "columns" \in s.adds THEN {"flags"} ELSE {})
                   \cup (IF "packed" \in s.adds \/ s.to = 6 THEN {"identity"} ELSE {}))
           /\ new.version = (IF s.to > base.version THEN s.to ELSE base.version)
           /\ new.symbols = base.symbols /\ new.children = base.children
           /\ new.entries = (IF "pointer" \in s.adds THEN {} ELSE base.entries)
  <1> DEFINE gone == (IF "columns" \in s.adds THEN {"flags"} ELSE {})
                     \cup (IF "packed" \in s.adds \/ s.to = 6 THEN {"identity"} ELSE {})
             shape == (base.shape \cup s.adds) \ gone
             version == IF s.to > base.version THEN s.to ELSE base.version
             entries == IF "pointer" \in s.adds THEN {} ELSE base.entries
  <1>1. Upgraded(s, base) = [base EXCEPT !.shape = shape, !.version = version, !.entries = entries]
    BY DEF Upgraded
  <1>2. shape \in SUBSET (Fresh \cup {"flags", "identity"}) /\ version \in Nat /\ entries \in SUBSET Symbols
    BY DEF FactsRecords
  <1> HIDE DEF shape, version, entries
  <1>3. ASSUME NEW new, new = [base EXCEPT !.shape = shape, !.version = version, !.entries = entries]
        PROVE  /\ new \in FactsRecords /\ new.shape = shape /\ new.version = version
               /\ new.entries = entries /\ new.symbols = base.symbols /\ new.children = base.children
    BY <1>2, <1>3 DEF FactsRecords
  <1> QED BY <1>1, <1>3 DEF shape, version, entries

LEMMA FactStepsAre ==
    /\ Len(FactSteps) = 15 /\ DOMAIN FactSteps = 1..15
    /\ FactSteps[1] = Step(Always, {"symbol", "flags"}, {}, {"columns", "initializer"}, 2)
    /\ FactSteps[2] = Step(2, {"symbol"}, {}, {"initializer"}, 2)
    /\ FactSteps[3] = Step(3, {"symbol"}, {}, {"default"}, 3)
    /\ FactSteps[4] = Step(4, {"symbol"}, {}, {"enumeration"}, 4)
    /\ FactSteps[5] = Step(5, {"symbol"}, {}, {"packed"}, 6)
    /\ FactSteps[6] = Step(6, {"symbol"}, {}, {}, 6)
    /\ FactSteps[7] = Step(7, {"symbol"}, {}, {"site"}, 7)
    /\ FactSteps[8] = Step(8, {"symbol"}, {}, {"context"}, 8)
    /\ FactSteps[9] = Step(9, {"symbol"}, {}, {"returns"}, 9)
    /\ FactSteps[10] = Step(Always, {"symbol"}, {"volatile"}, {"volatile"}, 0)
    /\ FactSteps[11] = Step(10, {"symbol"}, {}, {}, 10)
    /\ FactSteps[12] = Step(11, {"symbol"}, {}, {"entry"}, 11)
    /\ FactSteps[13] = Step(12, {}, {}, {"run"}, 12)
    /\ FactSteps[14] = Step(13, {}, {}, {"evidence"}, 13)
    /\ FactSteps[15] = Step(14, {}, {}, {"pointer"}, 14)
  BY DEF FactSteps, EntriesStep, RunsStep, EvidenceStep, PointersStep

\* What a step leaves, part by part.
LEMMA AfterIs ==
    ASSUME NEW s, NEW base \in FactsRecords, s.adds \in SUBSET Fresh, s.to \in Nat
    PROVE  /\ After(s, base) \in FactsRecords
           /\ ~Applies(s, base) => After(s, base) = base
           /\ After(s, base).version = (IF Applies(s, base) /\ s.to > base.version THEN s.to ELSE base.version)
           /\ Applies(s, base) =>
                \A p : p \in After(s, base).shape <=>
                          /\ p \in base.shape \/ p \in s.adds
                          /\ ~(p = "flags" /\ "columns" \in s.adds)
                          /\ ~(p = "identity" /\ ("packed" \in s.adds \/ s.to = 6))
           /\ After(s, base).symbols = base.symbols /\ After(s, base).children = base.children
           /\ After(s, base).entries = (IF Applies(s, base) /\ "pointer" \in s.adds THEN {} ELSE base.entries)
  BY UpgradedFields DEF After

LEMMA Step1 ==
    ASSUME NEW base \in FactsRecords, Fits(base, 1),
           NEW s, s = FactSteps[1], NEW new, new = After(s, base)
    PROVE  Fits(new, 2)
  <1>1. s.below = Always /\ s.has = {"symbol", "flags"} /\ s.lacks = {}
        /\ s.adds = {"columns", "initializer"} /\ s.to = 2
    BY FactStepsAre DEF Step
  <1>2. s.adds \in SUBSET Fresh /\ s.to \in Nat /\ base.version \in Nat
    BY <1>1 DEF FactsRecords, Fresh, Tables, SymbolTables, GraphTables, RunTables, Columns
  <1>3. CASE Applies(s, base)
    <2>1. base.version = 0 /\ "symbol" \in base.shape /\ "flags" \in base.shape
      BY <1>1, <1>2, <1>3 DEF Applies, Fits, Low
    <2>2. new.version = 2
      BY <1>1, <1>2, <1>3, <2>1, AfterIs
    <2>3. \A p : p \in new.shape <=> (p \in base.shape \/ p = "columns" \/ p = "initializer") /\ p # "flags"
      BY <1>1, <1>2, <1>3, AfterIs
    <2> QED BY <2>1, <2>2, <2>3 DEF Fits, Low, Current
  <1>4. CASE ~Applies(s, base)
    <2>1. ~("symbol" \in base.shape /\ "flags" \in base.shape)
      BY <1>1, <1>2, <1>4 DEF Applies, Fits, Always, Current
    <2>2. new = base
      BY <1>2, <1>4, AfterIs
    <2> QED BY <1>2, <2>1, <2>2 DEF Fits, Low
  <1> QED BY <1>3, <1>4

LEMMA Step2 ==
    ASSUME NEW base \in FactsRecords, Fits(base, 2),
           NEW s, s = FactSteps[2], NEW new, new = After(s, base)
    PROVE  Fits(new, 3)
  <1>1. s.below = 2 /\ s.has = {"symbol"} /\ s.lacks = {}
        /\ s.adds = {"initializer"} /\ s.to = 2
    BY FactStepsAre DEF Step
  <1>2. s.adds \in SUBSET Fresh /\ s.to \in Nat /\ base.version \in Nat
    BY <1>1 DEF FactsRecords, Fresh, Tables, SymbolTables, GraphTables, RunTables, Columns
  <1>3. CASE Applies(s, base)
    <2>1. base.version = 1 /\ "symbol" \in base.shape
      BY <1>1, <1>2, <1>3 DEF Applies, Fits, Low
    <2>2. new.version = 2
      BY <1>1, <1>2, <1>3, <2>1, AfterIs
    <2>3. \A p : p \in new.shape <=> p \in base.shape \/ p = "initializer"
      BY <1>1, <1>2, <1>3, AfterIs
    <2> QED BY <2>1, <2>2, <2>3 DEF Fits, Low, Current
  <1>4. CASE ~Applies(s, base)
    <2>1. ~("symbol" \in base.shape /\ base.version < 2)
      BY <1>1, <1>2, <1>4 DEF Applies, Fits
    <2>2. new = base
      BY <1>2, <1>4, AfterIs
    <2> QED BY <1>2, <2>1, <2>2 DEF Fits, Low
  <1> QED BY <1>3, <1>4

LEMMA Step3 ==
    ASSUME NEW base \in FactsRecords, Fits(base, 3),
           NEW s, s = FactSteps[3], NEW new, new = After(s, base)
    PROVE  Fits(new, 4)
  <1>1. s.below = 3 /\ s.has = {"symbol"} /\ s.lacks = {}
        /\ s.adds = {"default"} /\ s.to = 3
    BY FactStepsAre DEF Step
  <1>2. s.adds \in SUBSET Fresh /\ s.to \in Nat /\ base.version \in Nat
    BY <1>1 DEF FactsRecords, Fresh, Tables, SymbolTables, GraphTables, RunTables, Columns
  <1>3. CASE Applies(s, base)
    <2>1. base.version = 2 /\ "symbol" \in base.shape
      BY <1>1, <1>2, <1>3 DEF Applies, Fits, Low
    <2>2. new.version = 3
      BY <1>1, <1>2, <1>3, <2>1, AfterIs
    <2>3. \A p : p \in new.shape <=> p \in base.shape \/ p = "default"
      BY <1>1, <1>2, <1>3, AfterIs
    <2> QED BY <2>1, <2>2, <2>3 DEF Fits, Low, Current
  <1>4. CASE ~Applies(s, base)
    <2>1. ~("symbol" \in base.shape /\ base.version < 3)
      BY <1>1, <1>2, <1>4 DEF Applies, Fits
    <2>2. new = base
      BY <1>2, <1>4, AfterIs
    <2> QED BY <1>2, <2>1, <2>2 DEF Fits, Low
  <1> QED BY <1>3, <1>4

LEMMA Step4 ==
    ASSUME NEW base \in FactsRecords, Fits(base, 4),
           NEW s, s = FactSteps[4], NEW new, new = After(s, base)
    PROVE  Fits(new, 5)
  <1>1. s.below = 4 /\ s.has = {"symbol"} /\ s.lacks = {}
        /\ s.adds = {"enumeration"} /\ s.to = 4
    BY FactStepsAre DEF Step
  <1>2. s.adds \in SUBSET Fresh /\ s.to \in Nat /\ base.version \in Nat
    BY <1>1 DEF FactsRecords, Fresh, Tables, SymbolTables, GraphTables, RunTables, Columns
  <1>3. CASE Applies(s, base)
    <2>1. base.version = 3 /\ "symbol" \in base.shape
      BY <1>1, <1>2, <1>3 DEF Applies, Fits, Low
    <2>2. new.version = 4
      BY <1>1, <1>2, <1>3, <2>1, AfterIs
    <2>3. \A p : p \in new.shape <=> p \in base.shape \/ p = "enumeration"
      BY <1>1, <1>2, <1>3, AfterIs
    <2> QED BY <2>1, <2>2, <2>3 DEF Fits, Low, Current
  <1>4. CASE ~Applies(s, base)
    <2>1. ~("symbol" \in base.shape /\ base.version < 4)
      BY <1>1, <1>2, <1>4 DEF Applies, Fits
    <2>2. new = base
      BY <1>2, <1>4, AfterIs
    <2> QED BY <1>2, <2>1, <2>2 DEF Fits, Low
  <1> QED BY <1>3, <1>4

LEMMA Step5 ==
    ASSUME NEW base \in FactsRecords, Fits(base, 5),
           NEW s, s = FactSteps[5], NEW new, new = After(s, base)
    PROVE  Fits(new, 6)
  <1>1. s.below = 5 /\ s.has = {"symbol"} /\ s.lacks = {}
        /\ s.adds = {"packed"} /\ s.to = 6
    BY FactStepsAre DEF Step
  <1>2. s.adds \in SUBSET Fresh /\ s.to \in Nat /\ base.version \in Nat
    BY <1>1 DEF FactsRecords, Fresh, Tables, SymbolTables, GraphTables, RunTables, Columns
  <1>3. CASE Applies(s, base)
    <2>1. base.version = 4 /\ "symbol" \in base.shape
      BY <1>1, <1>2, <1>3 DEF Applies, Fits, Low
    <2>2. new.version = 6
      BY <1>1, <1>2, <1>3, <2>1, AfterIs
    <2>3. \A p : p \in new.shape <=> (p \in base.shape \/ p = "packed") /\ p # "identity"
      BY <1>1, <1>2, <1>3, AfterIs
    <2> QED BY <2>1, <2>2, <2>3 DEF Fits, Low, Current
  <1>4. CASE ~Applies(s, base)
    <2>1. ~("symbol" \in base.shape /\ base.version < 5)
      BY <1>1, <1>2, <1>4 DEF Applies, Fits
    <2>2. new = base
      BY <1>2, <1>4, AfterIs
    <2> QED BY <1>2, <2>1, <2>2 DEF Fits, Low
  <1> QED BY <1>3, <1>4

LEMMA Step6 ==
    ASSUME NEW base \in FactsRecords, Fits(base, 6),
           NEW s, s = FactSteps[6], NEW new, new = After(s, base)
    PROVE  Fits(new, 7)
  <1>1. s.below = 6 /\ s.has = {"symbol"} /\ s.lacks = {}
        /\ s.adds = {} /\ s.to = 6
    BY FactStepsAre DEF Step
  <1>2. s.adds \in SUBSET Fresh /\ s.to \in Nat /\ base.version \in Nat
    BY <1>1 DEF FactsRecords, Fresh, Tables, SymbolTables, GraphTables, RunTables, Columns
  <1>3. CASE Applies(s, base)
    <2>1. base.version = 5 /\ "symbol" \in base.shape
      BY <1>1, <1>2, <1>3 DEF Applies, Fits, Low
    <2>2. new.version = 6
      BY <1>1, <1>2, <1>3, <2>1, AfterIs
    <2>3. \A p : p \in new.shape <=> p \in base.shape /\ p # "identity"
      BY <1>1, <1>2, <1>3, AfterIs
    <2> QED BY <2>1, <2>2, <2>3 DEF Fits, Low, Current
  <1>4. CASE ~Applies(s, base)
    <2>1. ~("symbol" \in base.shape /\ base.version < 6)
      BY <1>1, <1>2, <1>4 DEF Applies, Fits
    <2>2. new = base
      BY <1>2, <1>4, AfterIs
    <2> QED BY <1>2, <2>1, <2>2 DEF Fits, Low
  <1> QED BY <1>3, <1>4

LEMMA Step7 ==
    ASSUME NEW base \in FactsRecords, Fits(base, 7),
           NEW s, s = FactSteps[7], NEW new, new = After(s, base)
    PROVE  Fits(new, 8)
  <1>1. s.below = 7 /\ s.has = {"symbol"} /\ s.lacks = {}
        /\ s.adds = {"site"} /\ s.to = 7
    BY FactStepsAre DEF Step
  <1>2. s.adds \in SUBSET Fresh /\ s.to \in Nat /\ base.version \in Nat
    BY <1>1 DEF FactsRecords, Fresh, Tables, SymbolTables, GraphTables, RunTables, Columns
  <1>3. CASE Applies(s, base)
    <2>1. base.version = 6 /\ "symbol" \in base.shape
      BY <1>1, <1>2, <1>3 DEF Applies, Fits, Low
    <2>2. new.version = 7
      BY <1>1, <1>2, <1>3, <2>1, AfterIs
    <2>3. \A p : p \in new.shape <=> p \in base.shape \/ p = "site"
      BY <1>1, <1>2, <1>3, AfterIs
    <2> QED BY <2>1, <2>2, <2>3 DEF Fits, Low, Current
  <1>4. CASE ~Applies(s, base)
    <2>1. ~("symbol" \in base.shape /\ base.version < 7)
      BY <1>1, <1>2, <1>4 DEF Applies, Fits
    <2>2. new = base
      BY <1>2, <1>4, AfterIs
    <2> QED BY <1>2, <2>1, <2>2 DEF Fits, Low
  <1> QED BY <1>3, <1>4

LEMMA Step8 ==
    ASSUME NEW base \in FactsRecords, Fits(base, 8),
           NEW s, s = FactSteps[8], NEW new, new = After(s, base)
    PROVE  Fits(new, 9)
  <1>1. s.below = 8 /\ s.has = {"symbol"} /\ s.lacks = {}
        /\ s.adds = {"context"} /\ s.to = 8
    BY FactStepsAre DEF Step
  <1>2. s.adds \in SUBSET Fresh /\ s.to \in Nat /\ base.version \in Nat
    BY <1>1 DEF FactsRecords, Fresh, Tables, SymbolTables, GraphTables, RunTables, Columns
  <1>3. CASE Applies(s, base)
    <2>1. base.version = 7 /\ "symbol" \in base.shape
      BY <1>1, <1>2, <1>3 DEF Applies, Fits, Low
    <2>2. new.version = 8
      BY <1>1, <1>2, <1>3, <2>1, AfterIs
    <2>3. \A p : p \in new.shape <=> p \in base.shape \/ p = "context"
      BY <1>1, <1>2, <1>3, AfterIs
    <2> QED BY <2>1, <2>2, <2>3 DEF Fits, Low, Current
  <1>4. CASE ~Applies(s, base)
    <2>1. ~("symbol" \in base.shape /\ base.version < 8)
      BY <1>1, <1>2, <1>4 DEF Applies, Fits
    <2>2. new = base
      BY <1>2, <1>4, AfterIs
    <2> QED BY <1>2, <2>1, <2>2 DEF Fits, Low
  <1> QED BY <1>3, <1>4

LEMMA Step9 ==
    ASSUME NEW base \in FactsRecords, Fits(base, 9),
           NEW s, s = FactSteps[9], NEW new, new = After(s, base)
    PROVE  Fits(new, 10)
  <1>1. s.below = 9 /\ s.has = {"symbol"} /\ s.lacks = {}
        /\ s.adds = {"returns"} /\ s.to = 9
    BY FactStepsAre DEF Step
  <1>2. s.adds \in SUBSET Fresh /\ s.to \in Nat /\ base.version \in Nat
    BY <1>1 DEF FactsRecords, Fresh, Tables, SymbolTables, GraphTables, RunTables, Columns
  <1>3. CASE Applies(s, base)
    <2>1. base.version = 8 /\ "symbol" \in base.shape
      BY <1>1, <1>2, <1>3 DEF Applies, Fits, Low
    <2>2. new.version = 9
      BY <1>1, <1>2, <1>3, <2>1, AfterIs
    <2>3. \A p : p \in new.shape <=> p \in base.shape \/ p = "returns"
      BY <1>1, <1>2, <1>3, AfterIs
    <2> QED BY <2>1, <2>2, <2>3 DEF Fits, Low, Current
  <1>4. CASE ~Applies(s, base)
    <2>1. ~("symbol" \in base.shape /\ base.version < 9)
      BY <1>1, <1>2, <1>4 DEF Applies, Fits
    <2>2. new = base
      BY <1>2, <1>4, AfterIs
    <2> QED BY <1>2, <2>1, <2>2 DEF Fits, Low
  <1> QED BY <1>3, <1>4

LEMMA Step10 ==
    ASSUME NEW base \in FactsRecords, Fits(base, 10),
           NEW s, s = FactSteps[10], NEW new, new = After(s, base)
    PROVE  Fits(new, 11)
  <1>1. s.below = Always /\ s.has = {"symbol"} /\ s.lacks = {"volatile"}
        /\ s.adds = {"volatile"} /\ s.to = 0
    BY FactStepsAre DEF Step
  <1>2. s.adds \in SUBSET Fresh /\ s.to \in Nat /\ base.version \in Nat
    BY <1>1 DEF FactsRecords, Fresh, Tables, SymbolTables, GraphTables, RunTables, Columns
  <1>3. CASE Applies(s, base)
    <2>1. "symbol" \in base.shape /\ "volatile" \notin base.shape
      BY <1>1, <1>2, <1>3 DEF Applies, Fits, Low
    <2>2. new.version = base.version
      BY <1>1, <1>2, <1>3, <2>1, AfterIs
    <2>3. \A p : p \in new.shape <=> p \in base.shape \/ p = "volatile"
      BY <1>1, <1>2, <1>3, AfterIs
    <2> QED BY <2>1, <2>2, <2>3 DEF Fits, Low, Current
  <1>4. CASE ~Applies(s, base)
    <2>1. ~("symbol" \in base.shape /\ "volatile" \notin base.shape)
      BY <1>1, <1>2, <1>4 DEF Applies, Fits, Always, Current
    <2>2. new = base
      BY <1>2, <1>4, AfterIs
    <2> QED BY <1>2, <2>1, <2>2 DEF Fits, Low
  <1> QED BY <1>3, <1>4

LEMMA Step11 ==
    ASSUME NEW base \in FactsRecords, Fits(base, 11),
           NEW s, s = FactSteps[11], NEW new, new = After(s, base)
    PROVE  Fits(new, 12)
  <1>1. s.below = 10 /\ s.has = {"symbol"} /\ s.lacks = {}
        /\ s.adds = {} /\ s.to = 10
    BY FactStepsAre DEF Step
  <1>2. s.adds \in SUBSET Fresh /\ s.to \in Nat /\ base.version \in Nat
    BY <1>1 DEF FactsRecords, Fresh, Tables, SymbolTables, GraphTables, RunTables, Columns
  <1>3. CASE Applies(s, base)
    <2>1. base.version = 9 /\ "symbol" \in base.shape
      BY <1>1, <1>2, <1>3 DEF Applies, Fits, Low
    <2>2. new.version = 10
      BY <1>1, <1>2, <1>3, <2>1, AfterIs
    <2>3. \A p : p \in new.shape <=> p \in base.shape
      BY <1>1, <1>2, <1>3, AfterIs
    <2> QED BY <2>1, <2>2, <2>3 DEF Fits, Low, Current
  <1>4. CASE ~Applies(s, base)
    <2>1. ~("symbol" \in base.shape /\ base.version < 10)
      BY <1>1, <1>2, <1>4 DEF Applies, Fits
    <2>2. new = base
      BY <1>2, <1>4, AfterIs
    <2> QED BY <1>2, <2>1, <2>2 DEF Fits, Low
  <1> QED BY <1>3, <1>4

LEMMA Step12 ==
    ASSUME NEW base \in FactsRecords, Fits(base, 12),
           NEW s, s = FactSteps[12], NEW new, new = After(s, base)
    PROVE  Fits(new, 13)
  <1>1. s.below = 11 /\ s.has = {"symbol"} /\ s.lacks = {}
        /\ s.adds = {"entry"} /\ s.to = 11
    BY FactStepsAre DEF Step
  <1>2. s.adds \in SUBSET Fresh /\ s.to \in Nat /\ base.version \in Nat
    BY <1>1 DEF FactsRecords, Fresh, Tables, SymbolTables, GraphTables, RunTables, Columns
  <1>3. CASE Applies(s, base)
    <2>1. base.version = 10 /\ "symbol" \in base.shape
      BY <1>1, <1>2, <1>3 DEF Applies, Fits, Low
    <2>2. new.version = 11
      BY <1>1, <1>2, <1>3, <2>1, AfterIs
    <2>3. \A p : p \in new.shape <=> p \in base.shape \/ p = "entry"
      BY <1>1, <1>2, <1>3, AfterIs
    <2> QED BY <2>1, <2>2, <2>3 DEF Fits, Low, Current
  <1>4. CASE ~Applies(s, base)
    <2>1. ~("symbol" \in base.shape /\ base.version < 11)
      BY <1>1, <1>2, <1>4 DEF Applies, Fits
    <2>2. new = base
      BY <1>2, <1>4, AfterIs
    <2> QED BY <1>2, <2>1, <2>2 DEF Fits, Low
  <1> QED BY <1>3, <1>4

LEMMA Step13 ==
    ASSUME NEW base \in FactsRecords, Fits(base, 13),
           NEW s, s = FactSteps[13], NEW new, new = After(s, base)
    PROVE  Fits(new, 14)
  <1>1. s.below = 12 /\ s.has = {} /\ s.lacks = {}
        /\ s.adds = {"run"} /\ s.to = 12
    BY FactStepsAre DEF Step
  <1>2. s.adds \in SUBSET Fresh /\ s.to \in Nat /\ base.version \in Nat
    BY <1>1 DEF FactsRecords, Fresh, Tables, SymbolTables, GraphTables, RunTables, Columns
  <1>3. CASE Applies(s, base)
    <2>1. IF "symbol" \in base.shape THEN base.version = 11 ELSE base.version = 0
      BY <1>1, <1>2, <1>3 DEF Applies, Fits, Low
    <2>2. new.version = 12
      BY <1>1, <1>2, <1>3, <2>1, AfterIs
    <2>3. \A p : p \in new.shape <=> p \in base.shape \/ p = "run"
      BY <1>1, <1>2, <1>3, AfterIs
    <2> QED BY <2>1, <2>2, <2>3 DEF Fits, Low, Current
  <1>4. CASE ~Applies(s, base)
    <2>1. ~(base.version < 12)
      BY <1>1, <1>2, <1>4 DEF Applies, Fits
    <2>2. new = base
      BY <1>2, <1>4, AfterIs
    <2> QED BY <1>2, <2>1, <2>2 DEF Fits, Low
  <1> QED BY <1>3, <1>4

LEMMA Step14 ==
    ASSUME NEW base \in FactsRecords, Fits(base, 14),
           NEW s, s = FactSteps[14], NEW new, new = After(s, base)
    PROVE  Fits(new, 15)
  <1>1. s.below = 13 /\ s.has = {} /\ s.lacks = {}
        /\ s.adds = {"evidence"} /\ s.to = 13
    BY FactStepsAre DEF Step
  <1>2. s.adds \in SUBSET Fresh /\ s.to \in Nat /\ base.version \in Nat
    BY <1>1 DEF FactsRecords, Fresh, Tables, SymbolTables, GraphTables, RunTables, Columns
  <1>3. CASE Applies(s, base)
    <2>1. base.version = 12
      BY <1>1, <1>2, <1>3 DEF Applies, Fits, Low
    <2>2. new.version = 13
      BY <1>1, <1>2, <1>3, <2>1, AfterIs
    <2>3. \A p : p \in new.shape <=> p \in base.shape \/ p = "evidence"
      BY <1>1, <1>2, <1>3, AfterIs
    <2> QED BY <2>1, <2>2, <2>3 DEF Fits, Low, Current
  <1>4. CASE ~Applies(s, base)
    <2>1. ~(base.version < 13)
      BY <1>1, <1>2, <1>4 DEF Applies, Fits
    <2>2. new = base
      BY <1>2, <1>4, AfterIs
    <2> QED BY <1>2, <2>1, <2>2 DEF Fits, Low
  <1> QED BY <1>3, <1>4

LEMMA Step15 ==
    ASSUME NEW base \in FactsRecords, Fits(base, 15),
           NEW s, s = FactSteps[15], NEW new, new = After(s, base)
    PROVE  Fits(new, 16)
  <1>1. s.below = 14 /\ s.has = {} /\ s.lacks = {}
        /\ s.adds = {"pointer"} /\ s.to = 14
    BY FactStepsAre DEF Step
  <1>2. s.adds \in SUBSET Fresh /\ s.to \in Nat /\ base.version \in Nat
    BY <1>1 DEF FactsRecords, Fresh, Tables, SymbolTables, GraphTables, RunTables, Columns
  <1>3. CASE Applies(s, base)
    <2>1. base.version = 13
      BY <1>1, <1>2, <1>3 DEF Applies, Fits, Low
    <2>2. new.version = 14
      BY <1>1, <1>2, <1>3, <2>1, AfterIs
    <2>3. \A p : p \in new.shape <=> p \in base.shape \/ p = "pointer"
      BY <1>1, <1>2, <1>3, AfterIs
    <2> QED BY <2>1, <2>2, <2>3 DEF Fits, Low, Current
  <1>4. CASE ~Applies(s, base)
    <2>1. ~(base.version < 14)
      BY <1>1, <1>2, <1>4 DEF Applies, Fits
    <2>2. new = base
      BY <1>2, <1>4, AfterIs
    <2> QED BY <1>2, <2>1, <2>2 DEF Fits, Low
  <1> QED BY <1>3, <1>4

LEMMA StepFits ==
    ASSUME NEW base \in FactsRecords, NEW i \in DOMAIN FactSteps, Fits(base, i),
           NEW s, s = FactSteps[i], NEW new, new = After(s, base)
    PROVE  /\ new \in FactsRecords /\ Fits(new, i + 1)
           /\ new.symbols = base.symbols /\ new.children = base.children
           /\ i < 15 => new.entries = base.entries /\ (new.version = Current <=> base.version = Current)
           /\ i = 15 => new.entries = IF base.version < Current THEN {} ELSE base.entries
  <1>1. i \in 1..15 /\ base.version \in Nat
    BY FactStepsAre DEF FactsRecords
  <1>2. Fits(new, i + 1)
    BY <1>1, Step1, Step2, Step3, Step4, Step5, Step6, Step7, Step8, Step9, Step10, Step11,
       Step12, Step13, Step14, Step15
  <1>3. /\ s.adds \in SUBSET Fresh /\ s.to \in Nat
        /\ i < 15 => "pointer" \notin s.adds /\ s.to < Current
        /\ i = 15 => "pointer" \in s.adds /\ s.has = {} /\ s.lacks = {} /\ s.below = Current /\ s.to = Current
    BY <1>1, FactStepsAre DEF Step, Fresh, Tables, SymbolTables, GraphTables, RunTables, Columns,
       Current
  <1>4. i < 15 => new.entries = base.entries
    BY <1>3, AfterIs
  <1>5. i < 15 => (new.version = Current <=> base.version = Current)
    BY <1>1, <1>3, AfterIs DEF Current
  <1>6. ASSUME i = 15 PROVE Applies(s, base) <=> base.version < Current
    BY <1>3, <1>6 DEF Applies
  <1>7. i = 15 => new.entries = IF base.version < Current THEN {} ELSE base.entries
    BY <1>3, <1>6, AfterIs
  <1> QED BY <1>2, <1>3, <1>4, <1>5, <1>7, AfterIs

LEMMA CreatedIsFresh ==
    ASSUME NEW base \in FactsRecords, Fits(base, 16), NEW new, new = Created(base)
    PROVE  /\ new \in FactsRecords /\ new.shape = Fresh /\ new.version = Current /\ Fits(new, 1)
           /\ new.symbols = base.symbols /\ new.children = base.children /\ new.entries = base.entries
  <1> DEFINE shape == base.shape \cup Tables \cup (IF "symbol" \in base.shape THEN {} ELSE Columns)
  <1>1. base.version = Current
    BY DEF Fits, Low, Current
  <1>2. "flags" \notin base.shape /\ "identity" \notin base.shape
    BY <1>1 DEF Fits, Current
  <1>3. "symbol" \in base.shape => Columns \subseteq base.shape
    BY <1>1 DEF Fits, Current, Columns
  <1>4. base.shape \subseteq Fresh
    BY <1>2 DEF FactsRecords
  <1>5. shape = Fresh
    BY <1>3, <1>4 DEF Fresh
  <1>6. new = [base EXCEPT !.shape = Fresh]
    BY <1>5 DEF Created
  <1>7. /\ new \in FactsRecords /\ new.shape = Fresh /\ new.version = base.version
        /\ new.symbols = base.symbols /\ new.children = base.children /\ new.entries = base.entries
    BY <1>6 DEF FactsRecords
  <1>8. Fits(new, 1)
    BY <1>1, <1>7 DEF Fits, Low, Current, Fresh, Tables, SymbolTables, GraphTables, RunTables, Columns
  <1> QED BY <1>1, <1>7, <1>8

LEMMA ShapeIs ==
    ASSUME NEW v \in 1..15
    PROVE  \A p : p \in Shape(v) <=>
               \/ p \in {"symbol", "columns"}
               \/ p = "identity" /\ v < 6
               \/ p = "initializer" /\ v >= 2
               \/ p = "default" /\ v >= 3
               \/ p = "enumeration" /\ v >= 4
               \/ p = "packed" /\ v >= 5
               \/ p = "site" /\ v >= 7
               \/ p = "context" /\ v >= 8
               \/ p = "returns" /\ v >= 9
               \/ p = "volatile" /\ v >= 10
               \/ p = "entry" /\ v >= 11
               \/ p = "run" /\ v >= 12
               \/ p = "evidence" /\ v >= 13
               \/ p = "pointer" /\ v >= 14
  <1> DEFINE added == UNION {FactSteps[i].adds : i \in {k \in 2..15 : FactSteps[k].below <= v}}
  <1>1. \A p : p \in added <=> \E i \in 2..15 : FactSteps[i].below <= v /\ p \in FactSteps[i].adds
    OBVIOUS
  <1>2. \A p : p \in added <=>
               \/ p = "initializer" /\ v >= 2
               \/ p = "default" /\ v >= 3
               \/ p = "enumeration" /\ v >= 4
               \/ p = "packed" /\ v >= 5
               \/ p = "site" /\ v >= 7
               \/ p = "context" /\ v >= 8
               \/ p = "returns" /\ v >= 9
               \/ p = "volatile" /\ v >= 15
               \/ p = "entry" /\ v >= 11
               \/ p = "run" /\ v >= 12
               \/ p = "evidence" /\ v >= 13
               \/ p = "pointer" /\ v >= 14
    <2>1. /\ FactSteps[2].below = 2 /\ FactSteps[2].adds = {"initializer"}
          /\ FactSteps[3].below = 3 /\ FactSteps[3].adds = {"default"}
          /\ FactSteps[4].below = 4 /\ FactSteps[4].adds = {"enumeration"}
          /\ FactSteps[5].below = 5 /\ FactSteps[5].adds = {"packed"}
          /\ FactSteps[6].adds = {}
          /\ FactSteps[7].below = 7 /\ FactSteps[7].adds = {"site"}
          /\ FactSteps[8].below = 8 /\ FactSteps[8].adds = {"context"}
          /\ FactSteps[9].below = 9 /\ FactSteps[9].adds = {"returns"}
          /\ FactSteps[10].below = 15 /\ FactSteps[10].adds = {"volatile"}
          /\ FactSteps[11].adds = {}
          /\ FactSteps[12].below = 11 /\ FactSteps[12].adds = {"entry"}
          /\ FactSteps[13].below = 12 /\ FactSteps[13].adds = {"run"}
          /\ FactSteps[14].below = 13 /\ FactSteps[14].adds = {"evidence"}
          /\ FactSteps[15].below = 14 /\ FactSteps[15].adds = {"pointer"}
      BY FactStepsAre DEF Step, Always, Current
    <2> HIDE DEF added
    <2> QED BY <1>1, <2>1
  <1>3. Shape(v) = {"symbol", "columns"} \cup added \cup (IF v < 6 THEN {"identity"} ELSE {})
                   \cup (IF v >= 10 THEN {"volatile"} ELSE {})
    <2>1. v # 0
      OBVIOUS
    <2> QED BY <2>1 DEF Shape
  <1> HIDE DEF added
  <1> QED BY <1>2, <1>3

LEMMA LeftFits ==
    /\ NoStore \in FactsRecords /\ Fits(NoStore, 1)
    /\ \A v \in 0..15 : /\ Left(v) \in FactsRecords /\ Left(v).version = v
                        /\ v <= Current => Fits(Left(v), 1)
  <1>1. NoStore \in FactsRecords /\ Fits(NoStore, 1)
    BY DEF NoStore, FactsRecords, Fits, Low, Current
  <1>2. ASSUME NEW v \in 0..15
        PROVE  /\ Left(v) \in FactsRecords /\ Left(v).version = v
               /\ v <= Current => Fits(Left(v), 1)
    <2> DEFINE shape == Shape(v)
    <2>1. shape \subseteq Fresh \cup {"flags", "identity"}
      <3>1. CASE v = 0
        BY <3>1 DEF Shape, Fresh, Tables, SymbolTables
      <3>2. CASE v \in 1..15
        BY <3>2, ShapeIs DEF Fresh, Tables, SymbolTables, GraphTables, RunTables, Columns
      <3> QED BY <3>1, <3>2
    <2>2. /\ Left(v) \in FactsRecords /\ Left(v).version = v /\ Left(v).shape = shape
      <3> HIDE DEF shape
      <3>1. Left(v) = [version |-> v, shape |-> shape, symbols |-> Symbols, children |-> Symbols,
                       entries |-> IF v >= 11 THEN Symbols ELSE {}]
        BY DEF Left, shape
      <3> QED BY <2>1, <3>1 DEF FactsRecords
    <2>3. CASE v = 0
      <3>1. shape = {"symbol", "flags", "identity"}
        BY <2>3 DEF Shape
      <3> HIDE DEF shape
      <3> QED BY <2>2, <2>3, <3>1 DEF Fits, Low, Current
    <2>4. CASE v \in 1..14
      <3>1. /\ "symbol" \in shape /\ "columns" \in shape /\ "flags" \notin shape
            /\ "identity" \in shape <=> v < 6
            /\ "initializer" \in shape <=> v >= 2
            /\ "default" \in shape <=> v >= 3
            /\ "enumeration" \in shape <=> v >= 4
            /\ "packed" \in shape <=> v >= 5
            /\ "site" \in shape <=> v >= 7
            /\ "context" \in shape <=> v >= 8
            /\ "returns" \in shape <=> v >= 9
            /\ "volatile" \in shape <=> v >= 10
            /\ "entry" \in shape <=> v >= 11
            /\ "run" \in shape <=> v >= 12
            /\ "evidence" \in shape <=> v >= 13
            /\ "pointer" \in shape <=> v >= 14
        BY <2>4, ShapeIs
      <3> HIDE DEF shape
      <3> QED BY <2>2, <2>4, <3>1 DEF Fits, Low, Current
    <2> QED BY <2>2, <2>3, <2>4 DEF Current
  <1> QED BY <1>1, <1>2

-----------------------------------------------------------------------------
(* Both databases and the transactions on them *)

ProjectRecords ==
    [layout : {"path", "flat", "registry"}, columns : SUBSET FileColumns, version : Nat \cup {None},
     tables : SUBSET {"index", "cache"}, rows : SUBSET (FileIds \X Places),
     old : SUBSET (FileIds \X Places)]

\* A transaction is a record; a database has one writer at a time.
OpenersKept ==
    /\ opener = [o \in Openers |-> opener[o]]
    /\ \A o \in Openers : opener[o] # None =>
         /\ opener[o] = [file |-> opener[o].file, at |-> opener[o].at, db |-> opener[o].db]
         /\ opener[o].file \in {"facts", "files", "gap", "schema"}
    /\ \A o, p \in Openers : opener[o] # None /\ opener[p] # None =>
         /\ opener[o].file = "facts" /\ opener[p].file = "facts" => o = p
         /\ opener[o].file \in {"files", "schema"} /\ opener[p].file \in {"files", "schema"} => o = p

\* How far a transaction has taken its copy.
UpgradingFacts(t) ==
    /\ t.at \in 1..16 /\ t.db \in FactsRecords /\ Fits(t.db, t.at)
    /\ facts.version <= Current
    /\ t.db.symbols = facts.symbols /\ t.db.children = facts.children
    /\ t.at < 16 => t.db.entries = facts.entries /\ (t.db.version = Current <=> facts.version = Current)
    /\ t.at = 16 => t.db.entries = IF facts.version < Current THEN {} ELSE facts.entries

FactsKept ==
    /\ facts \in FactsRecords
    /\ facts.version = Current + 1 \/ Fits(facts, 1)
    /\ \A o \in Openers : opener[o] # None /\ opener[o].file = "facts" => UpgradingFacts(opener[o])

\* A project is registered with all columns from its first version on.
Registered(p) == p.layout = "registry" /\ p.columns = FileColumns
Consistent(p) ==
    /\ p \in ProjectRecords
    /\ p.tables = TablesOf(p.version)
    /\ p.version \in Nat \ {0} => Registered(p)

UpgradingFiles(t) ==
    /\ t.at \in {1, 2} /\ Consistent(t.db) /\ t.db.rows \cup t.db.old = project.rows
    /\ t.at = 1 => t.db.old = {}
    /\ t.at = 2 => Registered(t.db)

UpgradingSchema(t) ==
    /\ t.at \in 1..4 /\ Consistent(t.db) /\ t.db.rows = project.rows /\ t.db.old = {}
    /\ Registered(t.db)
    /\ t.at = 2 => t.db.version \in Nat
    /\ t.at = 3 => t.db.version \in {1, 2}
    /\ t.at = 4 => t.db.version = 2

ProjectKept ==
    /\ Consistent(project) /\ project.old = {}
    /\ \A o \in Openers : opener[o] # None =>
         /\ opener[o].file = "files" => UpgradingFiles(opener[o])
         /\ opener[o].file = "schema" => UpgradingSchema(opener[o]) /\ Registered(project)
         /\ opener[o].file = "gap" => Registered(project)

MigrationInv == OpenersKept /\ FactsKept /\ ProjectKept

LEMMA MigrationInvInit == MigrationInit => MigrationInv
  <1> SUFFICES ASSUME MigrationInit PROVE MigrationInv
    OBVIOUS
  <1>1. OpenersKept
    BY DEF MigrationInit, OpenersKept
  <1>2. FactsKept
    BY LeftFits DEF MigrationInit, FactsKept, Current
  <1>3. \A o \in Openers : opener[o] = None
    BY DEF MigrationInit
  <1>4. PICK rows \in SUBSET (FileIds \X Places) : project \in Registries(rows)
    BY DEF MigrationInit
  <1>5. Consistent(project) /\ project.old = {}
    <2>1. CASE project \in {[layout |-> l, columns |-> {}, version |-> None, tables |-> {}, rows |-> rows,
                             old |-> {}] : l \in {"path", "flat", "registry"}}
      BY <2>1, MigrationAssumption DEF Consistent, ProjectRecords, TablesOf
    <2>2. CASE project \in {[layout |-> "registry", columns |-> c, version |-> v, tables |-> TablesOf(v),
                             rows |-> rows, old |-> {}] : c \in {{}, FileColumns}, v \in {None, 0}}
      BY <2>2, MigrationAssumption DEF Consistent, ProjectRecords, TablesOf
    <2>3. CASE project \in {[layout |-> "registry", columns |-> FileColumns, version |-> v,
                             tables |-> TablesOf(v), rows |-> rows, old |-> {}] : v \in 1..CurrentProject + 1}
      BY <2>3, MigrationAssumption DEF Consistent, ProjectRecords, TablesOf, Registered
    <2> QED BY <1>4, <2>1, <2>2, <2>3 DEF Registries
  <1> QED BY <1>1, <1>2, <1>3, <1>5 DEF MigrationInv, ProjectKept

\* A transaction that begins, advances or turns into the gap.
LEMMA OpenersStep ==
    ASSUME OpenersKept, NEW o \in Openers, NEW t, opener' = [opener EXCEPT ![o] = t],
           t = [file |-> t.file, at |-> t.at, db |-> t.db],
           t.file \in {"facts", "files", "gap", "schema"},
           \/ t.file = "gap"
           \/ opener[o] # None /\ t.file = opener[o].file
           \/ t.file = "facts" /\ ~Writing("facts")
           \/ t.file \in {"files", "schema"} /\ ~Writing("files")
    PROVE  OpenersKept' /\ opener'[o] = t /\ \A p \in Openers : p # o => opener'[p] = opener[p]
  <1>1. opener'[o] = t /\ \A p \in Openers : p # o => opener'[p] = opener[p]
    BY DEF OpenersKept
  <1>2. opener' = [p \in Openers |-> opener'[p]]
    BY DEF OpenersKept
  <1>3. \A p \in Openers : opener'[p] # None =>
          /\ opener'[p] = [file |-> opener'[p].file, at |-> opener'[p].at, db |-> opener'[p].db]
          /\ opener'[p].file \in {"facts", "files", "gap", "schema"}
    BY <1>1 DEF OpenersKept
  <1>4. \A p \in Openers : p # o /\ opener[p] # None =>
          /\ t.file = "facts" => opener[p].file # "facts"
          /\ t.file \in {"files", "schema"} => opener[p].file \notin {"files", "schema"}
    BY DEF OpenersKept, Writing, Database
  <1>5. \A p, q \in Openers : opener'[p] # None /\ opener'[q] # None =>
          /\ opener'[p].file = "facts" /\ opener'[q].file = "facts" => p = q
          /\ opener'[p].file \in {"files", "schema"} /\ opener'[q].file \in {"files", "schema"} => p = q
    BY <1>1, <1>4 DEF OpenersKept
  <1> QED BY <1>1, <1>2, <1>3, <1>5 DEF OpenersKept

LEMMA EndStep ==
    ASSUME OpenersKept, NEW o \in Openers, opener' = [opener EXCEPT ![o] = None]
    PROVE  OpenersKept' /\ opener'[o] = None /\ \A p \in Openers : p # o => opener'[p] = opener[p]
  <1>1. opener'[o] = None /\ \A p \in Openers : p # o => opener'[p] = opener[p]
    BY DEF OpenersKept
  <1>2. opener' = [p \in Openers |-> opener'[p]]
    BY DEF OpenersKept
  <1> QED BY <1>1, <1>2 DEF OpenersKept

LEMMA BeginStep ==
    ASSUME OpenersKept, NEW o \in Openers, NEW kind \in {"facts", "files", "schema"}, NEW base,
           BeginWrite(o, kind, base)
    PROVE  /\ OpenersKept' /\ UNCHANGED <<facts, project>>
           /\ \A p \in Openers : p # o => opener'[p] = opener[p]
           /\ opener'[o] = [file |-> kind, at |-> 1, db |-> base]
  <1> DEFINE t == [file |-> kind, at |-> 1, db |-> base]
  <1>1. /\ ~Writing(kind) /\ opener' = [opener EXCEPT ![o] = t] /\ UNCHANGED <<facts, project>>
    BY DEF BeginWrite
  <1>2. Writing("schema") <=> Writing("files")
    BY DEF Writing, Database
  <1>3. t = [file |-> t.file, at |-> t.at, db |-> t.db] /\ t.file = kind
    OBVIOUS
  <1> HIDE DEF t
  <1>4. OpenersKept' /\ opener'[o] = t /\ \A p \in Openers : p # o => opener'[p] = opener[p]
    BY <1>1, <1>2, <1>3, OpenersStep
  <1> QED BY <1>1, <1>4 DEF t

LEMMA ChangedOpener ==
    ASSUME OpenersKept, NEW o \in Openers, opener[o] # None, NEW x, NEW y
    PROVE  /\ [opener EXCEPT ![o].at = x, ![o].db = y]
                = [opener EXCEPT ![o] = [file |-> opener[o].file, at |-> x, db |-> y]]
           /\ [opener EXCEPT ![o].file = x, ![o].db = y]
                = [opener EXCEPT ![o] = [file |-> x, at |-> opener[o].at, db |-> y]]
  <1>1. opener[o] \in [file : {opener[o].file}, at : {opener[o].at}, db : {opener[o].db}]
    BY DEF OpenersKept
  <1>2. [opener EXCEPT ![o].at = x, ![o].db = y] = [opener EXCEPT ![o] = [file |-> opener[o].file, at |-> x, db |-> y]]
    <2>1. ASSUME NEW t, t = [opener[o] EXCEPT !.at = x, !.db = y]
          PROVE  t \in [file : {opener[o].file}, at : {x}, db : {y}]
      BY <1>1, <2>1
    <2>2. ASSUME NEW t, t \in [file : {opener[o].file}, at : {x}, db : {y}]
          PROVE  t = [file |-> opener[o].file, at |-> x, db |-> y]
      BY <2>2
    <2>3. [opener[o] EXCEPT !.at = x, !.db = y] = [file |-> opener[o].file, at |-> x, db |-> y]
      BY <2>1, <2>2
    <2>4. [opener EXCEPT ![o].at = x, ![o].db = y] = [opener EXCEPT ![o] = [opener[o] EXCEPT !.at = x, !.db = y]]
      BY DEF OpenersKept
    <2> QED BY <2>3, <2>4
  <1>3. [opener EXCEPT ![o].file = x, ![o].db = y] = [opener EXCEPT ![o] = [file |-> x, at |-> opener[o].at, db |-> y]]
    <2>1. ASSUME NEW t, t = [opener[o] EXCEPT !.file = x, !.db = y]
          PROVE  t \in [file : {x}, at : {opener[o].at}, db : {y}]
      BY <1>1, <2>1
    <2>2. ASSUME NEW t, t \in [file : {x}, at : {opener[o].at}, db : {y}]
          PROVE  t = [file |-> x, at |-> opener[o].at, db |-> y]
      BY <2>2
    <2>3. [opener[o] EXCEPT !.file = x, !.db = y] = [file |-> x, at |-> opener[o].at, db |-> y]
      BY <2>1, <2>2
    <2>4. [opener EXCEPT ![o].file = x, ![o].db = y] = [opener EXCEPT ![o] = [opener[o] EXCEPT !.file = x, !.db = y]]
      BY DEF OpenersKept
    <2> QED BY <2>3, <2>4
  <1> QED BY <1>2, <1>3

LEMMA AdvanceStep ==
    ASSUME OpenersKept, NEW o \in Openers, NEW kind, NEW at \in Nat, At(o, kind, at), NEW base, Advance(o, base)
    PROVE  /\ OpenersKept' /\ UNCHANGED <<facts, project>>
           /\ \A p \in Openers : p # o => opener'[p] = opener[p]
           /\ opener[o] # None /\ opener[o].file = kind /\ opener[o].at = at
           /\ opener'[o] = [file |-> kind, at |-> at + 1, db |-> base]
  <1>1. opener[o] # None /\ opener[o].file = kind /\ opener[o].at = at
    BY DEF At
  <1> DEFINE next == opener[o].at + 1
  <1>2. opener' = [opener EXCEPT ![o].at = next, ![o].db = base] /\ UNCHANGED <<facts, project>>
    BY DEF Advance
  <1>3. next = at + 1
    BY <1>1
  <1> HIDE DEF next
  <1> DEFINE t == [file |-> kind, at |-> next, db |-> base]
  <1>4. opener' = [opener EXCEPT ![o] = t]
    <2>1. [opener EXCEPT ![o].at = next, ![o].db = base]
            = [opener EXCEPT ![o] = [file |-> opener[o].file, at |-> next, db |-> base]]
      BY <1>1, ChangedOpener
    <2>2. [file |-> opener[o].file, at |-> next, db |-> base] = t
      BY <1>1
    <2> HIDE DEF t
    <2> QED BY <1>2, <2>1, <2>2
  <1>5. t = [file |-> t.file, at |-> t.at, db |-> t.db] /\ t.file = kind
    OBVIOUS
  <1> HIDE DEF t
  <1>6. kind \in {"facts", "files", "gap", "schema"}
    BY <1>1 DEF OpenersKept
  <1>7. OpenersKept' /\ opener'[o] = t /\ \A p \in Openers : p # o => opener'[p] = opener[p]
    BY <1>1, <1>4, <1>5, <1>6, OpenersStep
  <1> QED BY <1>1, <1>2, <1>3, <1>7 DEF t

\* What a step on one transaction leaves to show.
LEMMA FactsStay ==
    ASSUME FactsKept, UNCHANGED facts, NEW o \in Openers,
           \A p \in Openers : p # o => opener'[p] = opener[p],
           NEW t, opener'[o] = t, t # None /\ t.file = "facts" => UpgradingFacts(t)
    PROVE  FactsKept'
  BY DEF FactsKept, UpgradingFacts

LEMMA ProjectStaysWhole ==
    ASSUME ProjectKept, UNCHANGED project, NEW o \in Openers,
           \A p \in Openers : p # o => opener'[p] = opener[p],
           NEW t, opener'[o] = t,
           t # None /\ t.file = "files" => UpgradingFiles(t),
           t # None /\ t.file = "schema" => UpgradingSchema(t) /\ Registered(project),
           t # None /\ t.file = "gap" => Registered(project)
    PROVE  ProjectKept'
  BY DEF ProjectKept, UpgradingFiles, UpgradingSchema

LEMMA AbortKeeps == ASSUME MigrationInv, NEW o \in Openers, AbortOpening(o) PROVE MigrationInv'
  <1>1. opener' = [opener EXCEPT ![o] = None] /\ UNCHANGED <<facts, project>>
    BY DEF AbortOpening
  <1>2. OpenersKept' /\ opener'[o] = None /\ \A p \in Openers : p # o => opener'[p] = opener[p]
    BY <1>1, EndStep DEF MigrationInv
  <1>3. FactsKept'
    BY <1>1, <1>2, FactsStay DEF MigrationInv
  <1>4. ProjectKept'
    BY <1>1, <1>2, ProjectStaysWhole DEF MigrationInv
  <1> QED BY <1>2, <1>3, <1>4 DEF MigrationInv

LEMMA BeginFactsKeeps == ASSUME MigrationInv, NEW o \in Openers, BeginFacts(o) PROVE MigrationInv'
  <1>1. facts.version <= Current /\ BeginWrite(o, "facts", facts)
    BY DEF BeginFacts
  <1> DEFINE t == [file |-> "facts", at |-> 1, db |-> facts]
  <1>2. /\ OpenersKept' /\ UNCHANGED <<facts, project>> /\ opener'[o] = t
        /\ \A p \in Openers : p # o => opener'[p] = opener[p]
    BY <1>1, BeginStep DEF MigrationInv
  <1>3. t.file = "facts" /\ t.at = 1 /\ t.db = facts
    OBVIOUS
  <1> HIDE DEF t
  <1>4. UpgradingFacts(t)
    BY <1>1, <1>3 DEF UpgradingFacts, MigrationInv, FactsKept, Current
  <1>5. FactsKept'
    BY <1>2, <1>4, FactsStay DEF MigrationInv
  <1>6. ProjectKept'
    BY <1>2, <1>3, ProjectStaysWhole DEF MigrationInv
  <1> QED BY <1>2, <1>5, <1>6 DEF MigrationInv

LEMMA MigrateFactsKeeps == ASSUME MigrationInv, NEW o \in Openers, MigrateFacts(o) PROVE MigrationInv'
  <1>1. PICK i \in DOMAIN FactSteps :
          /\ At(o, "facts", i)
          /\ Advance(o, IF Applies(FactSteps[i], opener[o].db) THEN Upgraded(FactSteps[i], opener[o].db)
                        ELSE opener[o].db)
    BY DEF MigrateFacts
  <1> DEFINE base == opener[o].db
             new == After(FactSteps[i], base)
             t == [file |-> "facts", at |-> i + 1, db |-> new]
  <1>2. Advance(o, new) /\ i \in 1..15
    BY <1>1, FactStepsAre DEF After
  <1>3. /\ OpenersKept' /\ UNCHANGED <<facts, project>>
        /\ \A p \in Openers : p # o => opener'[p] = opener[p]
        /\ opener[o] # None /\ opener[o].file = "facts" /\ opener[o].at = i
        /\ opener'[o] = t
    <2> HIDE DEF new
    <2> QED BY <1>1, <1>2, AdvanceStep DEF MigrationInv
  <1>4. UpgradingFacts(opener[o])
    BY <1>3 DEF MigrationInv, FactsKept
  <1>5. base \in FactsRecords /\ Fits(base, i) /\ base.symbols = facts.symbols /\ base.children = facts.children
        /\ base.entries = facts.entries /\ (base.version = Current <=> facts.version = Current)
        /\ facts.version <= Current
    BY <1>2, <1>3, <1>4 DEF UpgradingFacts
  <1>6. /\ new \in FactsRecords /\ Fits(new, i + 1)
        /\ new.symbols = base.symbols /\ new.children = base.children
        /\ i < 15 => new.entries = base.entries /\ (new.version = Current <=> base.version = Current)
        /\ i = 15 => new.entries = IF base.version < Current THEN {} ELSE base.entries
    <2> HIDE DEF base
    <2> QED BY <1>1, <1>5, StepFits
  <1>7. t.file = "facts" /\ t.at = i + 1 /\ t.db = new
    OBVIOUS
  <1>8. base.version < Current <=> facts.version < Current
    <2>1. base.version \in 0..Current /\ facts.version \in Nat
      BY <1>5 DEF Fits, MigrationInv, FactsKept, FactsRecords
    <2> QED BY <1>5, <2>1 DEF Current
  <1> HIDE DEF t, new, base
  <1>9. UpgradingFacts(t)
    BY <1>2, <1>5, <1>6, <1>7, <1>8 DEF UpgradingFacts
  <1>10. FactsKept'
    BY <1>3, <1>9, FactsStay DEF MigrationInv
  <1>11. ProjectKept'
    BY <1>3, <1>7, ProjectStaysWhole DEF MigrationInv
  <1> QED BY <1>3, <1>10, <1>11 DEF MigrationInv

LEMMA CommitFactsKeeps ==
    ASSUME MigrationInv, NEW o \in Openers, CommitFacts(o)
    PROVE  /\ MigrationInv' /\ UNCHANGED project
           /\ facts'.version = Current /\ facts'.shape = Fresh
           /\ facts'.symbols = facts.symbols /\ facts'.children = facts.children
           /\ facts'.entries = IF facts.version < Current THEN {} ELSE facts.entries
  <1> DEFINE base == opener[o].db
  <1>1. /\ opener[o] # None /\ opener[o].file = "facts" /\ opener[o].at = 16 /\ facts' = Created(base)
        /\ opener' = [opener EXCEPT ![o] = None] /\ UNCHANGED project
    BY FactStepsAre DEF CommitFacts, At
  <1>2. OpenersKept' /\ opener'[o] = None /\ \A p \in Openers : p # o => opener'[p] = opener[p]
    BY <1>1, EndStep DEF MigrationInv
  <1>3. UpgradingFacts(opener[o])
    BY <1>1 DEF MigrationInv, FactsKept
  <1>4. /\ base \in FactsRecords /\ Fits(base, 16) /\ base.symbols = facts.symbols /\ base.children = facts.children
        /\ base.entries = IF facts.version < Current THEN {} ELSE facts.entries
    BY <1>1, <1>3 DEF UpgradingFacts
  <1> HIDE DEF base
  <1>5. /\ facts' \in FactsRecords /\ facts'.shape = Fresh /\ facts'.version = Current /\ Fits(facts', 1)
        /\ facts'.symbols = base.symbols /\ facts'.children = base.children /\ facts'.entries = base.entries
    BY <1>1, <1>4, CreatedIsFresh
  <1>6. \A p \in Openers : opener'[p] # None => opener'[p].file # "facts"
    BY <1>1, <1>2 DEF MigrationInv, OpenersKept
  <1>7. FactsKept'
    BY <1>5, <1>6 DEF FactsKept
  <1>8. ProjectKept'
    BY <1>1, <1>2, ProjectStaysWhole DEF MigrationInv
  <1> QED BY <1>1, <1>2, <1>4, <1>5, <1>7, <1>8 DEF MigrationInv

\* A changed field of the copy of a project.
LEMMA ChangedProject ==
    ASSUME NEW base, Consistent(base)
    PROVE  /\ [base EXCEPT !.columns = FileColumns]
                = [layout |-> base.layout, columns |-> FileColumns, version |-> base.version,
                   tables |-> base.tables, rows |-> base.rows, old |-> base.old]
           /\ \A v : [base EXCEPT !.version = v]
                = [layout |-> base.layout, columns |-> base.columns, version |-> v,
                   tables |-> base.tables, rows |-> base.rows, old |-> base.old]
  BY DEF Consistent, ProjectRecords

LEMMA BeginFilesKeeps == ASSUME MigrationInv, NEW o \in Openers, BeginFiles(o) PROVE MigrationInv'
  <1>1. BeginWrite(o, "files", project)
    BY DEF BeginFiles
  <1> DEFINE t == [file |-> "files", at |-> 1, db |-> project]
  <1>2. /\ OpenersKept' /\ UNCHANGED <<facts, project>> /\ opener'[o] = t
        /\ \A p \in Openers : p # o => opener'[p] = opener[p]
    BY <1>1, BeginStep DEF MigrationInv
  <1>3. t.file = "files" /\ t.at = 1 /\ t.db = project
    OBVIOUS
  <1> HIDE DEF t
  <1>4. UpgradingFiles(t)
    BY <1>3 DEF UpgradingFiles, MigrationInv, ProjectKept
  <1>5. FactsKept'
    BY <1>2, <1>3, FactsStay DEF MigrationInv
  <1>6. ProjectKept'
    BY <1>2, <1>3, <1>4, ProjectStaysWhole DEF MigrationInv
  <1> QED BY <1>2, <1>5, <1>6 DEF MigrationInv

LEMMA SetAsideKeeps == ASSUME MigrationInv, NEW o \in Openers, SetAside(o) PROVE MigrationInv'
  <1> DEFINE base == opener[o].db
             new == IF base.layout = "registry" THEN [base EXCEPT !.columns = FileColumns]
                    ELSE [base EXCEPT !.layout = "registry", !.columns = FileColumns,
                                    !.version = 0, !.rows = {}, !.old = base.rows]
             t == [file |-> "files", at |-> 2, db |-> new]
  <1>1. At(o, "files", 1) /\ Advance(o, new)
    BY DEF SetAside
  <1>2. /\ OpenersKept' /\ UNCHANGED <<facts, project>>
        /\ \A p \in Openers : p # o => opener'[p] = opener[p]
        /\ opener[o] # None /\ opener[o].file = "files" /\ opener[o].at = 1
        /\ opener'[o] = t
    <2> HIDE DEF new
    <2> QED BY <1>1, AdvanceStep DEF MigrationInv
  <1>3. Consistent(base) /\ base.rows \cup base.old = project.rows /\ base.old = {}
    BY <1>2 DEF MigrationInv, ProjectKept, UpgradingFiles
  <1>4. Consistent(new) /\ Registered(new) /\ new.rows \cup new.old = project.rows
    <2> HIDE DEF base
    <2>1. CASE base.layout = "registry"
      <3>1. new = [layout |-> base.layout, columns |-> FileColumns, version |-> base.version,
                   tables |-> base.tables, rows |-> base.rows, old |-> base.old]
        BY <1>3, <2>1, ChangedProject
      <3> HIDE DEF new
      <3> QED BY <1>3, <2>1, <3>1 DEF Consistent, ProjectRecords, Registered
    <2>2. CASE base.layout # "registry"
      <3>1. new = [layout |-> "registry", columns |-> FileColumns, version |-> 0,
                   tables |-> base.tables, rows |-> {}, old |-> base.rows]
        <4>1. base \in [layout : {base.layout}, columns : {base.columns}, version : {base.version},
                      tables : {base.tables}, rows : {base.rows}, old : {base.old}]
          BY <1>3 DEF Consistent, ProjectRecords
        <4>2. ASSUME NEW x, x = [base EXCEPT !.layout = "registry", !.columns = FileColumns,
                                           !.version = 0, !.rows = {}, !.old = base.rows]
              PROVE  x \in [layout : {"registry"}, columns : {FileColumns}, version : {0},
                            tables : {base.tables}, rows : {{}}, old : {base.rows}]
          BY <4>1, <4>2
        <4>3. ASSUME NEW x, x \in [layout : {"registry"}, columns : {FileColumns}, version : {0},
                                   tables : {base.tables}, rows : {{}}, old : {base.rows}]
              PROVE  x = [layout |-> "registry", columns |-> FileColumns, version |-> 0,
                          tables |-> base.tables, rows |-> {}, old |-> base.rows]
          BY <4>3
        <4> QED BY <2>2, <4>2, <4>3
      <3>2. base.version \in {0, None} /\ base.tables = {}
        BY <1>3, <2>2 DEF Consistent, ProjectRecords, Registered, TablesOf
      <3> HIDE DEF new
      <3> QED BY <1>3, <3>1, <3>2 DEF Consistent, ProjectRecords, Registered, TablesOf
    <2> QED BY <2>1, <2>2
  <1>5. t.file = "files" /\ t.at = 2 /\ t.db = new
    OBVIOUS
  <1> HIDE DEF t, new, base
  <1>6. UpgradingFiles(t)
    BY <1>4, <1>5 DEF UpgradingFiles
  <1>7. FactsKept'
    BY <1>2, <1>5, FactsStay DEF MigrationInv
  <1>8. ProjectKept'
    BY <1>2, <1>5, <1>6, ProjectStaysWhole DEF MigrationInv
  <1> QED BY <1>2, <1>7, <1>8 DEF MigrationInv

LEMMA CommitFilesKeeps ==
    ASSUME MigrationInv, NEW o \in Openers, CommitFiles(o)
    PROVE  MigrationInv' /\ facts' = facts /\ project'.rows = project.rows
  <1> DEFINE base == opener[o].db
             t == [file |-> "gap", at |-> opener[o].at, db |-> None]
  <1>1. /\ opener[o] # None /\ opener[o].file = "files" /\ opener[o].at = 2 /\ base.old = {}
        /\ project' = base /\ UNCHANGED facts
        /\ opener' = [opener EXCEPT ![o].file = "gap", ![o].db = None]
    BY DEF CommitFiles, At
  <1>2. opener' = [opener EXCEPT ![o] = t]
    BY <1>1, ChangedOpener, ZenonT(60) DEF MigrationInv
  <1>3. t = [file |-> t.file, at |-> t.at, db |-> t.db] /\ t.file = "gap"
    OBVIOUS
  <1> HIDE DEF t
  <1>4. OpenersKept' /\ opener'[o] = t /\ \A p \in Openers : p # o => opener'[p] = opener[p]
    BY <1>2, <1>3, OpenersStep DEF MigrationInv
  <1>5. Consistent(base) /\ base.rows = project.rows /\ Registered(base)
    BY <1>1 DEF MigrationInv, ProjectKept, UpgradingFiles
  <1> HIDE DEF base
  <1>6. \A p \in Openers : opener'[p] # None => opener'[p].file \notin {"files", "schema"}
    BY <1>1, <1>3, <1>4 DEF MigrationInv, OpenersKept
  <1>7. ProjectKept'
    BY <1>1, <1>5, <1>6 DEF ProjectKept, Consistent, Registered
  <1>8. FactsKept'
    BY <1>1, <1>3, <1>4, FactsStay DEF MigrationInv
  <1> QED BY <1>1, <1>4, <1>5, <1>7, <1>8 DEF MigrationInv

LEMMA BeginSchemaKeeps == ASSUME MigrationInv, NEW o \in Openers, BeginSchema(o) PROVE MigrationInv'
  <1>1. opener[o] # None /\ opener[o].file = "gap" /\ BeginWrite(o, "schema", project)
    BY DEF BeginSchema
  <1> DEFINE t == [file |-> "schema", at |-> 1, db |-> project]
  <1>2. /\ OpenersKept' /\ UNCHANGED <<facts, project>> /\ opener'[o] = t
        /\ \A p \in Openers : p # o => opener'[p] = opener[p]
    BY <1>1, BeginStep DEF MigrationInv
  <1>3. t.file = "schema" /\ t.at = 1 /\ t.db = project
    OBVIOUS
  <1> HIDE DEF t
  <1>4. UpgradingSchema(t) /\ Registered(project)
    BY <1>1, <1>3 DEF UpgradingSchema, MigrationInv, ProjectKept
  <1>5. FactsKept'
    BY <1>2, <1>3, FactsStay DEF MigrationInv
  <1>6. ProjectKept'
    BY <1>2, <1>3, <1>4, ProjectStaysWhole DEF MigrationInv
  <1> QED BY <1>2, <1>5, <1>6 DEF MigrationInv

LEMMA MoveRowKeeps == ASSUME MigrationInv, NEW o \in Openers, MoveRow(o) PROVE MigrationInv'
  <1> DEFINE base == opener[o].db
             row == CHOOSE x \in base.old : \A y \in base.old : x[1] <= y[1]
             new == [base EXCEPT !.old = @ \ {row}, !.rows = @ \cup {row}]
             t == [file |-> "files", at |-> 2, db |-> new]
  <1>1. /\ opener[o] # None /\ opener[o].file = "files" /\ opener[o].at = 2 /\ base.old # {}
        /\ opener' = [opener EXCEPT ![o].db = new]
        /\ UNCHANGED <<facts, project>>
    BY DEF MoveRow, At, Inserted
  <1>2. UpgradingFiles(opener[o])
    BY <1>1 DEF MigrationInv, ProjectKept
  <1>3. Consistent(base) /\ base.rows \cup base.old = project.rows /\ Registered(base)
    BY <1>1, <1>2 DEF UpgradingFiles
  <1>4. row \in base.old
    <2> DEFINE ids == {x[1] : x \in base.old}
    <2>1. ids \subseteq Nat /\ ids # {}
      BY <1>1, <1>3, MigrationAssumption DEF Consistent, ProjectRecords
    <2>2. Min(ids) \in ids /\ \A n \in ids : Min(ids) <= n
      BY <2>1, LeastExists
    <2>3. PICK x \in base.old : \A y \in base.old : x[1] <= y[1]
      BY <2>2
    <2> QED BY <2>3
  <1> HIDE DEF row
  <1>5. opener' = [opener EXCEPT ![o] = t]
    <2>1. opener[o] \in [file : {"files"}, at : {2}, db : {base}]
      BY <1>1 DEF MigrationInv, OpenersKept
    <2>2. ASSUME NEW x, x = [opener[o] EXCEPT !.db = new]
          PROVE  x = t
      BY <2>1, <2>2
    <2>3. opener' = [opener EXCEPT ![o] = [opener[o] EXCEPT !.db = new]]
      <3> HIDE DEF new
      <3> QED BY <1>1 DEF MigrationInv, OpenersKept
    <2> HIDE DEF t
    <2> QED BY <2>2, <2>3
  <1>6. new = [layout |-> base.layout, columns |-> base.columns, version |-> base.version,
               tables |-> base.tables, rows |-> base.rows \cup {row}, old |-> base.old \ {row}]
    <2> DEFINE rows == base.rows \cup {row}
               old == base.old \ {row}
    <2>1. new = [base EXCEPT !.old = old, !.rows = rows]
      BY <1>3 DEF Consistent, ProjectRecords
    <2> HIDE DEF rows, old, new
    <2>2. base \in [layout : {base.layout}, columns : {base.columns}, version : {base.version},
                  tables : {base.tables}, rows : {base.rows}, old : {base.old}]
      BY <1>3 DEF Consistent, ProjectRecords
    <2>3. ASSUME NEW x, x = [base EXCEPT !.old = old, !.rows = rows]
          PROVE  x \in [layout : {base.layout}, columns : {base.columns}, version : {base.version},
                        tables : {base.tables}, rows : {rows}, old : {old}]
      BY <2>2, <2>3
    <2>4. new = [layout |-> base.layout, columns |-> base.columns, version |-> base.version,
                 tables |-> base.tables, rows |-> rows, old |-> old]
      BY <2>1, <2>3
    <2> QED BY <2>4 DEF rows, old
  <1> HIDE DEF new
  <1>7. Consistent(new) /\ Registered(new) /\ new.rows \cup new.old = project.rows
    BY <1>3, <1>4, <1>6 DEF Consistent, ProjectRecords, Registered
  <1>8. t = [file |-> t.file, at |-> t.at, db |-> t.db] /\ t.file = "files" /\ t.at = 2 /\ t.db = new
    OBVIOUS
  <1> HIDE DEF t, base
  <1>9. OpenersKept' /\ opener'[o] = t /\ \A p \in Openers : p # o => opener'[p] = opener[p]
    <2>1. opener[o] # None /\ opener[o].file = "files"
      BY <1>1
    <2> QED BY <1>5, <1>8, <2>1, OpenersStep DEF MigrationInv
  <1>10. UpgradingFiles(t)
    BY <1>7, <1>8 DEF UpgradingFiles
  <1>11. FactsKept'
    BY <1>1, <1>8, <1>9, FactsStay DEF MigrationInv
  <1>12. ProjectKept'
    BY <1>1, <1>8, <1>9, <1>10, ProjectStaysWhole DEF MigrationInv
  <1> QED BY <1>9, <1>11, <1>12 DEF MigrationInv

\* A step of the transaction on the versioned tables.
LEMMA SchemaStep ==
    ASSUME MigrationInv, NEW o \in Openers, NEW at \in 1..3, At(o, "schema", at), NEW new, Advance(o, new),
           LET base == opener[o].db IN
             UpgradingSchema(opener[o]) =>
               Consistent(new) /\ Registered(new) /\ new.rows = base.rows /\ new.old = {}
               /\ (at = 1 => new.version \in Nat) /\ (at = 2 => new.version \in {1, 2})
               /\ (at = 3 => new.version = 2)
    PROVE  MigrationInv'
  <1> DEFINE base == opener[o].db
             t == [file |-> "schema", at |-> at + 1, db |-> new]
  <1>1. /\ OpenersKept' /\ UNCHANGED <<facts, project>>
        /\ \A p \in Openers : p # o => opener'[p] = opener[p]
        /\ opener[o] # None /\ opener[o].file = "schema" /\ opener[o].at = at
        /\ opener'[o] = t
    BY AdvanceStep DEF MigrationInv
  <1>2. UpgradingSchema(opener[o]) /\ Registered(project)
    BY <1>1 DEF MigrationInv, ProjectKept
  <1>3. base.rows = project.rows
    BY <1>2 DEF UpgradingSchema
  <1>4. t.file = "schema" /\ t.at = at + 1 /\ t.db = new
    OBVIOUS
  <1> HIDE DEF t
  <1>5. UpgradingSchema(t)
    BY <1>2, <1>3, <1>4 DEF UpgradingSchema
  <1>6. FactsKept'
    BY <1>1, <1>4, FactsStay DEF MigrationInv
  <1>7. ProjectKept'
    BY <1>1, <1>2, <1>4, <1>5, ProjectStaysWhole DEF MigrationInv
  <1> QED BY <1>1, <1>6, <1>7 DEF MigrationInv

LEMMA AddVersionKeeps == ASSUME MigrationInv, NEW o \in Openers, AddVersion(o) PROVE MigrationInv'
  <1> DEFINE base == opener[o].db
             version == IF base.version = None THEN 0 ELSE base.version
             new == [base EXCEPT !.version = version]
  <1>1. At(o, "schema", 1) /\ Advance(o, new)
    BY DEF AddVersion
  <1>2. ASSUME UpgradingSchema(opener[o])
        PROVE  Consistent(new) /\ Registered(new) /\ new.rows = base.rows /\ new.old = {} /\ new.version \in Nat
    <2>1. Consistent(base) /\ Registered(base) /\ base.old = {}
      BY <1>2 DEF UpgradingSchema
    <2>2. version \in Nat /\ TablesOf(version) = TablesOf(base.version)
      BY <2>1 DEF Consistent, ProjectRecords, TablesOf
    <2> HIDE DEF version, base
    <2>3. new = [layout |-> base.layout, columns |-> base.columns, version |-> version,
                 tables |-> base.tables, rows |-> base.rows, old |-> base.old]
      BY <2>1, ChangedProject
    <2> QED BY <2>1, <2>2, <2>3 DEF Consistent, ProjectRecords, Registered
  <1> HIDE DEF new
  <1> QED BY <1>1, <1>2, SchemaStep

LEMMA CreateIndexKeeps == ASSUME MigrationInv, NEW o \in Openers, CreateIndex(o) PROVE MigrationInv'
  <1> DEFINE base == opener[o].db
             new == IF base.version # 0 THEN base
                    ELSE [base EXCEPT !.tables = @ \cup {"index"}, !.version = 1]
  <1>1. At(o, "schema", 2) /\ Advance(o, new) /\ ~Newer(base)
    BY DEF CreateIndex
  <1>2. ASSUME UpgradingSchema(opener[o])
        PROVE  Consistent(new) /\ Registered(new) /\ new.rows = base.rows /\ new.old = {}
               /\ new.version \in {1, 2}
    <2>1. Consistent(base) /\ Registered(base) /\ base.old = {} /\ base.version \in Nat
      BY <1>1, <1>2 DEF UpgradingSchema, At
    <2>2. base.version <= 2
      BY <1>1, <2>1, MigrationAssumption DEF Newer, CurrentProject
    <2> HIDE DEF base
    <2>3. CASE base.version # 0
      BY <2>1, <2>2, <2>3
    <2>4. CASE base.version = 0
      <3> DEFINE tables == base.tables \cup {"index"}
      <3>1. base \in [layout : {base.layout}, columns : {base.columns}, version : {base.version},
                    tables : {base.tables}, rows : {base.rows}, old : {base.old}]
        BY <2>1 DEF Consistent, ProjectRecords
      <3>2. tables = {"index"}
        BY <2>1, <2>4 DEF Consistent, TablesOf
      <3> HIDE DEF tables
      <3>3. ASSUME NEW x, x = [base EXCEPT !.tables = tables, !.version = 1]
            PROVE  x \in [layout : {base.layout}, columns : {base.columns}, version : {1},
                          tables : {tables}, rows : {base.rows}, old : {base.old}]
        BY <3>1, <3>3
      <3>4. new = [base EXCEPT !.tables = tables, !.version = 1]
        BY <2>4, <3>1 DEF tables
      <3> HIDE DEF new
      <3>5. /\ new \in ProjectRecords /\ new.version = 1 /\ new.tables = {"index"}
            /\ Registered(new) /\ new.rows = base.rows /\ new.old = {}
        BY <2>1, <3>2, <3>3, <3>4 DEF Consistent, ProjectRecords, Registered
      <3> QED BY <3>5, MigrationAssumption DEF Consistent, TablesOf
    <2> QED BY <2>3, <2>4
  <1> HIDE DEF new
  <1> QED BY <1>1, <1>2, SchemaStep

LEMMA CreateCacheKeeps == ASSUME MigrationInv, NEW o \in Openers, CreateCache(o) PROVE MigrationInv'
  <1> DEFINE base == opener[o].db
             new == IF base.version # 1 THEN base
                    ELSE [base EXCEPT !.tables = @ \cup {"cache"}, !.version = 2]
  <1>1. At(o, "schema", 3) /\ Advance(o, new)
    BY DEF CreateCache
  <1>2. ASSUME UpgradingSchema(opener[o])
        PROVE  Consistent(new) /\ Registered(new) /\ new.rows = base.rows /\ new.old = {}
               /\ new.version = 2
    <2>1. Consistent(base) /\ Registered(base) /\ base.old = {} /\ base.version \in {1, 2}
      BY <1>1, <1>2 DEF UpgradingSchema, At
    <2> HIDE DEF base
    <2>2. CASE base.version # 1
      BY <2>1, <2>2
    <2>3. CASE base.version = 1
      <3> DEFINE tables == base.tables \cup {"cache"}
      <3>1. base \in [layout : {base.layout}, columns : {base.columns}, version : {base.version},
                    tables : {base.tables}, rows : {base.rows}, old : {base.old}]
        BY <2>1 DEF Consistent, ProjectRecords
      <3>2. tables = {"index", "cache"}
        BY <2>1, <2>3, MigrationAssumption DEF Consistent, TablesOf
      <3> HIDE DEF tables
      <3>3. ASSUME NEW x, x = [base EXCEPT !.tables = tables, !.version = 2]
            PROVE  x \in [layout : {base.layout}, columns : {base.columns}, version : {2},
                          tables : {tables}, rows : {base.rows}, old : {base.old}]
        BY <3>1, <3>3
      <3>4. new = [base EXCEPT !.tables = tables, !.version = 2]
        BY <2>3, <3>1 DEF tables
      <3> HIDE DEF new
      <3>5. /\ new \in ProjectRecords /\ new.version = 2 /\ new.tables = {"index", "cache"}
            /\ Registered(new) /\ new.rows = base.rows /\ new.old = {}
        BY <2>1, <3>2, <3>3, <3>4 DEF Consistent, ProjectRecords, Registered
      <3> QED BY <3>5, MigrationAssumption DEF Consistent, TablesOf
    <2> QED BY <2>2, <2>3
  <1> HIDE DEF new
  <1> QED BY <1>1, <1>2, SchemaStep

LEMMA CommitSchemaKeeps ==
    ASSUME MigrationInv, NEW o \in Openers, CommitSchema(o)
    PROVE  MigrationInv' /\ facts' = facts /\ project'.rows = project.rows
  <1> DEFINE base == opener[o].db
  <1>1. /\ opener[o] # None /\ opener[o].file = "schema"
        /\ project' = base /\ UNCHANGED facts
        /\ opener' = [opener EXCEPT ![o] = None]
    BY DEF CommitSchema, At
  <1>2. OpenersKept' /\ opener'[o] = None /\ \A p \in Openers : p # o => opener'[p] = opener[p]
    BY <1>1, EndStep DEF MigrationInv
  <1>3. Consistent(base) /\ base.rows = project.rows /\ Registered(base) /\ base.old = {}
    BY <1>1 DEF MigrationInv, ProjectKept, UpgradingSchema
  <1> HIDE DEF base
  <1>4. \A p \in Openers : opener'[p] # None => opener'[p].file \notin {"files", "schema"}
    BY <1>1, <1>2 DEF MigrationInv, OpenersKept
  <1>5. ProjectKept'
    BY <1>1, <1>3, <1>4 DEF ProjectKept, Consistent, Registered
  <1>6. FactsKept'
    BY <1>1, <1>2, FactsStay DEF MigrationInv
  <1> QED BY <1>1, <1>2, <1>3, <1>5, <1>6 DEF MigrationInv

LEMMA MigrationInvNext == MigrationInv /\ [MigrationNext]_migrationVars => MigrationInv'
  <1> SUFFICES ASSUME MigrationInv, [MigrationNext]_migrationVars PROVE MigrationInv'
    OBVIOUS
  <1>1. CASE UNCHANGED migrationVars
    <2>1. UNCHANGED facts /\ UNCHANGED project /\ UNCHANGED opener
      BY <1>1 DEF migrationVars
    <2> QED BY <2>1 DEF MigrationInv, OpenersKept, FactsKept, UpgradingFacts, ProjectKept,
                        UpgradingFiles, UpgradingSchema
  <1>2. ASSUME NEW o \in Openers,
               \/ BeginFacts(o) \/ MigrateFacts(o) \/ CommitFacts(o)
               \/ BeginFiles(o) \/ SetAside(o) \/ MoveRow(o) \/ CommitFiles(o)
               \/ BeginSchema(o) \/ AddVersion(o) \/ CreateIndex(o) \/ CreateCache(o)
               \/ CommitSchema(o) \/ AbortOpening(o)
        PROVE  MigrationInv'
    BY <1>2, BeginFactsKeeps, MigrateFactsKeeps, CommitFactsKeeps, BeginFilesKeeps, SetAsideKeeps,
       MoveRowKeeps, CommitFilesKeeps, BeginSchemaKeeps, AddVersionKeeps, CreateIndexKeeps,
       CreateCacheKeeps, CommitSchemaKeeps, AbortKeeps
  <1> QED BY <1>1, <1>2 DEF MigrationNext

\* What changes a database: the end of a transaction.
LEMMA UpgradeStep ==
    ASSUME MigrationInv, [MigrationNext]_migrationVars
    PROVE  /\ facts' # facts =>
                /\ facts'.version = Current /\ facts'.shape = Fresh
                /\ facts'.symbols = facts.symbols /\ facts'.children = facts.children
                /\ facts'.entries = IF facts.version < Current THEN {} ELSE facts.entries
           /\ project'.rows = project.rows
  <1>1. CASE UNCHANGED <<facts, project>>
    BY <1>1
  <1>2. ASSUME NEW o \in Openers, CommitFacts(o) \/ CommitFiles(o) \/ CommitSchema(o)
        PROVE  /\ facts' # facts =>
                    /\ facts'.version = Current /\ facts'.shape = Fresh
                    /\ facts'.symbols = facts.symbols /\ facts'.children = facts.children
                    /\ facts'.entries = IF facts.version < Current THEN {} ELSE facts.entries
               /\ project'.rows = project.rows
    BY <1>2, CommitFactsKeeps, CommitFilesKeeps, CommitSchemaKeeps
  <1>3. ASSUME NEW o \in Openers,
               \/ BeginFacts(o) \/ MigrateFacts(o) \/ BeginFiles(o) \/ SetAside(o) \/ MoveRow(o)
               \/ BeginSchema(o) \/ AddVersion(o) \/ CreateIndex(o) \/ CreateCache(o)
               \/ AbortOpening(o)
        PROVE  UNCHANGED <<facts, project>>
    BY <1>3 DEF BeginFacts, MigrateFacts, BeginFiles, SetAside, MoveRow, BeginSchema, AddVersion,
                CreateIndex, CreateCache, AbortOpening, BeginWrite, Advance
  <1> QED BY <1>1, <1>2, <1>3 DEF MigrationNext, migrationVars

(* Whatever version a facts database had and whoever is killed on the way, an
   upgrade ends with the schema of a new store and with the rows of the old
   one, and the ids of registered files stay with their places: every step of
   both migrations, in their order, one committed transaction at a time. *)
THEOREM UpgradesAreWhole == MigrationSpec => UpgradesWhole
  <1>1. MigrationInv /\ [MigrationNext]_migrationVars =>
          [/\ facts' # facts =>
                /\ facts'.version = Current /\ facts'.shape = Fresh
                /\ facts'.symbols = facts.symbols /\ facts'.children = facts.children
                /\ facts'.entries = IF facts.version < Current THEN {} ELSE facts.entries
           /\ project'.rows = project.rows]_migrationVars
    BY UpgradeStep
  <1> QED BY <1>1, MigrationInvInit, MigrationInvNext, PTL DEF MigrationSpec, UpgradesWhole

(* A project that readers take for current has all its columns and tables,
   although they come in two transactions that other processes interleave. *)
THEOREM CurrentIsComplete == MigrationSpec => []ReadersFindCurrent
  <1>1. MigrationInv => ReadersFindCurrent
    <2> SUFFICES ASSUME MigrationInv PROVE ReadersFindCurrent
      OBVIOUS
    <2>1. Consistent(project) /\ project.old = {}
      BY DEF MigrationInv, ProjectKept
    <2> QED BY <2>1 DEF ReadersFindCurrent, CurrentRegistry, CurrentProject, Consistent, Registered
  <1> QED BY <1>1, MigrationInvInit, MigrationInvNext, PTL DEF MigrationSpec

-----------------------------------------------------------------------------
(* The facts of a database: the invariant                                  *)

StoreFields == {"symbol", "definition", "next", "relation", "site", "external",
                "entry", "given", "parsed"}
FileIdsOfStore == Units \cup {Header}

StoreRecord(d) ==
    /\ DOMAIN d = StoreFields
    /\ d.symbol \in [Functions -> SymbolRows \cup {None}]
    /\ d.definition \in [Functions -> Units \cup {None}]
    /\ d.next \in [FileIdsOfStore -> Nat]
    /\ DOMAIN d.parsed = Units
    /\ \A s \in d.site : s.from \in Functions /\ s.to \in Functions

\* Ids were taken from the sequence of their file, and no two symbols share one.
IdsTaken(d) ==
    /\ \A u \in Functions : d.symbol[u] # None =>
          d.symbol[u].id[2] < d.next[d.symbol[u].id[1]]
    /\ \A u, v \in Functions :
          /\ d.symbol[u] # None /\ d.symbol[v] # None
          /\ d.symbol[u].id = d.symbol[v].id
          => u = v

\* An id that was committed once is below the next one, and still denotes
\* the symbol that it denoted, if it denotes any.
GivenKept(d) ==
    /\ \A x \in d.given :
          /\ x = <<x[1], x[2]>> /\ x[1] \in FileIdsOfStore \X Nat /\ x[2] \in Functions
          /\ x[1][2] < d.next[x[1][1]]
    /\ \A x \in d.given, u \in Functions :
          d.symbol[u] # None /\ d.symbol[u].id = x[1] => u = x[2]
    /\ \A x, y \in d.given : x[1] = y[1] => x[2] = y[2]

\* Definitions are those of symbols, and what is marked as defined has one.
DefinitionsMarked(d) ==
    \A u \in Functions :
        /\ d.definition[u] # None => d.symbol[u] # None
        /\ d.symbol[u] # None /\ d.definition[u] = None => ~d.symbol[u].defined

SitesCounted(d) == \A p \in DOMAIN d.relation : d.relation[p] = Cardinality(SitesOf(d, p))

OnlyExternal(d) == \A s \in d.external : s \in d.site /\ d.definition[s.to] = None

CallsFrom(d, u) == {s \in d.site : s.kind = "calls" /\ s.from = u}

EntryExact(d, u) ==
    /\ u \in Functions /\ d.definition[u] \in Units
    /\ CallsFrom(d, u) = References(d.parsed[d.definition[u]], d.definition[u], u, "calls")

StoreFits(d) ==
    /\ StoreRecord(d) /\ IdsTaken(d) /\ GivenKept(d) /\ DefinitionsMarked(d)
    /\ SitesCounted(d) /\ OnlyExternal(d)
    /\ \A u \in d.entry : EntryExact(d, u)

\* Both records of a definition agree: what the commit establishes.
BothRecords(d) ==
    \A u \in Functions : d.symbol[u] # None => (d.symbol[u].defined <=> d.definition[u] # None)

\* A run has visited the units of its entries, and seen what they call.
RunFits(r) ==
    /\ DOMAIN r = {"todo", "old", "seen", "work"}
    /\ r.todo \in SUBSET Units /\ StoreFits(r.work)
    /\ \A u \in r.work.entry :
          /\ r.work.definition[u] \notin r.todo
          /\ \A s \in CallsFrom(r.work, u) : s.to \in r.seen

StoreInv ==
    /\ text \in [Units -> Texts]
    /\ StoreFits(db) /\ BothRecords(db)
    /\ refresh # None => RunFits(refresh)

-----------------------------------------------------------------------------
(* The facts of a database: one symbol *)

LEMMA TextRead ==
    ASSUME NEW t \in Texts
    PROVE  /\ Declares(t) \subseteq Functions /\ Defines(t) \subseteq Declares(t)
           /\ \A u \in Declares(t) : t[u] # None /\ t[u].line \in Lines
           /\ \A u \in Defines(t) : t[u].body # None
           /\ \A u \in Declares(t) \ Defines(t) : t[u].body = None
           /\ \A u \in Defines(t) : \A r \in t[u].body : r[2] \in Declares(t)
  <1>1. ASSUME NEW u \in Declares(t) PROVE t[u] # None /\ t[u].line \in Lines
    <2>1. u \in Functions /\ t[u] # None
      BY <1>1 DEF Declares
    <2> DEFINE x == <<t, u>>
    <2>2. x \in {y \in Texts \X Functions : y[1][y[2]] # None} /\ x[1][x[2]].line = t[u].line
      BY <2>1
    <2> QED BY <2>1, <2>2 DEF Lines
  <1>2. ASSUME NEW u \in Defines(t), NEW r \in t[u].body PROVE r[2] \in Declares(t)
    BY TextAssumption DEF Defines, Declares
  <1> QED BY <1>1, <1>2 DEF Declares, Defines

LEMMA RowRead ==
    ASSUME NEW d, StoreRecord(d), NEW u \in Functions, d.symbol[u] # None
    PROVE  /\ d.symbol[u] \in SymbolRows
           /\ d.symbol[u].id \in FileIdsOfStore \X Nat
           /\ d.symbol[u].id = <<d.symbol[u].id[1], d.symbol[u].id[2]>>
           /\ d.symbol[u].id[1] \in FileIdsOfStore /\ d.symbol[u].id[2] \in Nat
           /\ d.symbol[u].line \in Lines /\ d.symbol[u].defined \in BOOLEAN
           /\ d.next[d.symbol[u].id[1]] \in Nat
  <1>1. d.symbol[u] \in SymbolRows
    BY DEF StoreRecord
  <1>2. /\ d.symbol[u].id \in FileIdsOfStore \X Nat
        /\ d.symbol[u].line \in Lines /\ d.symbol[u].defined \in BOOLEAN
    BY <1>1 DEF SymbolRows, FileIdsOfStore
  <1>3. /\ d.symbol[u].id = <<d.symbol[u].id[1], d.symbol[u].id[2]>>
        /\ d.symbol[u].id[1] \in FileIdsOfStore /\ d.symbol[u].id[2] \in Nat
    BY <1>2
  <1> QED BY <1>1, <1>2, <1>3 DEF StoreRecord

-----------------------------------------------------------------------------
(* The facts of a database: the symbols of a unit *)

\* What Save does to each field.
Saved(d, us, t, unit, number, d2) ==
    /\ DOMAIN d2 = StoreFields
    /\ d2.symbol = [u \in Functions |->
          IF u \in us THEN SymbolRow(d, u, t[u], DeclaredIn(u, unit), number) ELSE d.symbol[u]]
    /\ d2.next = [home \in FileIdsOfStore |->
          IF Unknown(d, us, unit, home) = {} THEN d.next[home]
          ELSE d.next[home] + Cardinality(Unknown(d, us, unit, home))]
    /\ d2.definition = [u \in Functions |->
          IF u \in us THEN DefinitionRow(d, u, t[u], unit) ELSE d.definition[u]]
    /\ d2.external = {s \in d.external : s.to \notin us}
    /\ d2.site = d.site /\ d2.relation = d.relation /\ d2.entry = d.entry
    /\ d2.given = d.given /\ d2.parsed = d.parsed

LEMMA SaveFields ==
    ASSUME NEW d, StoreRecord(d), NEW us, NEW t, NEW unit, NEW number
    PROVE  Saved(d, us, t, unit, number, Save(d, us, t, unit, number))
  BY DEF Saved, Save, StoreRecord, StoreFields, Allocate, ReferencesKept

\* The row of a symbol that the unit declares: the one it had, perhaps marked
\* as defined now, or a new one with the next id of its file.
LEMMA SymbolRowIs ==
    ASSUME NEW d, StoreRecord(d), NEW t \in Texts, NEW unit \in Units,
           NEW number \in Numberings(d, Declares(t), unit),
           NEW d2, Saved(d, Declares(t), t, unit, number, d2), NEW u \in Declares(t)
    PROVE  LET row == d2.symbol[u] IN
           /\ row \in SymbolRows
           /\ d.symbol[u] # None =>
                /\ row.id = d.symbol[u].id
                /\ row.defined <=> (d.symbol[u].defined \/ t[u].body # None)
           /\ d.symbol[u] = None =>
                /\ row.id = <<DeclaredIn(u, unit), d.next[DeclaredIn(u, unit)] + number[u]>>
                /\ row.defined <=> t[u].body # None
                /\ u \in Unknown(d, Declares(t), unit, DeclaredIn(u, unit))
                /\ number[u] \in Nat
                /\ number[u] < Cardinality(Unknown(d, Declares(t), unit, DeclaredIn(u, unit)))
  <1> DEFINE row == d2.symbol[u]
  <1>0. u \in Functions /\ t[u].line \in Lines /\ DeclaredIn(u, unit) \in FileIdsOfStore
    BY TextRead DEF DeclaredIn, FileIdsOfStore
  <1>r. row = SymbolRow(d, u, t[u], DeclaredIn(u, unit), number)
    BY <1>0 DEF Saved
  <1> HIDE DEF row
  <1>1. PICK b \in BOOLEAN : b = (t[u].body # None)
    OBVIOUS
  <1>2. CASE d.symbol[u] # None
    <2>1. d.symbol[u] \in SymbolRows /\ d.symbol[u].defined \in BOOLEAN
      BY <1>0, <1>2, RowRead
    <2>2. PICK c \in BOOLEAN : c = (d.symbol[u].defined \/ t[u].body # None)
      OBVIOUS
    <2>3. row = [d.symbol[u] EXCEPT !.defined = c]
      BY <1>2, <1>r, <2>2 DEF SymbolRow
    <2>4. row \in SymbolRows /\ row.id = d.symbol[u].id /\ row.defined = c
      BY <2>1, <2>2, <2>3 DEF SymbolRows
    <2> QED BY <1>2, <2>2, <2>4 DEF row
  <1>3. CASE d.symbol[u] = None
    <2>1. u \in {v \in Declares(t) : d.symbol[v] = None}
      BY <1>3
    <2>2. u \in Unknown(d, Declares(t), unit, DeclaredIn(u, unit))
      BY <1>3 DEF Unknown
    <2>3. /\ number[u] \in 0..Cardinality({v \in Declares(t) : d.symbol[v] = None})
          /\ number[u] < Cardinality(Unknown(d, Declares(t), unit, DeclaredIn(u, unit)))
      BY <2>1 DEF Numberings
    <2>4. row = [id |-> <<DeclaredIn(u, unit), d.next[DeclaredIn(u, unit)] + number[u]>>,
                 line |-> t[u].line, defined |-> b]
      BY <1>1, <1>3, <1>r DEF SymbolRow, Allocate
    <2>5. number[u] \in Nat
      BY <2>3
    <2>6. d.next[DeclaredIn(u, unit)] + number[u] \in Nat
      BY <1>0, <2>5 DEF StoreRecord
    <2>7. row \in SymbolRows
      BY <1>0, <1>1, <2>4, <2>6 DEF SymbolRows, FileIdsOfStore
    <2>8. /\ row.id = <<DeclaredIn(u, unit), d.next[DeclaredIn(u, unit)] + number[u]>>
          /\ row.defined = b
      BY <2>4
    <2> QED BY <1>1, <1>3, <2>2, <2>3, <2>5, <2>7, <2>8 DEF row
  <1> QED BY <1>2, <1>3

LEMMA UnknownIsFinite ==
    ASSUME NEW d, NEW t \in Texts, NEW unit, NEW home
    PROVE  /\ IsFiniteSet(Unknown(d, Declares(t), unit, home))
           /\ Cardinality(Unknown(d, Declares(t), unit, home)) \in Nat
  <1>1. Unknown(d, Declares(t), unit, home) \subseteq Functions
    BY TextRead DEF Unknown
  <1>2. IsFiniteSet(Unknown(d, Declares(t), unit, home))
    BY <1>1, FS_Subset, TextAssumption
  <1> QED BY <1>2, FS_CardinalityType

LEMMA SaveRecord ==
    ASSUME NEW d, StoreRecord(d), NEW t \in Texts, NEW unit \in Units,
           NEW number \in Numberings(d, Declares(t), unit),
           NEW d2, Saved(d, Declares(t), t, unit, number, d2)
    PROVE  /\ StoreRecord(d2)
           /\ \A home \in FileIdsOfStore : d.next[home] <= d2.next[home]
  <1>1. ASSUME NEW u \in Functions
        PROVE  d2.symbol[u] \in SymbolRows \cup {None} /\ d2.definition[u] \in Units \cup {None}
    <2>1. CASE u \in Declares(t)
      <3>1. d2.symbol[u] \in SymbolRows
        BY <2>1, SymbolRowIs
      <3>2. d2.definition[u] = DefinitionRow(d, u, t[u], unit)
        BY <2>1 DEF Saved
      <3> QED BY <3>1, <3>2 DEF DefinitionRow, StoreRecord
    <2>2. CASE u \notin Declares(t)
      BY <2>2 DEF StoreRecord, Saved
    <2> QED BY <2>1, <2>2
  <1>2. ASSUME NEW home \in FileIdsOfStore
        PROVE  d2.next[home] \in Nat /\ d.next[home] <= d2.next[home]
    <2>1. d.next[home] \in Nat
      BY DEF StoreRecord
    <2>2. Cardinality(Unknown(d, Declares(t), unit, home)) \in Nat
      BY UnknownIsFinite
    <2>3. d2.next[home] = IF Unknown(d, Declares(t), unit, home) = {} THEN d.next[home]
                 ELSE d.next[home] + Cardinality(Unknown(d, Declares(t), unit, home))
      BY DEF Saved
    <2> QED BY <2>1, <2>2, <2>3
  <1>3. /\ DOMAIN d2 = StoreFields /\ d2.parsed = d.parsed /\ d2.site = d.site
        /\ d2.symbol = [u \in Functions |-> d2.symbol[u]]
        /\ d2.definition = [u \in Functions |-> d2.definition[u]]
        /\ d2.next = [home \in FileIdsOfStore |-> d2.next[home]]
    BY DEF Saved
  <1>4. d2.symbol \in [Functions -> SymbolRows \cup {None}]
    BY <1>1, <1>3
  <1>5. d2.definition \in [Functions -> Units \cup {None}]
    BY <1>1, <1>3
  <1>6. d2.next \in [FileIdsOfStore -> Nat]
    BY <1>2, <1>3
  <1> QED BY <1>2, <1>3, <1>4, <1>5, <1>6 DEF StoreRecord

\* A symbol has the id that it had, or one that was not given to any other.
LEMMA SaveIds ==
    ASSUME NEW d, StoreRecord(d), IdsTaken(d), NEW t \in Texts, NEW unit \in Units,
           NEW number \in Numberings(d, Declares(t), unit),
           NEW d2, Saved(d, Declares(t), t, unit, number, d2),
           NEW u \in Functions, d2.symbol[u] # None
    PROVE  /\ d2.symbol[u].id[2] < d2.next[d2.symbol[u].id[1]]
           /\ d.symbol[u] # None => d2.symbol[u].id = d.symbol[u].id
           /\ d.symbol[u] = None =>
                /\ u \in Declares(t)
                /\ u \in Unknown(d, Declares(t), unit, DeclaredIn(u, unit))
                /\ number[u] \in Nat
                /\ d2.symbol[u].id = <<DeclaredIn(u, unit), d.next[DeclaredIn(u, unit)] + number[u]>>
                /\ DeclaredIn(u, unit) \in FileIdsOfStore
                /\ d2.symbol[u].id[2] >= d.next[d2.symbol[u].id[1]]
  <1>0. StoreRecord(d2)
    BY SaveRecord
  <1>1. CASE d.symbol[u] # None
    <2>1. d2.symbol[u].id = d.symbol[u].id
      <3>1. CASE u \in Declares(t)
        BY <1>1, <3>1, SymbolRowIs
      <3>2. CASE u \notin Declares(t)
        BY <3>2 DEF Saved
      <3> QED BY <3>1, <3>2
    <2>2. d.symbol[u].id[1] \in FileIdsOfStore /\ d.symbol[u].id[2] \in Nat
      BY <1>1, RowRead
    <2>3. d.symbol[u].id[2] < d.next[d.symbol[u].id[1]]
      BY <1>1 DEF IdsTaken
    <2>4. d.next[d.symbol[u].id[1]] <= d2.next[d.symbol[u].id[1]]
      BY <2>2, SaveRecord
    <2>5. d.next[d.symbol[u].id[1]] \in Nat /\ d2.next[d.symbol[u].id[1]] \in Nat
      BY <1>0, <2>2 DEF StoreRecord
    <2> QED BY <1>1, <2>1, <2>2, <2>3, <2>4, <2>5
  <1>2. CASE d.symbol[u] = None
    <2>1. u \in Declares(t)
      BY <1>2 DEF Saved
    <2> DEFINE home == DeclaredIn(u, unit)
               fresh == Unknown(d, Declares(t), unit, home)
    <2>2. /\ d2.symbol[u].id = <<home, d.next[home] + number[u]>>
          /\ u \in fresh /\ number[u] \in Nat /\ number[u] < Cardinality(fresh)
      BY <1>2, <2>1, SymbolRowIs
    <2>3. home \in FileIdsOfStore
      BY DEF DeclaredIn, FileIdsOfStore
    <2>4. d.next[home] \in Nat /\ Cardinality(fresh) \in Nat
      BY <2>3, UnknownIsFinite DEF StoreRecord
    <2>5. d2.next[home] = d.next[home] + Cardinality(fresh)
      BY <2>2, <2>3 DEF Saved
    <2>6. d2.symbol[u].id[1] = home /\ d2.symbol[u].id[2] = d.next[home] + number[u]
      BY <2>2
    <2> HIDE DEF home, fresh
    <2>7. d2.symbol[u].id[2] < d2.next[home] /\ d2.symbol[u].id[2] >= d.next[home]
      BY <2>2, <2>4, <2>5, <2>6
    <2> QED BY <1>2, <2>1, <2>2, <2>3, <2>6, <2>7 DEF home, fresh
  <1> QED BY <1>1, <1>2

LEMMA SaveKeepsIds ==
    ASSUME NEW d, StoreRecord(d), IdsTaken(d), GivenKept(d), NEW t \in Texts, NEW unit \in Units,
           NEW number \in Numberings(d, Declares(t), unit),
           NEW d2, Saved(d, Declares(t), t, unit, number, d2)
    PROVE  IdsTaken(d2) /\ GivenKept(d2)
  <1>0. StoreRecord(d2)
    BY SaveRecord
  <1>1. ASSUME NEW u \in Functions, NEW v \in Functions,
               d2.symbol[u] # None, d2.symbol[v] # None, d2.symbol[u].id = d2.symbol[v].id
        PROVE  u = v
    <2>1. CASE d.symbol[u] # None /\ d.symbol[v] # None
      BY <1>1, <2>1, SaveIds DEF IdsTaken
    <2>2. CASE d.symbol[u] = None /\ d.symbol[v] = None
      <3>1. /\ d2.symbol[u].id = <<DeclaredIn(u, unit), d.next[DeclaredIn(u, unit)] + number[u]>>
            /\ d2.symbol[v].id = <<DeclaredIn(v, unit), d.next[DeclaredIn(v, unit)] + number[v]>>
            /\ u \in Declares(t) /\ number[u] \in Nat /\ number[v] \in Nat
            /\ DeclaredIn(u, unit) \in FileIdsOfStore
            /\ v \in Unknown(d, Declares(t), unit, DeclaredIn(v, unit))
        BY <1>1, <2>2, SaveIds
      <3> DEFINE hu == DeclaredIn(u, unit)
                 hv == DeclaredIn(v, unit)
                 nu == d.next[hu] + number[u]
                 nv == d.next[hv] + number[v]
      <3>e. <<hu, nu>> = <<hv, nv>>
        BY <1>1, <3>1
      <3> HIDE DEF hu, hv, nu, nv
      <3>s. hu = hv /\ nu = nv
        BY <3>e
      <3> USE DEF hu, hv, nu, nv
      <3>2. DeclaredIn(u, unit) = DeclaredIn(v, unit)
        BY <3>s
      <3>3. d.next[DeclaredIn(u, unit)] \in Nat
        BY <3>1 DEF StoreRecord
      <3>4. d.next[DeclaredIn(u, unit)] + number[u] = d.next[DeclaredIn(u, unit)] + number[v]
        BY <3>s
      <3>5. number[u] = number[v]
        BY <3>1, <3>3, <3>4
      <3>6. u \in {w \in Declares(t) : d.symbol[w] = None}
        BY <2>2, <3>1
      <3> QED BY <3>1, <3>2, <3>5, <3>6 DEF Numberings
    <2>3. ASSUME NEW x \in Functions, NEW y \in Functions, d2.symbol[x] # None, d2.symbol[y] # None,
                 d.symbol[x] # None, d.symbol[y] = None
          PROVE  d2.symbol[x].id # d2.symbol[y].id
      <3>1. /\ d2.symbol[x].id = d.symbol[x].id
            /\ d2.symbol[y].id[2] >= d.next[d2.symbol[y].id[1]]
        BY <2>3, SaveIds
      <3>2. d.symbol[x].id[2] < d.next[d.symbol[x].id[1]]
        BY <2>3 DEF IdsTaken
      <3>3. d.symbol[x].id[2] \in Nat /\ d.next[d.symbol[x].id[1]] \in Nat
        BY <2>3, RowRead
      <3> QED BY <3>1, <3>2, <3>3
    <2> QED BY <1>1, <2>1, <2>2, <2>3
  <1>2. IdsTaken(d2)
    <2>1. ASSUME NEW u \in Functions, d2.symbol[u] # None
          PROVE  d2.symbol[u].id[2] < d2.next[d2.symbol[u].id[1]]
      BY <2>1, SaveIds
    <2> QED BY <1>1, <2>1 DEF IdsTaken
  <1>3. d2.given = d.given
    BY DEF Saved
  <1>4. ASSUME NEW x \in d.given
        PROVE  /\ x = <<x[1], x[2]>> /\ x[1] \in FileIdsOfStore \X Nat /\ x[2] \in Functions
               /\ x[1][1] \in FileIdsOfStore /\ x[1][2] \in Nat
               /\ x[1][2] < d.next[x[1][1]] /\ x[1][2] < d2.next[x[1][1]]
    <2>1. /\ x = <<x[1], x[2]>> /\ x[1] \in FileIdsOfStore \X Nat /\ x[2] \in Functions
          /\ x[1][2] < d.next[x[1][1]]
      BY DEF GivenKept
    <2>2. x[1][1] \in FileIdsOfStore /\ x[1][2] \in Nat
      BY <2>1
    <2>3. d.next[x[1][1]] <= d2.next[x[1][1]]
      BY <2>2, SaveRecord
    <2>4. d.next[x[1][1]] \in Nat /\ d2.next[x[1][1]] \in Nat
      BY <1>0, <2>2 DEF StoreRecord
    <2> QED BY <2>1, <2>2, <2>3, <2>4
  <1>5. ASSUME NEW x \in d.given, NEW u \in Functions, d2.symbol[u] # None, d2.symbol[u].id = x[1]
        PROVE  u = x[2]
    <2>1. CASE d.symbol[u] # None
      BY <1>5, <2>1, SaveIds DEF GivenKept
    <2>2. CASE d.symbol[u] = None
      <3>1. d2.symbol[u].id[2] >= d.next[d2.symbol[u].id[1]]
        BY <1>5, <2>2, SaveIds
      <3>2. d.next[x[1][1]] \in Nat
        BY <1>4 DEF StoreRecord
      <3> QED BY <1>4, <1>5, <3>1, <3>2
    <2> QED BY <2>1, <2>2
  <1>6. \A x, y \in d.given : x[1] = y[1] => x[2] = y[2]
    BY DEF GivenKept
  <1>7. GivenKept(d2)
    BY <1>3, <1>4, <1>5, <1>6 DEF GivenKept
  <1> QED BY <1>2, <1>7

LEMMA SaveKeepsMarks ==
    ASSUME NEW d, StoreRecord(d), DefinitionsMarked(d), NEW t \in Texts, NEW unit \in Units,
           NEW number \in Numberings(d, Declares(t), unit),
           NEW d2, Saved(d, Declares(t), t, unit, number, d2)
    PROVE  /\ DefinitionsMarked(d2)
           /\ \A u \in Defines(t) : d2.definition[u] = unit
           /\ \A u \in Functions \ Defines(t) : d2.definition[u] = d.definition[u]
  <1>1. ASSUME NEW u \in Defines(t)
        PROVE  u \in Declares(t) /\ u \in Functions /\ d2.definition[u] = unit
    BY TextRead DEF Saved, DefinitionRow
  <1>2. ASSUME NEW u \in Functions \ Defines(t)
        PROVE  d2.definition[u] = d.definition[u]
    BY TextRead DEF Saved, DefinitionRow
  <1>3. ASSUME NEW u \in Functions
        PROVE  /\ d2.definition[u] # None => d2.symbol[u] # None
               /\ d2.symbol[u] # None /\ d2.definition[u] = None => ~d2.symbol[u].defined
    <2>1. CASE u \in Defines(t)
      <3>1. d2.symbol[u] \in SymbolRows
        BY <1>1, <2>1, SymbolRowIs
      <3>2. d2.definition[u] # None
        BY <1>1, <2>1, TextAssumption
      <3> QED BY <3>1, <3>2, TextAssumption
    <2>2. CASE u \in Declares(t) /\ u \notin Defines(t)
      <3>1. t[u].body = None
        BY <2>2, TextRead
      <3>2. /\ d2.symbol[u] \in SymbolRows
            /\ d.symbol[u] # None => (d2.symbol[u].defined <=> d.symbol[u].defined)
            /\ d.symbol[u] = None => ~d2.symbol[u].defined
        BY <2>2, <3>1, SymbolRowIs
      <3>3. d2.symbol[u] # None
        BY <3>2, TextAssumption
      <3>4. d2.definition[u] = d.definition[u]
        BY <1>2, <2>2
      <3>5. d.symbol[u] # None /\ d.definition[u] = None => ~d.symbol[u].defined
        BY DEF DefinitionsMarked
      <3> QED BY <3>2, <3>3, <3>4, <3>5
    <2>3. CASE u \notin Declares(t)
      <3>1. d2.symbol[u] = d.symbol[u]
        BY <2>3 DEF Saved
      <3>2. d2.definition[u] = d.definition[u]
        BY <1>2, <2>3, TextRead
      <3> QED BY <3>1, <3>2 DEF DefinitionsMarked
    <2> QED BY <2>1, <2>2, <2>3
  <1> QED BY <1>1, <1>2, <1>3 DEF DefinitionsMarked

LEMMA SaveKeepsRelations ==
    ASSUME NEW d, StoreRecord(d), SitesCounted(d), OnlyExternal(d), NEW t \in Texts, NEW unit \in Units, NEW number,
           NEW d2, Saved(d, Declares(t), t, unit, number, d2)
    PROVE  SitesCounted(d2) /\ OnlyExternal(d2)
  <1>1. \A p : SitesOf(d2, p) = SitesOf(d, p)
    BY DEF SitesOf, Saved
  <1>2. SitesCounted(d2)
    BY <1>1 DEF SitesCounted, Saved
  <1>3. ASSUME NEW s \in d2.external PROVE s \in d2.site /\ d2.definition[s.to] = None
    <2>1. s \in d.external /\ s.to \notin Declares(t)
      BY <1>3 DEF Saved
    <2>2. s \in d.site /\ s.to \in Functions /\ d.definition[s.to] = None
      BY <2>1 DEF OnlyExternal, StoreRecord
    <2> QED BY <2>1, <2>2 DEF Saved
  <1> QED BY <1>2, <1>3 DEF OnlyExternal

-----------------------------------------------------------------------------
(* The facts of a database: relations and their sites *)

\* What each operation on sites leaves alone.
SameSymbols(d, d2) ==
    /\ DOMAIN d2 = StoreFields
    /\ d2.symbol = d.symbol /\ d2.definition = d.definition /\ d2.next = d.next
    /\ d2.given = d.given /\ d2.parsed = d.parsed

\* Relations with the sites, symbols and entries as they should be.
RelationsFit(d) == StoreRecord(d) /\ SitesCounted(d) /\ OnlyExternal(d)

LEMMA SameSymbolsKeep ==
    ASSUME NEW d, NEW d2, SameSymbols(d, d2)
    PROVE  /\ IdsTaken(d) => IdsTaken(d2)
           /\ GivenKept(d) => GivenKept(d2)
           /\ DefinitionsMarked(d) => DefinitionsMarked(d2)
  BY DEF SameSymbols, IdsTaken, GivenKept, DefinitionsMarked

LEMMA AddSitesFields ==
    ASSUME NEW d, StoreRecord(d), NEW sites
    PROVE  LET d2 == AddSites(d, sites) IN
           /\ SameSymbols(d, d2) /\ d2.entry = d.entry
           /\ d2.site = d.site \cup sites /\ d2.relation = Counts(d, sites)
           /\ d2.external = d.external \cup
                 {s \in d.site \cup sites : s.kind = "calls" /\ d.definition[s.to] = None}
  BY DEF AddSites, SameSymbols, StoreRecord, StoreFields

LEMMA AddSitesFits ==
    ASSUME NEW d, RelationsFit(d), NEW sites,
           \A s \in sites : s.from \in Functions /\ s.to \in Functions
    PROVE  RelationsFit(AddSites(d, sites))
  <1> DEFINE d2 == AddSites(d, sites)
  <1>1. /\ SameSymbols(d, d2) /\ d2.entry = d.entry
        /\ d2.site = d.site \cup sites /\ d2.relation = Counts(d, sites)
        /\ d2.external = d.external \cup
              {s \in d.site \cup sites : s.kind = "calls" /\ d.definition[s.to] = None}
    BY AddSitesFields DEF RelationsFit
  <1> HIDE DEF d2
  <1>2. StoreRecord(d2)
    BY <1>1 DEF StoreRecord, SameSymbols, RelationsFit
  <1>3. OnlyExternal(d2)
    BY <1>1 DEF OnlyExternal, SameSymbols, RelationsFit
  <1>4. ASSUME NEW p \in DOMAIN d2.relation
        PROVE  d2.relation[p] = Cardinality(SitesOf(d2, p))
    <2> DEFINE batch == {Pair(s) : s \in sites}
    <2>1. /\ DOMAIN d2.relation = DOMAIN d.relation \cup batch
          /\ d2.relation[p] = IF p \in batch THEN Cardinality({s \in d.site \cup sites : Pair(s) = p})
                              ELSE d.relation[p]
      BY <1>1, <1>4 DEF Counts
    <2>2. SitesOf(d2, p) = {s \in d.site \cup sites : Pair(s) = p}
      BY <1>1 DEF SitesOf
    <2>3. CASE p \in batch
      BY <2>1, <2>2, <2>3
    <2>4. CASE p \notin batch
      <3>1. SitesOf(d2, p) = SitesOf(d, p)
        BY <2>2, <2>4 DEF SitesOf
      <3>2. p \in DOMAIN d.relation
        BY <1>4, <2>1, <2>4
      <3> QED BY <2>1, <2>4, <3>1, <3>2 DEF SitesCounted, RelationsFit
    <2> QED BY <2>3, <2>4
  <1>5. SitesCounted(d2)
    BY <1>4 DEF SitesCounted
  <1> QED BY <1>2, <1>3, <1>5 DEF RelationsFit, d2

LEMMA ClearCallsFields ==
    ASSUME NEW d, StoreRecord(d), NEW callers
    PROVE  LET d2 == ClearCalls(d, callers)
               gone == {s \in d.site : s.kind = "calls" /\ s.from \in callers}
               kept == {p \in DOMAIN d.relation : p[1] = "calls" => p[2] \notin callers}
           IN
           /\ SameSymbols(d, d2) /\ d2.entry = d.entry \ callers
           /\ d2.site = d.site \ gone /\ d2.external = d.external \ gone
           /\ d2.relation = [p \in kept |-> d.relation[p]]
  BY DEF ClearCalls, SameSymbols, StoreRecord, StoreFields

LEMMA ClearCallsFits ==
    ASSUME NEW d, RelationsFit(d), NEW callers
    PROVE  RelationsFit(ClearCalls(d, callers))
  <1> DEFINE d2 == ClearCalls(d, callers)
             gone == {s \in d.site : s.kind = "calls" /\ s.from \in callers}
             kept == {p \in DOMAIN d.relation : p[1] = "calls" => p[2] \notin callers}
  <1>1. /\ SameSymbols(d, d2) /\ d2.entry = d.entry \ callers
        /\ d2.site = d.site \ gone /\ d2.external = d.external \ gone
        /\ d2.relation = [p \in kept |-> d.relation[p]]
    BY ClearCallsFields DEF RelationsFit
  <1> HIDE DEF d2
  <1>2. StoreRecord(d2)
    BY <1>1 DEF StoreRecord, SameSymbols, RelationsFit
  <1>3. OnlyExternal(d2)
    BY <1>1 DEF OnlyExternal, SameSymbols, RelationsFit
  <1>4. ASSUME NEW p \in DOMAIN d2.relation
        PROVE  d2.relation[p] = Cardinality(SitesOf(d2, p))
    <2>1. p \in kept /\ p \in DOMAIN d.relation /\ d2.relation[p] = d.relation[p]
      BY <1>1, <1>4
    <2>2. ASSUME NEW s \in SitesOf(d, p) PROVE s \notin gone
      <3>1. p[1] = s.kind /\ p[2] = s.from
        BY DEF SitesOf, Pair
      <3> QED BY <2>1, <3>1
    <2>3. SitesOf(d2, p) = SitesOf(d, p)
      BY <1>1, <2>2 DEF SitesOf
    <2> QED BY <2>1, <2>3 DEF SitesCounted, RelationsFit
  <1>5. SitesCounted(d2)
    BY <1>4 DEF SitesCounted
  <1> QED BY <1>2, <1>3, <1>5 DEF RelationsFit, d2

LEMMA WithoutSymbolsFields ==
    ASSUME NEW d, StoreRecord(d), NEW gone
    PROVE  LET d2 == WithoutSymbols(d, gone)
               sites == {s \in d.site : s.from \notin gone /\ s.to \notin gone}
               kept == {p \in DOMAIN d.relation : p[2] \notin gone /\ p[3] \notin gone}
           IN
           /\ DOMAIN d2 = StoreFields
           /\ d2.symbol = [u \in Functions |-> IF u \in gone THEN None ELSE d.symbol[u]]
           /\ d2.definition = [u \in Functions |-> IF u \in gone THEN None ELSE d.definition[u]]
           /\ d2.relation = [p \in kept |-> d.relation[p]]
           /\ d2.site = sites /\ d2.external = d.external \cap sites /\ d2.entry = d.entry \ gone
           /\ d2.next = d.next /\ d2.given = d.given /\ d2.parsed = d.parsed
  BY DEF WithoutSymbols, StoreRecord, StoreFields

LEMMA WithoutSymbolsFits ==
    ASSUME NEW d, RelationsFit(d), NEW gone
    PROVE  RelationsFit(WithoutSymbols(d, gone))
  <1> DEFINE d2 == WithoutSymbols(d, gone)
             sites == {s \in d.site : s.from \notin gone /\ s.to \notin gone}
             kept == {p \in DOMAIN d.relation : p[2] \notin gone /\ p[3] \notin gone}
  <1>1. /\ DOMAIN d2 = StoreFields
        /\ d2.symbol = [u \in Functions |-> IF u \in gone THEN None ELSE d.symbol[u]]
        /\ d2.definition = [u \in Functions |-> IF u \in gone THEN None ELSE d.definition[u]]
        /\ d2.relation = [p \in kept |-> d.relation[p]]
        /\ d2.site = sites /\ d2.external = d.external \cap sites
        /\ d2.next = d.next /\ d2.parsed = d.parsed
    BY DEF WithoutSymbols, StoreRecord, StoreFields, RelationsFit
  <1> HIDE DEF d2
  <1>2. StoreRecord(d2)
    BY <1>1 DEF StoreRecord, RelationsFit
  <1>3. OnlyExternal(d2)
    <2>1. ASSUME NEW s \in d2.external PROVE s \in d2.site /\ d2.definition[s.to] = None
      <3>1. s \in d.site /\ s \in sites /\ s.to \in Functions /\ d.definition[s.to] = None
        BY <1>1, <2>1 DEF OnlyExternal, RelationsFit, StoreRecord
      <3> QED BY <1>1, <3>1
    <2> QED BY <2>1 DEF OnlyExternal
  <1>4. ASSUME NEW p \in DOMAIN d2.relation
        PROVE  d2.relation[p] = Cardinality(SitesOf(d2, p))
    <2>1. p \in kept /\ p \in DOMAIN d.relation /\ d2.relation[p] = d.relation[p]
      BY <1>1, <1>4
    <2>2. ASSUME NEW s \in SitesOf(d, p) PROVE s \in sites
      <3>1. p[2] = s.from /\ p[3] = s.to /\ s \in d.site
        BY DEF SitesOf, Pair
      <3> QED BY <2>1, <3>1
    <2>3. SitesOf(d2, p) = SitesOf(d, p)
      BY <1>1, <2>2 DEF SitesOf
    <2> QED BY <2>1, <2>3 DEF SitesCounted, RelationsFit
  <1>5. SitesCounted(d2)
    BY <1>4 DEF SitesCounted
  <1> QED BY <1>2, <1>3, <1>5 DEF RelationsFit, d2

LEMMA ReferencesTyped ==
    ASSUME NEW t \in Texts, NEW unit, NEW kind, NEW u \in Defines(t),
           NEW s \in References(t, unit, u, kind)
    PROVE  /\ s.kind = kind /\ s.from = u /\ s.to \in Declares(t)
           /\ s.from \in Functions /\ s.to \in Functions
  <1>1. PICK r \in t[u].body :
            s = [kind |-> kind, from |-> u, to |-> r[2], file |-> unit, line |-> t[u].line]
    BY DEF References
  <1>2. s.kind = kind /\ s.from = u /\ s.to = r[2]
    BY <1>1
  <1>3. r[2] \in Declares(t)
    BY <1>1, TextRead
  <1> QED BY <1>2, <1>3, TextRead

-----------------------------------------------------------------------------
(* The facts of a database: a unit *)

LEMMA BodiesVisited ==
    ASSUME NEW d, RelationsFit(d), NEW t \in Texts, NEW unit,
           NEW d2, d2 = VisitBodies(d, t, unit)
    PROVE  /\ RelationsFit(d2) /\ SameSymbols(d, d2) /\ d2.entry = d.entry
           /\ \A u : CallsFrom(d2, u) = CallsFrom(d, u)
  <1>1. CASE Defines(t) = {}
    <2>1. d2 = d
      BY <1>1 DEF VisitBodies
    <2> QED BY <2>1 DEF SameSymbols, RelationsFit, StoreRecord
  <1>2. CASE Defines(t) # {}
    <2> DEFINE uses == UNION {References(t, unit, u, "uses") : u \in Defines(t)}
    <2>1. ASSUME NEW s \in uses
          PROVE  s.kind = "uses" /\ s.from \in Functions /\ s.to \in Functions
      BY ReferencesTyped
    <2>2. d2 = AddSites(d, uses)
      BY <1>2 DEF VisitBodies
    <2> HIDE DEF uses
    <2>3. RelationsFit(d2)
      BY <2>1, <2>2, AddSitesFits
    <2>4. SameSymbols(d, d2) /\ d2.entry = d.entry /\ d2.site = d.site \cup uses
      BY <2>2, AddSitesFields DEF RelationsFit
    <2>5. ASSUME NEW u PROVE CallsFrom(d2, u) = CallsFrom(d, u)
      BY <2>1, <2>4 DEF CallsFrom
    <2> QED BY <2>3, <2>4, <2>5
  <1> QED BY <1>1, <1>2

LEMMA CallGraphVisited ==
    ASSUME NEW d, RelationsFit(d), NEW t \in Texts, NEW unit,
           NEW d2, d2 = VisitCallGraph(d, t, unit)
    PROVE  /\ RelationsFit(d2) /\ SameSymbols(d, d2)
           /\ d2.entry = d.entry \cup Defines(t)
           /\ \A u \in Defines(t) : CallsFrom(d2, u) = References(t, unit, u, "calls")
           /\ \A u : u \notin Defines(t) => CallsFrom(d2, u) = CallsFrom(d, u)
  <1>1. CASE Defines(t) = {}
    <2>1. d2 = d
      BY <1>1 DEF VisitCallGraph, Link
    <2> QED BY <1>1, <2>1 DEF SameSymbols, RelationsFit, StoreRecord
  <1>2. CASE Defines(t) # {}
    <2> DEFINE calls == UNION {References(t, unit, u, "calls") : u \in Defines(t)}
               cleared == ClearCalls(d, Defines(t))
               added == AddSites(cleared, calls)
    <2>1. ASSUME NEW s \in calls
          PROVE  s.kind = "calls" /\ s.from \in Functions /\ s.to \in Functions
      BY ReferencesTyped
    <2>2. ASSUME NEW u \in Defines(t), NEW s
          PROVE  s \in calls /\ s.from = u <=> s \in References(t, unit, u, "calls")
      BY ReferencesTyped
    <2>3. ASSUME NEW s \in calls PROVE s.from \in Defines(t)
      BY ReferencesTyped
    <2>4. d2 = [added EXCEPT !.entry = added.entry \cup Defines(t)]
      BY <1>2 DEF VisitCallGraph, Link
    <2> HIDE DEF calls
    <2>5. /\ SameSymbols(d, cleared) /\ cleared.entry = d.entry \ Defines(t)
          /\ cleared.site = d.site \ {s \in d.site : s.kind = "calls" /\ s.from \in Defines(t)}
      BY DEF ClearCalls, SameSymbols, StoreRecord, StoreFields, RelationsFit
    <2>6. RelationsFit(cleared)
      BY ClearCallsFits
    <2> HIDE DEF cleared
    <2>7. SameSymbols(cleared, added) /\ added.entry = cleared.entry /\ added.site = cleared.site \cup calls
      BY <2>6, AddSitesFields DEF RelationsFit
    <2>8. RelationsFit(added)
      BY <2>1, <2>6, AddSitesFits
    <2> HIDE DEF added
    <2>9. /\ DOMAIN d2 = StoreFields /\ d2.entry = added.entry \cup Defines(t)
          /\ d2.symbol = added.symbol /\ d2.definition = added.definition
          /\ d2.next = added.next /\ d2.given = added.given /\ d2.parsed = added.parsed
          /\ d2.site = added.site /\ d2.relation = added.relation /\ d2.external = added.external
      BY <2>4, <2>8 DEF RelationsFit, StoreRecord, StoreFields
    <2>10. SameSymbols(d, d2)
      BY <2>5, <2>7, <2>9 DEF SameSymbols
    <2>11. RelationsFit(d2)
      <3>1. StoreRecord(d2)
        BY <2>8, <2>9 DEF RelationsFit, StoreRecord
      <3>2. \A p : SitesOf(d2, p) = SitesOf(added, p)
        BY <2>9 DEF SitesOf
      <3>3. SitesCounted(d2)
        BY <2>8, <2>9, <3>2 DEF RelationsFit, SitesCounted
      <3>4. OnlyExternal(d2)
        BY <2>8, <2>9 DEF RelationsFit, OnlyExternal
      <3> QED BY <3>1, <3>3, <3>4 DEF RelationsFit
    <2>12. d2.entry = d.entry \cup Defines(t)
      BY <2>5, <2>7, <2>9
    <2>13. d2.site = (d.site \ {s \in d.site : s.kind = "calls" /\ s.from \in Defines(t)}) \cup calls
      BY <2>5, <2>7, <2>9
    <2>14. ASSUME NEW u \in Defines(t)
           PROVE  CallsFrom(d2, u) = References(t, unit, u, "calls")
      <3>1. ASSUME NEW s
            PROVE  s \in CallsFrom(d2, u) <=> s \in calls /\ s.from = u
        BY <2>1, <2>13 DEF CallsFrom
      <3>2. ASSUME NEW s
            PROVE  s \in CallsFrom(d2, u) <=> s \in References(t, unit, u, "calls")
        BY <2>2, <3>1
      <3> QED BY <3>2
    <2>15. ASSUME NEW u, u \notin Defines(t)
           PROVE  CallsFrom(d2, u) = CallsFrom(d, u)
      BY <2>3, <2>13, <2>15 DEF CallsFrom
    <2> QED BY <2>10, <2>11, <2>12, <2>14, <2>15
  <1> QED BY <1>1, <1>2

\* The database in the transaction after a unit with the text t.
AfterUnit(d, t, unit, d2) ==
    /\ RelationsFit(d2) /\ IdsTaken(d2) /\ GivenKept(d2) /\ DefinitionsMarked(d2)
    /\ d2.entry = d.entry \cup Defines(t)
    /\ d2.parsed[unit] = t /\ \A x \in Units \ {unit} : d2.parsed[x] = d.parsed[x]
    /\ \A u \in Defines(t) :
         /\ d2.definition[u] = unit
         /\ CallsFrom(d2, u) = References(t, unit, u, "calls")
    /\ \A u \in Functions \ Defines(t) :
         /\ d2.definition[u] = d.definition[u]
         /\ CallsFrom(d2, u) = CallsFrom(d, u)

LEMMA UnitVisited ==
    ASSUME NEW d, StoreFits(d), NEW t \in Texts, NEW unit \in Units,
           NEW number \in Numberings(d, Declares(t), unit)
    PROVE  AfterUnit(d, t, unit, [Visit(d, t, unit, number) EXCEPT !.parsed[unit] = t])
  <1> DEFINE d3 == VisitDeclarations(d, t, unit, number)
             d4 == VisitBodies(d3, t, unit)
             d5 == VisitCallGraph(d4, t, unit)
             d2 == [Visit(d, t, unit, number) EXCEPT !.parsed[unit] = t]
  <1>0. StoreRecord(d) /\ IdsTaken(d) /\ GivenKept(d) /\ DefinitionsMarked(d) /\ SitesCounted(d) /\ OnlyExternal(d)
    BY DEF StoreFits
  <1>1. Saved(d, Declares(t), t, unit, number, d3)
    BY <1>0, SaveFields DEF VisitDeclarations
  <1>2. d2 = [d5 EXCEPT !.parsed[unit] = t]
    BY DEF Visit
  <1> HIDE DEF d3, d2
  <1>3. /\ StoreRecord(d3) /\ IdsTaken(d3) /\ GivenKept(d3) /\ DefinitionsMarked(d3)
        /\ \A u \in Defines(t) : d3.definition[u] = unit
        /\ \A u \in Functions \ Defines(t) : d3.definition[u] = d.definition[u]
    BY <1>0, <1>1, SaveRecord, SaveKeepsIds, SaveKeepsMarks
  <1>4. RelationsFit(d3)
    BY <1>0, <1>1, <1>3, SaveKeepsRelations DEF RelationsFit
  <1>5. d3.entry = d.entry /\ d3.parsed = d.parsed /\ \A u : CallsFrom(d3, u) = CallsFrom(d, u)
    BY <1>1 DEF Saved, CallsFrom
  <1>6. /\ RelationsFit(d4) /\ SameSymbols(d3, d4) /\ d4.entry = d3.entry
        /\ \A u : CallsFrom(d4, u) = CallsFrom(d3, u)
    BY <1>4, BodiesVisited
  <1> HIDE DEF d4
  <1>7. /\ RelationsFit(d5) /\ SameSymbols(d4, d5)
        /\ d5.entry = d4.entry \cup Defines(t)
        /\ \A u \in Defines(t) : CallsFrom(d5, u) = References(t, unit, u, "calls")
        /\ \A u : u \notin Defines(t) => CallsFrom(d5, u) = CallsFrom(d4, u)
    BY <1>6, CallGraphVisited
  <1> HIDE DEF d5
  <1>8. IdsTaken(d5) /\ GivenKept(d5) /\ DefinitionsMarked(d5)
    BY <1>3, <1>6, <1>7, SameSymbolsKeep
  <1>9. /\ d5.parsed = d.parsed /\ d5.definition = d3.definition
        /\ DOMAIN d5.parsed = Units
    BY <1>5, <1>6, <1>7 DEF SameSymbols, RelationsFit, StoreRecord
  <1>10. /\ DOMAIN d2 = StoreFields
         /\ d2.parsed = [d5.parsed EXCEPT ![unit] = t]
         /\ d2.symbol = d5.symbol /\ d2.definition = d5.definition
         /\ d2.next = d5.next /\ d2.given = d5.given /\ d2.entry = d5.entry
         /\ d2.site = d5.site /\ d2.relation = d5.relation /\ d2.external = d5.external
    BY <1>2, <1>7 DEF RelationsFit, StoreRecord, StoreFields
  <1>11. /\ d2.parsed[unit] = t /\ DOMAIN d2.parsed = Units
         /\ \A x \in Units \ {unit} : d2.parsed[x] = d.parsed[x]
    BY <1>9, <1>10
  <1>12. RelationsFit(d2)
    <2>1. StoreRecord(d2)
      BY <1>7, <1>10, <1>11 DEF RelationsFit, StoreRecord
    <2>2. \A p : SitesOf(d2, p) = SitesOf(d5, p)
      BY <1>10 DEF SitesOf
    <2>3. SitesCounted(d2)
      BY <1>7, <1>10, <2>2 DEF RelationsFit, SitesCounted
    <2>4. OnlyExternal(d2)
      BY <1>7, <1>10 DEF RelationsFit, OnlyExternal
    <2> QED BY <2>1, <2>3, <2>4 DEF RelationsFit
  <1>13. IdsTaken(d2) /\ GivenKept(d2) /\ DefinitionsMarked(d2)
    BY <1>8, <1>10 DEF IdsTaken, GivenKept, DefinitionsMarked
  <1>14. \A u : CallsFrom(d2, u) = CallsFrom(d5, u)
    BY <1>10 DEF CallsFrom
  <1>15. ASSUME NEW u \in Defines(t)
         PROVE  /\ d2.definition[u] = unit
                /\ CallsFrom(d2, u) = References(t, unit, u, "calls")
    BY <1>3, <1>7, <1>9, <1>10, <1>14
  <1>16. ASSUME NEW u \in Functions \ Defines(t)
         PROVE  /\ d2.definition[u] = d.definition[u]
                /\ CallsFrom(d2, u) = CallsFrom(d, u)
    BY <1>3, <1>5, <1>6, <1>7, <1>9, <1>10, <1>14
  <1> QED BY <1>5, <1>6, <1>7, <1>10, <1>11, <1>12, <1>13, <1>15, <1>16 DEF AfterUnit, d2

-----------------------------------------------------------------------------
(* The facts of a database: a run *)

LEMMA NewStoreFits == StoreFits(NewStore) /\ BothRecords(NewStore)
  <1> DEFINE d == NewStore
  <1>1. /\ DOMAIN d = StoreFields
        /\ d.symbol = [u \in Functions |-> None] /\ d.definition = [u \in Functions |-> None]
        /\ d.next = [home \in FileIdsOfStore |-> 0] /\ DOMAIN d.parsed = Units
        /\ DOMAIN d.relation = {} /\ d.site = {} /\ d.external = {} /\ d.entry = {} /\ d.given = {}
    BY DEF NewStore, StoreFields, FileIdsOfStore
  <1> HIDE DEF d
  <1>2. StoreRecord(d)
    BY <1>1 DEF StoreRecord
  <1>3. IdsTaken(d) /\ GivenKept(d) /\ DefinitionsMarked(d)
    BY <1>1 DEF IdsTaken, GivenKept, DefinitionsMarked
  <1>4. SitesCounted(d) /\ OnlyExternal(d) /\ BothRecords(d)
    BY <1>1 DEF SitesCounted, OnlyExternal, BothRecords
  <1> QED BY <1>1, <1>2, <1>3, <1>4 DEF StoreFits, d

LEMMA StoreBegins ==
    ASSUME StoreInit
    PROVE  StoreInv
  BY NewStoreFits DEF StoreInit, StoreInv

LEMMA BeginRefreshInv ==
    ASSUME StoreInv, NEW selected \in SUBSET Units, BeginRefresh(selected)
    PROVE  StoreInv'
  <1> DEFINE declared == {u \in Functions : db.symbol[u] # None /\ db.symbol[u].id[1] \in selected}
             defined == {u \in Functions : db.definition[u] \in selected}
             d == [db EXCEPT !.entry = {},
                     !.definition = [u \in Functions |-> IF u \in defined THEN None ELSE db.definition[u]],
                     !.symbol = [u \in Functions |-> IF u \in declared \cup defined
                                   THEN [db.symbol[u] EXCEPT !.defined = FALSE] ELSE db.symbol[u]]]
  <1>1. /\ refresh' = [todo |-> selected, old |-> declared, seen |-> {}, work |-> d]
        /\ text' = text /\ db' = db
    BY DEF BeginRefresh
  <1>2. StoreFits(db) /\ StoreRecord(db) /\ BothRecords(db)
    BY DEF StoreInv, StoreFits
  <1>3. /\ DOMAIN d = StoreFields /\ d.entry = {}
        /\ d.definition = [u \in Functions |-> IF u \in defined THEN None ELSE db.definition[u]]
        /\ d.symbol = [u \in Functions |-> IF u \in declared \cup defined
                          THEN [db.symbol[u] EXCEPT !.defined = FALSE] ELSE db.symbol[u]]
        /\ d.next = db.next /\ d.relation = db.relation /\ d.site = db.site
        /\ d.external = db.external /\ d.given = db.given /\ d.parsed = db.parsed
    BY <1>2 DEF StoreRecord, StoreFields
  <1> HIDE DEF d
  <1>4. ASSUME NEW u \in Functions
        PROVE  /\ d.symbol[u] \in SymbolRows \cup {None}
               /\ d.symbol[u] # None <=> db.symbol[u] # None
               /\ db.symbol[u] # None => d.symbol[u].id = db.symbol[u].id
               /\ d.definition[u] \in {None, db.definition[u]}
               /\ d.definition[u] # None => d.symbol[u] # None
               /\ d.symbol[u] # None /\ d.definition[u] = None => ~d.symbol[u].defined
    <2>1. /\ db.definition[u] # None => db.symbol[u] # None
          /\ db.symbol[u] # None => (db.symbol[u].defined <=> db.definition[u] # None)
      BY <1>2 DEF StoreFits, DefinitionsMarked, BothRecords
    <2>2. /\ d.definition[u] = IF u \in defined THEN None ELSE db.definition[u]
          /\ d.symbol[u] = IF u \in declared \cup defined
                          THEN [db.symbol[u] EXCEPT !.defined = FALSE] ELSE db.symbol[u]
      BY <1>3
    <2>3. CASE u \in declared \cup defined
      <3>1. db.symbol[u] # None
        BY <2>1, <2>3, TextAssumption
      <3>2. db.symbol[u] \in SymbolRows
        BY <1>2, <3>1, RowRead
      <3>3. /\ d.symbol[u] \in SymbolRows /\ d.symbol[u].id = db.symbol[u].id
            /\ d.symbol[u].defined = FALSE
        BY <2>2, <2>3, <3>2 DEF SymbolRows
      <3> QED BY <2>2, <3>1, <3>3, TextAssumption
    <2>4. CASE u \notin declared \cup defined
      BY <1>2, <2>1, <2>2, <2>4 DEF StoreRecord
    <2> QED BY <2>3, <2>4
  <1>5. ASSUME NEW u \in Functions
        PROVE  d.definition[u] \in Units \cup {None}
    BY <1>2, <1>4 DEF StoreRecord
  <1>6. StoreRecord(d)
    <2>1. d.symbol \in [Functions -> SymbolRows \cup {None}]
      <3>1. d.symbol = [u \in Functions |-> d.symbol[u]]
        BY <1>3
      <3> QED BY <1>4, <3>1
    <2>2. d.definition \in [Functions -> Units \cup {None}]
      <3>1. d.definition = [u \in Functions |-> d.definition[u]]
        BY <1>3
      <3> QED BY <1>5, <3>1
    <2> QED BY <1>2, <1>3, <2>1, <2>2 DEF StoreRecord
  <1>7. IdsTaken(d)
    BY <1>2, <1>3, <1>4 DEF StoreFits, IdsTaken
  <1>8. GivenKept(d)
    BY <1>2, <1>3, <1>4 DEF StoreFits, GivenKept
  <1>9. DefinitionsMarked(d)
    BY <1>4 DEF DefinitionsMarked
  <1>10. SitesCounted(d)
    <2>1. \A p : SitesOf(d, p) = SitesOf(db, p)
      BY <1>3 DEF SitesOf
    <2> QED BY <1>2, <1>3, <2>1 DEF StoreFits, SitesCounted
  <1>11. OnlyExternal(d)
    <2>1. ASSUME NEW s \in d.external PROVE s \in d.site /\ d.definition[s.to] = None
      <3>1. s \in db.external /\ s \in db.site /\ db.definition[s.to] = None /\ s.to \in Functions
        BY <1>2, <1>3 DEF StoreFits, OnlyExternal, StoreRecord
      <3> QED BY <1>3, <1>4, <3>1
    <2> QED BY <2>1 DEF OnlyExternal
  <1>12. StoreFits(d)
    BY <1>3, <1>6, <1>7, <1>8, <1>9, <1>10, <1>11 DEF StoreFits
  <1>13. RunFits(refresh')
    BY <1>1, <1>3, <1>12 DEF RunFits
  <1> QED BY <1>1, <1>13 DEF StoreInv

LEMMA VisitUnitInv ==
    ASSUME StoreInv, NEW unit \in Units, VisitUnit(unit)
    PROVE  StoreInv'
  <1> DEFINE r == refresh
             d == refresh.work
             t == text[unit]
  <1>1. /\ refresh # None /\ unit \in r.todo
        /\ text' = text /\ db' = db
    BY DEF VisitUnit
  <1>2. PICK number \in Numberings(d, Declares(t), unit) :
           refresh' = [refresh EXCEPT
             !.todo = @ \ {unit}, !.seen = @ \cup Declares(t),
             !.work = [Visit(@, t, unit, number) EXCEPT !.parsed[unit] = t]]
    BY DEF VisitUnit
  <1> DEFINE d2 == [Visit(d, t, unit, number) EXCEPT !.parsed[unit] = t]
             r2 == refresh'
  <1>3. RunFits(r) /\ StoreFits(d) /\ t \in Texts
    BY <1>1 DEF StoreInv, RunFits
  <1>4. /\ DOMAIN r2 = {"todo", "old", "seen", "work"}
        /\ r2.todo = r.todo \ {unit} /\ r2.seen = r.seen \cup Declares(t) /\ r2.work = d2
    BY <1>2, <1>3 DEF RunFits
  <1>5. AfterUnit(d, t, unit, d2)
    BY <1>2, <1>3, UnitVisited
  <1> HIDE DEF d2, r2
  <1>6. ASSUME NEW u \in d2.entry
        PROVE  /\ EntryExact(d2, u) /\ d2.definition[u] \notin r2.todo
               /\ \A s \in CallsFrom(d2, u) : s.to \in r2.seen
    <2>1. CASE u \in Defines(t)
      <3>1. u \in Functions
        BY <1>3, <2>1, TextRead
      <3>2. ASSUME NEW s \in CallsFrom(d2, u) PROVE s.to \in Declares(t)
        BY <1>3, <1>5, <2>1, ReferencesTyped DEF AfterUnit
      <3> QED BY <1>4, <1>5, <2>1, <3>1, <3>2 DEF EntryExact, AfterUnit
    <2>2. CASE u \notin Defines(t)
      <3>1. /\ u \in d.entry /\ EntryExact(d, u) /\ u \in Functions
            /\ d.definition[u] \in Units /\ d.definition[u] \notin r.todo
            /\ \A s \in CallsFrom(d, u) : s.to \in r.seen
        BY <1>3, <1>5, <2>2 DEF StoreFits, EntryExact, RunFits, AfterUnit
      <3>2. d2.definition[u] = d.definition[u] /\ CallsFrom(d2, u) = CallsFrom(d, u)
        BY <1>5, <2>2, <3>1 DEF AfterUnit
      <3>3. d.definition[u] # unit
        BY <1>1, <3>1
      <3>4. d2.parsed[d.definition[u]] = d.parsed[d.definition[u]]
        BY <1>5, <3>1, <3>3 DEF AfterUnit
      <3> QED BY <1>4, <3>1, <3>2, <3>4 DEF EntryExact
    <2> QED BY <2>1, <2>2
  <1>7. StoreFits(d2)
    BY <1>5, <1>6 DEF StoreFits, RelationsFit, AfterUnit
  <1>8. RunFits(r2)
    BY <1>3, <1>4, <1>6, <1>7 DEF RunFits
  <1> QED BY <1>1, <1>8 DEF StoreInv, r2

\* The commit drops what nobody declared, marks what has a definition, and
\* gives out the ids.
LEMMA CommitRefreshInv ==
    ASSUME StoreInv, CommitRefresh
    PROVE  StoreInv'
  <1> DEFINE w == refresh.work
             gone == Obsolete(refresh)
             d == WithoutSymbols(w, gone)
             present == {u \in Functions : d.symbol[u] # None}
             d2 == db'
  <1>1. /\ refresh # None /\ refresh' = None /\ text' = text
        /\ d2 = [d EXCEPT
             !.symbol = [u \in Functions |-> IF d.definition[u] = None THEN @[u]
                                             ELSE [@[u] EXCEPT !.defined = TRUE]],
             !.given = @ \cup {<<d.symbol[u].id, u>> : u \in present}]
    BY DEF CommitRefresh
  <1>2. RunFits(refresh) /\ StoreFits(w) /\ RelationsFit(w) /\ StoreRecord(w)
    BY <1>1 DEF StoreInv, RunFits, StoreFits, RelationsFit
  <1>3. /\ DOMAIN d = StoreFields
        /\ d.symbol = [u \in Functions |-> IF u \in gone THEN None ELSE w.symbol[u]]
        /\ d.definition = [u \in Functions |-> IF u \in gone THEN None ELSE w.definition[u]]
        /\ d.site = {s \in w.site : s.from \notin gone /\ s.to \notin gone}
        /\ d.entry = w.entry \ gone
        /\ d.next = w.next /\ d.given = w.given /\ d.parsed = w.parsed
    BY <1>2 DEF WithoutSymbols, StoreRecord, StoreFields
  <1>4. RelationsFit(d) /\ StoreRecord(d)
    BY <1>2, WithoutSymbolsFits DEF RelationsFit
  <1>5. ASSUME NEW u \in gone PROVE u \notin refresh.seen /\ w.definition[u] = None
    BY DEF Obsolete
  <1> HIDE DEF gone, d, d2
  <1>6. /\ DOMAIN d2 = StoreFields
        /\ d2.symbol = [u \in Functions |-> IF d.definition[u] = None THEN d.symbol[u]
                                            ELSE [d.symbol[u] EXCEPT !.defined = TRUE]]
        /\ d2.given = d.given \cup {<<d.symbol[u].id, u>> : u \in present}
        /\ d2.definition = d.definition /\ d2.next = d.next /\ d2.parsed = d.parsed
        /\ d2.site = d.site /\ d2.relation = d.relation
        /\ d2.external = d.external /\ d2.entry = d.entry
    BY <1>1, <1>4 DEF StoreRecord, StoreFields
  <1>7. ASSUME NEW u \in Functions
        PROVE  /\ d2.symbol[u] \in SymbolRows \cup {None}
               /\ d2.symbol[u] # None <=> d.symbol[u] # None
               /\ d.symbol[u] # None => d.symbol[u] = w.symbol[u] /\ d2.symbol[u].id = d.symbol[u].id
               /\ d.definition[u] # None => d.symbol[u] # None
               /\ d2.symbol[u] # None => (d2.symbol[u].defined <=> d.definition[u] # None)
    <2>1. /\ w.definition[u] # None => w.symbol[u] # None
          /\ w.symbol[u] # None /\ w.definition[u] = None => ~w.symbol[u].defined
      BY <1>2 DEF StoreFits, DefinitionsMarked
    <2>2. /\ d.symbol[u] = IF u \in gone THEN None ELSE w.symbol[u]
          /\ d.definition[u] = IF u \in gone THEN None ELSE w.definition[u]
      BY <1>3
    <2>3. d2.symbol[u] = IF d.definition[u] = None THEN d.symbol[u]
                         ELSE [d.symbol[u] EXCEPT !.defined = TRUE]
      BY <1>6
    <2>4. d.definition[u] # None => d.symbol[u] # None
      BY <2>1, <2>2
    <2>5. CASE d.definition[u] # None
      <3>1. d.symbol[u] \in SymbolRows
        BY <1>4, <2>4, <2>5, RowRead
      <3>2. /\ d2.symbol[u] \in SymbolRows /\ d2.symbol[u].id = d.symbol[u].id
            /\ d2.symbol[u].defined = TRUE
        BY <2>3, <2>5, <3>1 DEF SymbolRows
      <3> QED BY <2>2, <2>4, <2>5, <3>2, TextAssumption
    <2>6. CASE d.definition[u] = None
      <3>1. d2.symbol[u] = d.symbol[u] /\ d.symbol[u] \in SymbolRows \cup {None}
        BY <1>4, <2>3, <2>6 DEF StoreRecord
      <3>2. d.symbol[u] # None => ~d.symbol[u].defined
        <4>1. CASE u \in gone
          BY <2>2, <4>1
        <4>2. CASE u \notin gone
          BY <2>1, <2>2, <2>6, <4>2
        <4> QED BY <4>1, <4>2
      <3> QED BY <2>2, <2>6, <3>1, <3>2
    <2> QED BY <2>5, <2>6
  <1>8. StoreRecord(d2)
    <2>1. d2.symbol = [u \in Functions |-> d2.symbol[u]]
      BY <1>6
    <2>2. d2.symbol \in [Functions -> SymbolRows \cup {None}]
      BY <1>7, <2>1
    <2> QED BY <1>4, <1>6, <2>2 DEF StoreRecord
  <1>9. IdsTaken(d2)
    <2>1. ASSUME NEW u \in Functions, d2.symbol[u] # None
          PROVE  w.symbol[u] # None /\ d2.symbol[u].id = w.symbol[u].id
      BY <1>7, <2>1
    <2>2. d2.next = w.next
      BY <1>3, <1>6
    <2>3. IdsTaken(w)
      BY <1>2 DEF StoreFits
    <2> QED BY <2>1, <2>2, <2>3 DEF IdsTaken
  <1>10. DefinitionsMarked(d2) /\ BothRecords(d2)
    <2>1. ASSUME NEW u \in Functions
          PROVE  /\ d2.definition[u] # None => d2.symbol[u] # None
                 /\ d2.symbol[u] # None => (d2.symbol[u].defined <=> d2.definition[u] # None)
      <3>1. d2.definition[u] = d.definition[u]
        BY <1>6
      <3> QED BY <1>7, <3>1
    <2>2. DefinitionsMarked(d2)
      BY <2>1 DEF DefinitionsMarked
    <2>3. BothRecords(d2)
      BY <2>1 DEF BothRecords
    <2> QED BY <2>2, <2>3
  <1>11. SitesCounted(d2) /\ OnlyExternal(d2)
    <2>1. \A p : SitesOf(d2, p) = SitesOf(d, p)
      BY <1>6 DEF SitesOf
    <2> QED BY <1>4, <1>6, <2>1 DEF RelationsFit, SitesCounted, OnlyExternal
  <1>12. GivenKept(d2)
    <2>1. ASSUME NEW x \in d2.given
          PROVE  \/ x \in w.given
                 \/ \E u \in Functions : d.symbol[u] # None /\ x = <<d.symbol[u].id, u>>
      BY <1>3, <1>6
    <2>2. ASSUME NEW u \in Functions, d.symbol[u] # None
          PROVE  /\ d.symbol[u] = w.symbol[u] /\ w.symbol[u] # None
                 /\ w.symbol[u].id \in FileIdsOfStore \X Nat
                 /\ w.symbol[u].id[2] < w.next[w.symbol[u].id[1]]
      <3>1. d.symbol[u] = w.symbol[u] /\ w.symbol[u] # None
        BY <1>7, <2>2
      <3> QED BY <1>2, <3>1, RowRead DEF StoreFits, IdsTaken
    <2>3. ASSUME NEW x \in d2.given
          PROVE  /\ x = <<x[1], x[2]>> /\ x[1] \in FileIdsOfStore \X Nat /\ x[2] \in Functions
                 /\ x[1][2] < d2.next[x[1][1]]
      <3>1. CASE x \in w.given
        BY <1>2, <1>3, <1>6, <3>1 DEF StoreFits, GivenKept
      <3>2. ASSUME NEW u \in Functions, d.symbol[u] # None, x = <<d.symbol[u].id, u>>
            PROVE  /\ x = <<x[1], x[2]>> /\ x[1] \in FileIdsOfStore \X Nat /\ x[2] \in Functions
                   /\ x[1][2] < d2.next[x[1][1]]
        BY <1>3, <1>6, <2>2, <3>2
      <3> QED BY <2>1, <3>1, <3>2
    <2>4. ASSUME NEW x \in d2.given, NEW u \in Functions, d.symbol[u] # None, d.symbol[u].id = x[1]
          PROVE  u = x[2]
      <3>0. w.symbol[u] # None /\ w.symbol[u].id = x[1]
        BY <2>2, <2>4
      <3>1. CASE x \in w.given
        BY <1>2, <3>0, <3>1 DEF StoreFits, GivenKept
      <3>2. ASSUME NEW v \in Functions, d.symbol[v] # None, x = <<d.symbol[v].id, v>>
            PROVE  u = x[2]
        <4>1. w.symbol[v] # None /\ w.symbol[v].id = x[1] /\ x[2] = v
          BY <2>2, <3>2
        <4> QED BY <1>2, <3>0, <4>1 DEF StoreFits, IdsTaken
      <3> QED BY <2>1, <3>1, <3>2
    <2>5. ASSUME NEW x \in d2.given, NEW y \in d2.given, x[1] = y[1]
          PROVE  x[2] = y[2]
      <3>1. CASE x \in w.given /\ y \in w.given
        BY <1>2, <2>5, <3>1 DEF StoreFits, GivenKept
      <3>2. ASSUME NEW u \in Functions, d.symbol[u] # None, x = <<d.symbol[u].id, u>>
            PROVE  x[2] = y[2]
        <4>1. d.symbol[u].id = y[1] /\ x[2] = u
          BY <2>5, <3>2
        <4> QED BY <2>4, <3>2, <4>1
      <3>3. ASSUME NEW u \in Functions, d.symbol[u] # None, y = <<d.symbol[u].id, u>>
            PROVE  x[2] = y[2]
        <4>1. d.symbol[u].id = x[1] /\ y[2] = u
          BY <2>5, <3>3
        <4> QED BY <2>4, <3>3, <4>1
      <3> QED BY <2>1, <3>1, <3>2, <3>3
    <2>6. ASSUME NEW x \in d2.given, NEW u \in Functions, d2.symbol[u] # None, d2.symbol[u].id = x[1]
          PROVE  u = x[2]
      BY <1>7, <2>4, <2>6
    <2> QED BY <2>3, <2>5, <2>6 DEF GivenKept
  <1>13. ASSUME NEW u \in d2.entry PROVE EntryExact(d2, u)
    <2>1. u \in w.entry /\ u \notin gone
      BY <1>3, <1>6
    <2>2. /\ EntryExact(w, u) /\ u \in Functions
          /\ \A s \in CallsFrom(w, u) : s.to \in refresh.seen
      BY <1>2, <2>1 DEF StoreFits, RunFits, EntryExact
    <2>3. CallsFrom(d2, u) = CallsFrom(w, u)
      <3>1. ASSUME NEW s \in CallsFrom(w, u) PROVE s \in d.site
        <4>1. s \in w.site /\ s.from = u /\ s.to \notin gone
          BY <1>5, <2>2 DEF CallsFrom
        <4> QED BY <1>3, <2>1, <4>1
      <3> QED BY <1>3, <1>6, <3>1 DEF CallsFrom
    <2>4. d2.definition[u] = w.definition[u] /\ d2.parsed = w.parsed
      <3>1. d.definition[u] = IF u \in gone THEN None ELSE w.definition[u]
        BY <1>3, <2>2
      <3> QED BY <1>3, <1>6, <2>1, <3>1
    <2> QED BY <2>2, <2>3, <2>4 DEF EntryExact
  <1>14. StoreFits(d2)
    BY <1>8, <1>9, <1>10, <1>11, <1>12, <1>13 DEF StoreFits
  <1> QED BY <1>1, <1>10, <1>14 DEF StoreInv, d2

LEMMA StoreStep ==
    ASSUME StoreInv, [StoreNext]_storeVars
    PROVE  StoreInv'
  <1>1. ASSUME NEW selected \in SUBSET Units, BeginRefresh(selected) PROVE StoreInv'
    BY <1>1, BeginRefreshInv
  <1>2. ASSUME NEW unit \in Units, VisitUnit(unit) PROVE StoreInv'
    BY <1>2, VisitUnitInv
  <1>3. CASE CommitRefresh
    BY <1>3, CommitRefreshInv
  <1>4. CASE RollBackRefresh
    BY <1>4 DEF RollBackRefresh, StoreInv
  <1>5. ASSUME NEW unit \in Units, NEW t \in Texts, EditUnit(unit, t) PROVE StoreInv'
    BY <1>5 DEF EditUnit, StoreInv
  <1>6. CASE UNCHANGED storeVars
    BY <1>6 DEF storeVars, StoreInv
  <1> QED BY <1>1, <1>2, <1>3, <1>4, <1>5, <1>6 DEF StoreNext

\* Whatever runs leave in the database fits together, for all units, texts,
\* functions and edits: the records of a definition agree, relations have the
\* counts of their sites, only calls of undefined functions are external, and
\* an entry's calls are those of the body that was read.
THEOREM CommittedFactsAgree == StoreSpec => []FactsAgree
  <1>1. StoreInit => StoreInv
    BY StoreBegins
  <1>2. StoreInv /\ [StoreNext]_storeVars => StoreInv'
    BY StoreStep
  <1>3. StoreInv => FactsAgree
    <2> SUFFICES ASSUME StoreInv PROVE FactsAgree
      OBVIOUS
    <2>1. /\ \A u \in Functions : db.symbol[u] # None =>
                (db.symbol[u].defined <=> db.definition[u] # None)
          /\ \A p \in DOMAIN db.relation : db.relation[p] = Cardinality(SitesOf(db, p))
          /\ \A s \in db.external : s \in db.site /\ db.definition[s.to] = None
      BY DEF StoreInv, StoreFits, BothRecords, SitesCounted, OnlyExternal
    <2>2. ASSUME NEW u \in db.entry
          PROVE  LET unit == db.definition[u] IN
                 /\ unit # None
                 /\ {s \in db.site : s.kind = "calls" /\ s.from = u}
                      = References(db.parsed[unit], unit, u, "calls")
      BY TextAssumption DEF StoreInv, StoreFits, EntryExact, CallsFrom
    <2> QED BY <2>1, <2>2 DEF FactsAgree
  <1> QED BY <1>1, <1>2, <1>3, PTL DEF StoreSpec

\* An id that any run has committed for a symbol is never committed for
\* another one, whatever was deleted, rolled back or declared again between.
THEOREM SymbolIdsStay == StoreSpec => []IdsNeverReused
  <1>1. StoreInit => StoreInv
    BY StoreBegins
  <1>2. StoreInv /\ [StoreNext]_storeVars => StoreInv'
    BY StoreStep
  <1>3. StoreInv => IdsNeverReused
    BY DEF StoreInv, StoreFits, GivenKept, IdsNeverReused
  <1> QED BY <1>1, <1>2, <1>3, PTL DEF StoreSpec
=============================================================================
