-------------------------- MODULE CallGraphRecovery --------------------------
(***************************************************************************)
(* A call graph with --recover-missing.  The stored graph is traversed;    *)
(* what it reaches without current evidence is looked for in the           *)
(* translation units: each is parsed, compared with the facts, and         *)
(* extracted when they differ.  After an extraction everything is loaded   *)
(* again and the next round begins.  Editors change files meanwhile.       *)
(***************************************************************************)
EXTENDS NoValue, Naturals, FiniteSets

CONSTANTS
    Units,          \* sources with a compile command
    HomeOf,         \* the file with the body of a function
    InputsOf,       \* the files that a unit reads, itself included
    MayCall,        \* the bodies that an editor may give to a function
    Virtual,        \* functions whose bodies contain virtual calls
    MaxEdits        \* bound on edits during a run

VARIABLES
    source,     \* per file: does it compile, and its version
    bodies,     \* per function: what its body calls now
    lately,     \* bodies since the run began (ghost)
    stored,     \* facts: what the body calls, None for a bare declaration
    entries,    \* facts: functions with complete body evidence
    indexed,    \* per file: the version that an extraction recorded, or None
    run,        \* the run in progress
    rounds,     \* successful extractions (ghost)
    edits       \* edits since the run began

recoveryVars == <<source, bodies, lately, stored, entries, indexed, run, rounds, edits>>
factsVars == <<stored, entries, indexed>>
world == <<source, bodies, lately, edits>>

Functions == DOMAIN HomeOf
Files == UNION {InputsOf[u] : u \in Units}
DefinedBy(u) == {f \in Functions : HomeOf[f] \in InputsOf[u]}

CalledSets == UNION {MayCall[f] : f \in Functions}
Digests == UNION {[S -> Nat] : S \in SUBSET Files}     \* versions of the inputs
ScanRecords ==
    [unit : Units, ok : BOOLEAN, digest : Digests \cup {None},
     bodies : UNION {[S -> CalledSets] : S \in SUBSET Functions}]

\* Some unit reads the body of every function.
ASSUME RecoveryAssumption ==
    /\ IsFiniteSet(DOMAIN HomeOf)
    /\ \A f \in DOMAIN HomeOf : \E u \in Units : HomeOf[f] \in InputsOf[u]
    /\ None \notin {"failed", "cancelled", "recovery-failed", "complete"} /\ None \notin ScanRecords

NewRun(root) ==
    [phase |-> "start", root |-> root, stored |-> stored, evidence |-> entries, covered |-> TRUE,
     reached |-> {}, preserved |-> {}, wanted |-> [u \in {} |-> {}], unit |-> None,
     scans |-> [u \in Units |-> None], key |-> None, attempts |-> {}, failed |-> {},
     error |-> FALSE, cancelled |-> FALSE, status |-> None]

-----------------------------------------------------------------------------
(* The traversal, and the state of a function in the coverage report *)

Traversed(r) ==
    LET near[i \in Nat] ==
            IF i = 0 THEN {r.root}
            ELSE LET s == near[i - 1]
                 IN s \cup UNION {r.stored[f] : f \in {g \in s : r.stored[g] # None}}
    IN {f \in Functions : f \in near[Cardinality(Functions)]}

State(r, f) ==
    CASE ~r.covered -> "unknown"
      [] r.covered /\ r.stored[f] = None -> "incomplete"
      [] r.covered /\ r.stored[f] # None /\ indexed[HomeOf[f]] = None -> "unknown"
      [] OTHER -> IF indexed[HomeOf[f]] = source[HomeOf[f]].version THEN "complete" ELSE "stale"

Preserve(r, fresh) ==
    [r EXCEPT !.preserved = @ \cup
        {f \in Traversed(r) : (fresh /\ f \in r.evidence) \/ State(r, f) = "complete"}]

\* An interrupted run keeps what it has seen before.
Observe(r) == IF r.cancelled THEN r ELSE [r EXCEPT !.reached = Traversed(r)]

-----------------------------------------------------------------------------
(* One round: every unit is a candidate for every function that is wanted *)

InPhase(p) == run # None /\ run.phase = p

BeginRound ==
    /\ InPhase("start")
    /\ \E e \in BOOLEAN :      \* the context cannot be read
         run' = [Preserve(Observe(run), FALSE)
                     EXCEPT !.error = e, !.phase = IF e THEN "end" ELSE "select"]
    /\ UNCHANGED <<world, factsVars, rounds>>

Select ==
    /\ InPhase("select")
    /\ run' = IF run.cancelled THEN [run EXCEPT !.phase = "end"]
              ELSE [run EXCEPT !.phase = "process",
                        !.wanted = [u \in Units |->
                            {f \in run.reached \ run.preserved : State(run, f) # "complete"}]]
    /\ UNCHANGED <<world, factsVars, rounds>>

Inputs(u) == [x \in InputsOf[u] |-> source[x].version]
Compiles(u) == \A x \in InputsOf[u] : source[x].compiles
Requested(u) == run.wanted[u] \ run.preserved
Waiting == {u \in DOMAIN run.wanted : Requested(u) # {}}
Done(r, u) == [r EXCEPT !.phase = "process", !.unit = None, !.wanted[u] = {}]

\* A scan is used again while the contents that it read are the same.
IsCurrent(scan) == scan # None /\ scan.digest = Inputs(scan.unit)

Parse ==
    /\ InPhase("process")
    /\ \E u \in Waiting :
         run' = [run EXCEPT !.phase = "key", !.unit = u,
                     !.scans[u] = IF IsCurrent(@) THEN @
                                  ELSE [unit |-> u, ok |-> Compiles(u), digest |-> None,
                                        bodies |-> [f \in DefinedBy(u) |-> bodies[f]]]]
    /\ UNCHANGED <<world, factsVars, rounds>>

Attempt(outcome) == [unit |-> run.unit, key |-> run.key, asked |-> Requested(run.unit),
                     outcome |-> outcome]

Suppressed(u, key) ==
    \E a \in run.attempts :
        /\ a.unit = u /\ a.key = key
        /\ \/ a.asked = Requested(u)
           \/ a.outcome = "no_match" /\ Requested(u) \subseteq a.asked

\* The inputs are hashed after the parse, and hashed again for the key.
Identify ==
    /\ InPhase("key")
    /\ LET u == run.unit
           scanned == [run EXCEPT !.scans[u].digest = IF @ = None THEN Inputs(u) ELSE @]
       IN run' = IF Suppressed(u, Inputs(u)) THEN Done(scanned, u)
                 ELSE [scanned EXCEPT !.phase = "probe", !.key = Inputs(u)]
    /\ UNCHANGED <<world, factsVars, rounds>>

Fail(r) == [r EXCEPT !.failed = @ \cup {run.unit}, !.attempts = @ \cup {Attempt("failed")}]

\* Mutant of Agrees: a body that the facts have is taken for current.
AgreesKnown(scan, f) == run.stored[f] # None

\* The facts have the body, with the calls that the parse saw; the targets of
\* virtual calls depend on other units, and count only with evidence.
Agrees(scan, f) ==
    /\ run.stored[f] # None /\ run.stored[f] = scan.bodies[f]
    /\ f \in Virtual => f \in run.evidence

Probe ==
    /\ InPhase("probe")
    /\ LET u == run.unit
           scan == run.scans[u]
           matched == Requested(u) \cap DefinedBy(u)
       IN run' = CASE ~scan.ok -> Done(Fail(run), u)
                   [] scan.ok /\ matched = {} ->
                        Done([run EXCEPT !.attempts = @ \cup {Attempt("no_match")}], u)
                   [] scan.ok /\ matched # {} /\ (\A f \in matched : Agrees(scan, f)) ->
                        Done([run EXCEPT !.preserved = @ \cup matched,
                                         !.evidence = @ \cup matched], u)
                   [] OTHER -> [run EXCEPT !.phase = "extract"]
    /\ UNCHANGED <<world, factsVars, rounds>>

RetainedFacts == run.preserved \cap run.evidence

\* One transaction: all bodies of the unit as they were parsed; a new begin
\* forgets the evidence of all others, except for what the run relies on.
Extract ==
    /\ InPhase("extract")
    /\ LET u == run.unit
           scan == run.scans[u]
       IN /\ stored' = [f \in Functions |-> IF f \in DefinedBy(u) THEN scan.bodies[f] ELSE stored[f]]
          /\ entries' = DefinedBy(u) \cup RetainedFacts
          /\ run' = [run EXCEPT !.phase = "reload", !.attempts = @ \cup {Attempt("succeeded")},
                                !.preserved = @ \cup (Requested(u) \cap DefinedBy(u))]
    /\ rounds' = rounds + 1
    /\ UNCHANGED <<world, indexed>>

ExtractFails ==
    /\ InPhase("extract")
    /\ run' = Done(Fail(run), run.unit)
    /\ UNCHANGED <<world, factsVars, rounds>>

-----------------------------------------------------------------------------
(* The next round *)

Unedited(r) == \A u \in Units : r.scans[u] # None => IsCurrent(r.scans[u])

\* When an input changed, nothing that was established before counts.
Reload ==
    /\ InPhase("reload")
    /\ LET scans == [u \in Units |-> IF IsCurrent(run.scans[u]) THEN run.scans[u] ELSE None]
           loaded == [run EXCEPT !.stored = stored, !.scans = scans, !.unit = None, !.phase = "select"]
           kept == IF Unedited(run) THEN [loaded EXCEPT !.evidence = entries]
                   ELSE [loaded EXCEPT !.evidence = {}, !.covered = FALSE, !.preserved = {}]
       IN run' = Observe(Preserve(kept, TRUE))
    /\ UNCHANGED <<world, factsVars, rounds>>

ReloadFails ==
    /\ InPhase("reload")
    /\ run' = [run EXCEPT !.phase = "end", !.error = TRUE]
    /\ UNCHANGED <<world, factsVars, rounds>>

RoundEnds ==
    /\ InPhase("process") /\ Waiting = {}
    /\ run' = [run EXCEPT !.phase = "end"]
    /\ UNCHANGED <<world, factsVars, rounds>>

Record ==
    /\ InPhase("end") /\ run.status = None
    /\ run' = [run EXCEPT !.status = CASE run.error -> "failed"
                                       [] ~run.error /\ run.cancelled -> "cancelled"
                                       [] ~run.error /\ ~run.cancelled /\ run.failed # {} -> "recovery-failed"
                                       [] OTHER -> "complete"]
    /\ UNCHANGED <<world, factsVars, rounds>>

Cancel ==
    /\ run # None /\ run.status = None /\ ~run.cancelled
    /\ run' = [run EXCEPT !.cancelled = TRUE]
    /\ UNCHANGED <<world, factsVars, rounds>>

-----------------------------------------------------------------------------
\* An editor saves a file: it breaks or mends it, or a body calls others.
Edit ==
    /\ run # None /\ run.status = None /\ edits < MaxEdits /\ edits' = edits + 1
    /\ \E x \in Files :
         \/ /\ source' = [source EXCEPT ![x] = [compiles |-> ~@.compiles, version |-> @.version + 1]]
            /\ UNCHANGED bodies
         \/ /\ \E f \in {g \in Functions : HomeOf[g] = x} : \E calls \in MayCall[f] :
                 calls # bodies[f] /\ bodies' = [bodies EXCEPT ![f] = calls]
            /\ source' = [source EXCEPT ![x].version = @ + 1]
    /\ lately' = [f \in Functions |-> lately[f] \cup {bodies'[f]}]
    /\ UNCHANGED <<factsVars, run, rounds>>

\* Facts of any age: what a current extraction recorded is the body, and
\* evidence exists only for a body that was stored.
RecoveryInit ==
    /\ bodies \in {b \in [Functions -> UNION {MayCall[f] : f \in Functions}] :
                     \A f \in Functions : b[f] \in MayCall[f]}
    /\ stored \in {s \in [Functions -> {None} \cup UNION {MayCall[f] : f \in Functions}] :
                     \A f \in Functions : s[f] \in {None} \cup MayCall[f]}
    /\ source = [x \in Files |-> [compiles |-> TRUE, version |-> 1]]
    /\ indexed \in [Files -> {None, 0, 1}]
    /\ \A f \in Functions : /\ indexed[HomeOf[f]] = 1 => stored[f] = bodies[f]
                            /\ indexed[HomeOf[f]] = 0 => stored[f] # None
    /\ entries \in {{}, {f \in Functions : stored[f] # None}}
    /\ lately = [f \in Functions |-> {bodies[f]}]
    /\ run = NewRun("r") /\ rounds = 0 /\ edits = 0

RecoveryNext ==
    \/ BeginRound \/ Select \/ Parse \/ Identify \/ Probe
    \/ Extract \/ ExtractFails \/ Reload \/ ReloadFails \/ RoundEnds \/ Record
    \/ Cancel \/ Edit

RecoverySpec == RecoveryInit /\ [][RecoveryNext]_recoveryVars

-----------------------------------------------------------------------------
\* A run that claims to be complete followed only bodies that the sources had
\* while it ran: older facts are refreshed, or the run tells that it failed.
\* (Every function keeps its body somewhere: a deleted body is not noticed.)
CompleteIsRecovered ==
    run # None /\ run.status = "complete" =>
        \A f \in run.reached : run.stored[f] \in lately[f]

\* A run ends: as long as nobody edits, each round settles another function.
RoundsBounded == edits = 0 => rounds <= Cardinality(Functions)

\* Recovery neither trusts old evidence nor looks for ever.
RecoveryHonest == CompleteIsRecovered /\ RoundsBounded
=============================================================================
