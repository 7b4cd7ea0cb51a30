----------------------------- MODULE MCAnalysis -----------------------------
(***************************************************************************)
(* What the tools do around the facts, for TLC: call graphs, recovery,     *)
(* variable flow, the include graph with the discovery of its files, the   *)
(* include paths of drivers, and the cache of parsed units.  They have no  *)
(* variable in common; a behaviour chooses one of them and leaves the      *)
(* others at rest.                                                         *)
(***************************************************************************)
EXTENDS MCCallGraph, CallGraphRecovery, MCVariableFlow, MCSources, AstCache

VARIABLE part    \* the component that moves
vars == <<part, searchVars, dispatchVars, recoveryVars, cacheVars,
          flowVars, probeVars, graphVars>>

\* Recovery: r calls f, whose body is in a header, and f may call g.
RecHome == [r |-> "a.cpp", f |-> "h.h", g |-> "b.cpp"]
RecInputs ==
    [x \in {"a.cpp", "b.cpp"} |-> IF x = "a.cpp" THEN {"a.cpp", "h.h"} ELSE {"b.cpp"}]
RecMay == [r |-> {{"f"}}, f |-> {{}, {"g"}}, g |-> {{}}]

\* One of the two tools has another environment.
CONSTANTS t1, t2
ToolEnvironment == [t \in Tools |-> IF t = t1 THEN "cpath" ELSE "plain"]
AllEnabled == [t \in Tools |-> TRUE]

\* The cache: the first version of the source names a file of x, and one of the
\* two processes comes twice.
NamedHeaders == [v \in {1, 2} |-> IF v = 1 THEN {"x"} ELSE {}]
CONSTANTS c1, c2
Quota == [c \in {c1, c2} |-> IF c = c1 THEN 2 ELSE 1]

Init ==
    /\ part \in {"search", "recovery", "flow", "probes", "discovery", "includes", "astcache"}
    /\ IF part = "flow" THEN MCFlowInit
       ELSE SelectVariable(Loop, [fn |-> "main", var |-> "a", depth |-> None,
                                output |-> "new"])
    /\ IF part = "recovery" THEN RecoveryInit
       ELSE /\ bodies = [x \in Functions |-> {}] /\ lately = [x \in Functions |-> {{}}]
            /\ stored = [x \in Functions |-> None] /\ entries = {}
            /\ source = [x \in Files |-> [compiles |-> TRUE, version |-> 1]]
            /\ indexed = [x \in Files |-> None]
            /\ run = NewRun("r") /\ rounds = 0 /\ edits = 0
    /\ DriverProbeInit /\ (part # "probes" => driverFile = [d \in DriverNames |-> "g12"])
    /\ GraphInit
    /\ AstCacheInit
    /\ IF part = "search" THEN CallInit
       ELSE /\ Begin([edges |-> << >>, bodies |-> Nodes, outside |-> {}],
                     Query("callees", <<1>>, NoLimits, FALSE))
            /\ DispatchInit(NoProgram)

Next ==
    \/ /\ part = "search" /\ CallNext
       /\ UNCHANGED <<part, probeVars, graphVars, recoveryVars, cacheVars, flowVars>>
    \/ /\ part = "recovery" /\ RecoveryNext
       /\ UNCHANGED <<part, probeVars, graphVars, searchVars, dispatchVars, cacheVars, flowVars>>
    \/ /\ part = "flow" /\ FlowNext
       /\ UNCHANGED <<part, probeVars, graphVars, searchVars, dispatchVars, recoveryVars, cacheVars>>
    \/ /\ part = "probes" /\ DriverProbeNext
       /\ UNCHANGED <<part, searchVars, dispatchVars, recoveryVars, cacheVars, flowVars,
                     graphVars>>
    \/ /\ part = "discovery" /\ DiscoveryNext /\ UNCHANGED includeVars
       /\ UNCHANGED <<part, searchVars, dispatchVars, recoveryVars, cacheVars, flowVars,
                     probeVars>>
    \/ /\ part = "includes" /\ GraphNext
       /\ UNCHANGED <<part, searchVars, dispatchVars, recoveryVars, cacheVars, flowVars,
                     probeVars>>
    \/ /\ part = "astcache" /\ AstCacheNext
       /\ UNCHANGED <<part, searchVars, dispatchVars, recoveryVars, flowVars, probeVars, graphVars>>

Spec == Init /\ [][Next]_vars
=============================================================================
