------------------------------ MODULE MCServer ------------------------------
(***************************************************************************)
(* The server for TLC: its two queues with the worker and the shutdown,    *)
(* the symbol index that its refreshes publish, its log, and the daemon.   *)
(* They have no variable in common; a behaviour chooses one of them and    *)
(* leaves the others at rest, so that the run explores the sum of their    *)
(* states and not the product.                                             *)
(***************************************************************************)
EXTENDS MCRuntime, SymbolIndex, EventLog, Daemon

VARIABLE part    \* the component that moves
everyVar == <<part, runtimeVars, indexVars, logVars, daemonVars>>

\* The index: two facts databases, three registered files, two symbols whose
\* names sort against the order of their rows.
Scopes == [x \in FileIds |-> IF x = 3 THEN "other" ELSE "main"]
SymbolNames == <<2, 1>>
FactRow(u, x, d) == [usr |-> u, file |-> x, def |-> d]
FactTexts ==
    LET one == {{FactRow(1, 1, TRUE), FactRow(2, 2, FALSE)}, {FactRow(1, 1, FALSE), FactRow(2, 1, TRUE)}}
        two == {None, {FactRow(1, 1, FALSE), FactRow(1, 2, TRUE), FactRow(2, 2, TRUE), FactRow(1, 3, FALSE)}}
    IN  <<one, two>>

ServerInit ==
    /\ part \in {"queues", "index", "log", "daemon"}
    /\ RuntimeInit
    /\ SymbolIndexInit /\ owned = <<1, 2, 2>>
    /\ store[1] = CHOOSE t \in Contents[1] : TRUE
    /\ part # "index" => /\ client = AtRest
                         /\ store = [d \in Databases |-> CHOOSE t \in Contents[d] : TRUE]
    /\ LogInit
    /\ DaemonInit /\ (part # "daemon" => \A l \in Launches : daemon[l])

ServerNext ==
    \/ part = "queues" /\ RuntimeNext /\ UNCHANGED <<part, indexVars, logVars, daemonVars>>
    \/ part = "index" /\ SymbolIndexNext /\ UNCHANGED <<part, runtimeVars, logVars, daemonVars>>
    \/ part = "log" /\ LogNext /\ UNCHANGED <<part, runtimeVars, indexVars, daemonVars>>
    \/ part = "daemon" /\ DaemonNext /\ UNCHANGED <<part, runtimeVars, indexVars, logVars>>

ServerSpec == ServerInit /\ [][ServerNext]_everyVar
=============================================================================
