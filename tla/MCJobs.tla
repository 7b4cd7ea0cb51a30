------------------------------- MODULE MCJobs -------------------------------
(***************************************************************************)
(* The compatibility queue and the child process of a job for TLC.  They   *)
(* have no variable in common: a behaviour chooses one and leaves the      *)
(* other at rest, where nothing that is fair is enabled.                   *)
(***************************************************************************)
EXTENDS MCJobQueue, MCChildProcess

VARIABLE part    \* the component that moves
jobsVars == <<part, vars, childVars>>

JobsInit == part \in {"queue", "child"} /\ Init /\ ChildInit

JobsNext ==
    \/ part = "queue" /\ Next /\ UNCHANGED <<part, childVars>>
    \/ part = "child" /\ ChildNext /\ UNCHANGED <<part, vars>>

FairJobsSpec ==
    /\ JobsInit /\ [][JobsNext]_jobsVars
    /\ QueueFairness
    /\ ChildFairness
=============================================================================
