----------------------------- MODULE JobProcess -----------------------------
(***************************************************************************)
(* What the job queue relies on when it starts a child process: the        *)
(* process passes through a few phases and ends exactly once, with an      *)
(* outcome that depends on the phase it was in.  The phases and the        *)
(* outcomes are those of JobQueue (variable process, operator Ends).       *)
(*                                                                         *)
(* ChildProcess implements this module (ChildImplements there).          *)
(***************************************************************************)

VARIABLES
    phase,            \* "none", "running", "draining", "cancelling", "ended"
    outcome           \* "pending", then how the process ended

processVars == <<phase, outcome>>

Alive == phase \in {"running", "draining", "cancelling"}

-----------------------------------------------------------------------------

ProcessInit == phase = "none" /\ outcome = "pending"

\* The command is spawned, and may be found dead at once; or it cannot start.
Begin ==
    /\ phase = "none"
    /\ \/ phase' \in {"running", "draining"} /\ UNCHANGED outcome
       \/ phase' = "ended" /\ outcome' = "failed"

\* The child is reaped while one of its pipes is still open.
Reaped ==
    /\ phase = "running"
    /\ phase' = "draining"
    /\ UNCHANGED outcome

\* A client's cancellation of a running child: it ends later.
Request ==
    /\ phase = "running"
    /\ phase' = "cancelling"
    /\ UNCHANGED outcome

\* The result arrives; shutdown or a late cancellation ends any phase.
End ==
    /\ Alive
    /\ phase' = "ended"
    /\ outcome' \in (IF phase = "cancelling" THEN {"cancelled"}
                     ELSE {"succeeded", "failed", "cancelled"})

ProcessNext == Begin \/ Reaped \/ Request \/ End

(***************************************************************************)
(* A process that has begun ends: End is weakly fair.                      *)
(***************************************************************************)
ProcessSpec ==
    /\ ProcessInit
    /\ [][ProcessNext]_processVars
    /\ WF_processVars(End)

=============================================================================
