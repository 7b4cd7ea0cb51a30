---------------------------- MODULE ChildProcess ----------------------------
(***************************************************************************)
(* One child process of a compatibility job (apis/jobs: Process, Spawn).   *)
(*                                                                         *)
(* Every action of the first part is one handler of the io_context thread: *)
(* a read of a pipe, one of four timers, a call of start or cancel.  The   *)
(* second part is the operating system: the child, which leads a process   *)
(* group, its descendants, and the pipes they write to.                    *)
(*                                                                         *)
(* An asio timer that has expired can no longer be cancelled: its handler  *)
(* is queued with success and runs whatever happens before ("due").  The   *)
(* handlers test exited_ and done_ for this reason.                        *)
(*                                                                         *)
(* Data: output is a number of units written and read; Limit stands for    *)
(* the 4 MiB that a stream keeps.  Of the exit status only "is it 0" is    *)
(* kept.  Times are left out: any order of the four timers is possible.    *)
(***************************************************************************)
EXTENDS Integers, Sequences

CONSTANTS
    Streams,          \* the pipes: stdout and stderr
    Limit,            \* units of output kept per stream (4 MiB in the code)
    MaxWritten        \* units written to a pipe at most (bound of the model)

ASSUME ChildProcessAssumption ==
    /\ Limit \in Nat
    /\ MaxWritten \in Nat

VARIABLES
    autoReap,         \* the server was started with SIGCHLD ignored, so that
                      \* the kernel reaps its children and waitpid fails
    child,            \* "unborn", "failed" (no spawn), "alive", "zombie",
                      \* "reaped" by waitpid, "gone" (reaped by the kernel)
    family,           \* descendants that live: "none", some in the "group" of
                      \* the child, or "escaped" into a session of their own
    pipe,             \* per stream: "open", or "eof" (no write end is left)
    sent,             \* per stream: units written to the pipe
    got,              \* per stream: units read from the pipe
    closed,           \* per stream: Stream::closed
    truncated,        \* per stream: Stream::truncated
    exited,           \* exited_
    done,             \* done_
    cancelled,        \* cancelled_
    timedOut,         \* timedOut_
    exitOk,           \* the child's exit status is 0
    timers,           \* per timer: "off", "armed", "due" (handler queued) or
                      \* "both" (a handler queued, a new wait behind it)
    results,          \* history: the results passed to completion_
    terminated,       \* history: SIGTERM was sent to the group
    strays            \* history: signals sent to a group that may be somebody
                      \* else's: an earlier step reaped its leader, and no
                      \* descendant keeps its id in use

childVars == <<autoReap, child, family, pipe, sent, got, closed, truncated, exited, done,
          cancelled, timedOut, exitOk, timers, results, terminated, strays>>

exitVars == <<exitOk, autoReap>>

kernelVars == <<child, family, pipe, sent>>

streamVars == <<got, closed, truncated>>

requestVars == <<cancelled, timedOut, terminated>>

finishVars == <<done, results>>

Timers == {"poll", "deadline", "kill", "drain"}

AllClosed == [s \in Streams |-> TRUE]

Kept(s) == IF got[s] > Limit THEN Limit ELSE got[s]

-----------------------------------------------------------------------------
\* Timers.

\* timer.cancel(): drops a wait that has not expired.
Cancelled(state) ==
    CASE state = "armed" -> "off"
      [] state = "both" -> "due"
      [] OTHER -> state

\* timer.expires_after() and async_wait(): replaces the wait.
Armed(state) == IF state \in {"due", "both"} THEN "both" ELSE "armed"

\* The queued handler of a timer starts to run.
Taken(state) == IF state = "both" THEN "armed" ELSE "off"

Due(t) == timers[t] \in {"due", "both"}

-----------------------------------------------------------------------------

ChildInit ==
    /\ autoReap \in BOOLEAN
    /\ child = "unborn"
    /\ family = "none"
    /\ pipe = [s \in Streams |-> "open"]
    /\ sent = [s \in Streams |-> 0]
    /\ got = [s \in Streams |-> 0]
    /\ closed = [s \in Streams |-> FALSE]
    /\ truncated = [s \in Streams |-> FALSE]
    /\ exited = FALSE
    /\ done = FALSE
    /\ cancelled = FALSE
    /\ timedOut = FALSE
    /\ exitOk = FALSE
    /\ timers = [t \in Timers |-> "off"]
    /\ results = <<>>
    /\ terminated = FALSE
    /\ strays = 0

-----------------------------------------------------------------------------
\* Handlers.

(***************************************************************************)
(* The state that QueueState::complete derives from the result.            *)
(***************************************************************************)
Outcome ==
    CASE cancelled -> "cancelled"
      [] ~cancelled /\ ~timedOut /\ exitOk -> "succeeded"
      [] OTHER -> "failed"

(***************************************************************************)
(* What the queue records; complete says whether everything written so far *)
(* is in it.                                                               *)
(***************************************************************************)
Result ==
    [outcome |-> Outcome,
     truncated |-> \E s \in Streams : truncated[s],
     complete |-> \A s \in Streams : Kept(s) = sent[s]]

\* Mutant of Finish: the test of exited_ is missing.
FinishEarly(ts) ==
    /\ done' = (done \/ \A s \in Streams : closed'[s])
    /\ IF done' /\ ~done
       THEN /\ results' = Append(results, Result')
            /\ timers' = [t \in Timers |-> Cancelled(ts[t])]
       ELSE UNCHANGED results /\ timers' = ts

(***************************************************************************)
(* finish(), called by a handler that has changed exited_ or the streams   *)
(* and left the timers at ts: once the child has exited and both streams   *)
(* are closed, the timers are cancelled and the result is delivered.       *)
(***************************************************************************)
Finish(ts) ==
    /\ done' = (done \/ (exited' /\ \A s \in Streams : closed'[s]))
    /\ IF done' /\ ~done
       THEN /\ results' = Append(results, Result')
            /\ timers' = [t \in Timers |-> Cancelled(ts[t])]
       ELSE UNCHANGED results /\ timers' = ts

(***************************************************************************)
(* start(): a command that cannot be spawned finishes at once.  Otherwise  *)
(* the reads start, poll() runs for the first time, and the deadline is    *)
(* armed last (the timeout is never 0 in a valid configuration).  A child  *)
(* that has exited before this poll may have written, and have left a      *)
(* descendant; its streams are not read yet, so the drain timer starts.    *)
(***************************************************************************)
SpawnFails ==
    /\ child = "unborn"
    /\ child' = "failed"
    /\ exited' = TRUE
    /\ closed' = AllClosed
    /\ UNCHANGED <<family, pipe, sent, got, truncated, requestVars, exitVars, strays>>
    /\ Finish(timers)

StartAlive ==
    /\ child = "unborn"
    /\ child' = "alive"
    /\ timers' = [timers EXCEPT !["poll"] = "armed", !["deadline"] = "armed"]
    /\ UNCHANGED <<family, pipe, sent, streamVars, exited, finishVars,
                   requestVars, exitVars, strays>>

StartReaped ==
    /\ child = "unborn"
    /\ ~autoReap
    /\ child' = "reaped"
    /\ family' \in {"none", "group", "escaped"}
    /\ sent' \in [Streams -> 0..MaxWritten]
    /\ exited' = TRUE
    /\ exitOk' \in BOOLEAN
    /\ timers' = [timers EXCEPT !["drain"] = "armed", !["deadline"] = "armed"]
    /\ UNCHANGED <<autoReap, pipe, streamVars, finishVars, requestVars, strays>>

StartLost ==
    /\ child = "unborn"
    /\ autoReap
    /\ child' = "gone"
    /\ family' \in {"none", "group", "escaped"}
    /\ sent' \in [Streams -> 0..MaxWritten]
    /\ exited' = TRUE
    /\ closed' = AllClosed
    /\ done' = TRUE
    /\ UNCHANGED <<pipe, got, truncated, requestVars, exitVars, strays>>
    /\ results' = Append(results, Result')
    /\ timers' = [timers EXCEPT !["deadline"] = "armed"]

\* A signal to the group: is the group still the child's own?
Signal ==
    strays' = IF child \in {"reaped", "gone"} /\ family # "group"
              THEN strays + 1 ELSE strays

\* kill(-pid_, SIGKILL): the child and what is left of its group die.
KillGroup ==
    /\ child' = (CASE child = "alive" -> IF autoReap THEN "gone" ELSE "zombie"
                   [] OTHER -> child)
    /\ family' = IF family = "group" THEN "none" ELSE family
    /\ Signal

(***************************************************************************)
(* terminate(), with the timers at ts: after the child has exited the      *)
(* streams are closed and the job finishes; before, the group gets SIGTERM *)
(* and 500 ms to end.                                                      *)
(***************************************************************************)
Terminate(ts) ==
    LET stopped == [ts EXCEPT !["deadline"] = Cancelled(@)]
    IN  \/ /\ exited
           /\ closed' = AllClosed
           /\ UNCHANGED <<terminated, strays, exited, truncated>>
           /\ Finish(stopped)
        \/ /\ ~exited
           /\ timers' = [stopped EXCEPT !["kill"] = Armed(@)]
           /\ terminated' = TRUE
           /\ Signal
           /\ UNCHANGED <<closed, exited, truncated, finishVars>>

\* cancel(false): the request of a client.
CancelChild ==
    /\ child # "unborn"
    /\ ~done
    /\ ~cancelled
    /\ cancelled' = TRUE
    /\ UNCHANGED <<kernelVars, got, timedOut, exitVars>>
    /\ Terminate(timers)

(***************************************************************************)
(* cancel(true): the queue stops.  The group is killed and the child       *)
(* waited for; streams still open count as truncated.                      *)
(***************************************************************************)
CancelForce ==
    /\ child # "unborn"
    /\ ~done
    /\ cancelled' = TRUE
    /\ IF exited
       THEN UNCHANGED <<child, family, strays>>
       ELSE /\ child' = IF autoReap THEN "gone" ELSE "reaped"
            /\ family' = IF family = "group" THEN "none" ELSE family
            /\ Signal
    /\ exited' = TRUE
    /\ truncated' = [s \in Streams |-> truncated[s] \/ ~closed[s]]
    /\ closed' = AllClosed
    /\ UNCHANGED <<pipe, sent, got, timedOut, terminated, exitVars>>
    /\ Finish(timers)

(***************************************************************************)
(* The deadline handler: terminates the child unless it has exited in the  *)
(* meantime.                                                               *)
(***************************************************************************)
Deadline ==
    /\ Due("deadline")
    /\ LET ts == [timers EXCEPT !["deadline"] = Taken(@)]
       IN  \/ /\ exited \/ done
              /\ timers' = ts
              /\ UNCHANGED <<closed, exited, truncated, timedOut, terminated,
                             finishVars, strays>>
           \/ /\ ~exited /\ ~done
              /\ timedOut' = TRUE
              /\ Terminate(ts)
    /\ UNCHANGED <<kernelVars, got, cancelled, exitVars>>

\* Mutant of KillTimer: a handler queued before the child was reaped kills.
KillTimerAlways ==
    /\ Due("kill")
    /\ timers' = [timers EXCEPT !["kill"] = Taken(@)]
    /\ KillGroup
    /\ UNCHANGED <<pipe, sent, streamVars, exited, finishVars, requestVars, exitVars>>

\* The kill handler, 500 ms after SIGTERM.
KillTimer ==
    /\ Due("kill")
    /\ timers' = [timers EXCEPT !["kill"] = Taken(@)]
    /\ \/ (exited \/ done) /\ UNCHANGED <<child, family, strays>>
       \/ ~exited /\ ~done /\ KillGroup
    /\ UNCHANGED <<pipe, sent, streamVars, exited, finishVars, requestVars, exitVars>>

\* Mutant of PollReaps: the rest of the group is not killed.
PollReapsLeavingGroup ==
    /\ Due("poll")
    /\ ~done /\ ~exited
    /\ child = "zombie"
    /\ child' = "reaped"
    /\ exited' = TRUE
    /\ UNCHANGED <<family, pipe, sent, streamVars, requestVars, exitVars, strays>>
    /\ LET ts == [timers EXCEPT !["poll"] = Taken(@),
                                !["deadline"] = Cancelled(@),
                                !["kill"] = Cancelled(@),
                                !["drain"] = Armed(@)]
       IN  Finish(ts)

\* Mutant of PollReaps: no drain timer, the streams are waited for.
PollReapsUndrained ==
    /\ Due("poll")
    /\ ~done /\ ~exited
    /\ child = "zombie"
    /\ child' = "reaped"
    /\ family' = IF (cancelled \/ timedOut) /\ family = "group" THEN "none" ELSE family
    /\ exited' = TRUE
    /\ UNCHANGED <<pipe, sent, streamVars, requestVars, exitVars, strays>>
    /\ LET ts == [timers EXCEPT !["poll"] = Taken(@),
                                !["deadline"] = Cancelled(@),
                                !["kill"] = Cancelled(@)]
       IN  Finish(ts)

(***************************************************************************)
(* poll() finds the child dead: reaped().  A group that was cancelled or   *)
(* timed out is killed (the child may exit on SIGTERM before its own       *)
(* subprocesses do); while a stream is open the drain timer gives it       *)
(* 250 ms.                                                                 *)
(***************************************************************************)
PollReaps ==
    /\ Due("poll")
    /\ ~done /\ ~exited
    /\ child = "zombie"
    /\ child' = "reaped"
    /\ family' = IF (cancelled \/ timedOut) /\ family = "group" THEN "none" ELSE family
    /\ exited' = TRUE
    /\ UNCHANGED <<pipe, sent, streamVars, requestVars, exitVars, strays>>
    /\ LET ts == [timers EXCEPT !["poll"] = Taken(@),
                                !["deadline"] = Cancelled(@),
                                !["kill"] = Cancelled(@),
                                !["drain"] = Armed(@)]
       IN  Finish(ts)

\* poll() finds no child to wait for (ECHILD).
PollLost ==
    /\ Due("poll")
    /\ ~done /\ ~exited
    /\ child = "gone"
    /\ exited' = TRUE
    /\ closed' = AllClosed
    /\ UNCHANGED <<kernelVars, got, truncated, requestVars, exitVars, strays>>
    /\ Finish([timers EXCEPT !["poll"] = Taken(@)])

\* poll() finds the child alive, or has nothing left to do.
PollWaits ==
    /\ Due("poll")
    /\ \/ (done \/ exited) /\ timers' = [timers EXCEPT !["poll"] = Taken(@)]
       \/ /\ ~done /\ ~exited /\ child = "alive"
          /\ timers' = [timers EXCEPT !["poll"] = Armed(Taken(@))]
    /\ UNCHANGED <<kernelVars, streamVars, exited, finishVars, requestVars,
                   exitVars, strays>>

\* Mutant of DrainTimer: an abandoned stream does not count as truncated.
DrainTimerSilently ==
    /\ Due("drain")
    /\ UNCHANGED <<kernelVars, got, truncated, exited, requestVars, exitVars, strays>>
    /\ LET ts == [timers EXCEPT !["drain"] = Taken(@)]
       IN  \/ done /\ timers' = ts /\ UNCHANGED <<closed, finishVars>>
           \/ ~done /\ closed' = AllClosed /\ Finish(ts)

(***************************************************************************)
(* The drain handler: a stream that a descendant still holds open is       *)
(* closed, and its output counts as truncated.                             *)
(***************************************************************************)
DrainTimer ==
    /\ Due("drain")
    /\ UNCHANGED <<kernelVars, got, exited, requestVars, exitVars, strays>>
    /\ LET ts == [timers EXCEPT !["drain"] = Taken(@)]
       IN  \/ done /\ timers' = ts /\ UNCHANGED <<truncated, closed, finishVars>>
           \/ /\ ~done
              /\ truncated' = [s \in Streams |-> truncated[s] \/ ~closed[s]]
              /\ closed' = AllClosed
              /\ Finish(ts)

(***************************************************************************)
(* A read completes: with data, of which the stream keeps what fits; or    *)
(* with end of file, which closes the stream.  A read that completes after *)
(* closeStreams() finds done_ set and does nothing.                        *)
(***************************************************************************)
ReadData(s) ==
    /\ child # "unborn" /\ ~closed[s]
    /\ \E n \in (got[s] + 1)..sent[s] :
         /\ got' = [got EXCEPT ![s] = n]
         /\ truncated' = [truncated EXCEPT ![s] = @ \/ n > Limit]
    /\ UNCHANGED <<kernelVars, closed, exited, finishVars, requestVars, exitVars,
                   timers, strays>>

ReadEnd(s) ==
    /\ child # "unborn" /\ ~closed[s]
    /\ pipe[s] = "eof" /\ got[s] = sent[s]
    /\ closed' = [closed EXCEPT ![s] = TRUE]
    /\ UNCHANGED <<kernelVars, got, truncated, exited, requestVars, exitVars, strays>>
    /\ Finish(timers)

-----------------------------------------------------------------------------
\* The operating system and the commands.

serverVars == <<streamVars, exited, finishVars, requestVars, strays>>

Expire(t) ==
    /\ timers[t] = "armed"
    /\ timers' = [timers EXCEPT ![t] = "due"]
    /\ UNCHANGED <<kernelVars, exitVars, serverVars>>

\* The child, or a descendant that holds the pipe, writes.
Write(s) ==
    /\ child = "alive" \/ family # "none"
    /\ pipe[s] = "open"
    /\ sent[s] < MaxWritten
    /\ sent' = [sent EXCEPT ![s] = @ + 1]
    /\ UNCHANGED <<child, family, pipe, exitVars, timers, serverVars>>

\* The last write end of a pipe is closed: by choice, or with its last owner.
Hangup(s) ==
    /\ child \notin {"unborn", "failed"}
    /\ pipe[s] = "open"
    /\ pipe' = [pipe EXCEPT ![s] = "eof"]
    /\ UNCHANGED <<child, family, sent, exitVars, timers, serverVars>>

\* The child starts a subprocess, in its own group or as a daemon.
Fork ==
    /\ child = "alive" /\ family = "none"
    /\ family' \in {"group", "escaped"}
    /\ UNCHANGED <<child, pipe, sent, exitVars, timers, serverVars>>

\* The child exits by itself or on SIGTERM, with any status.
Exit ==
    /\ child = "alive"
    /\ IF autoReap
       THEN child' = "gone" /\ UNCHANGED exitVars
       ELSE child' = "zombie" /\ exitOk' \in BOOLEAN /\ UNCHANGED autoReap
    /\ UNCHANGED <<family, pipe, sent, timers, serverVars>>

FamilyExits ==
    /\ family # "none"
    /\ family' = "none"
    /\ UNCHANGED <<child, pipe, sent, exitVars, timers, serverVars>>

-----------------------------------------------------------------------------

Start == SpawnFails \/ StartAlive \/ StartReaped \/ StartLost

Poll == PollReaps \/ PollLost \/ PollWaits

ChildNext ==
    \/ Start
    \/ CancelChild
    \/ CancelForce
    \/ Deadline
    \/ KillTimer
    \/ Poll
    \/ DrainTimer
    \/ \E s \in Streams : ReadData(s) \/ ReadEnd(s) \/ Write(s) \/ Hangup(s)
    \/ \E t \in Timers : Expire(t)
    \/ Fork
    \/ Exit
    \/ FamilyExits

ChildSpec == ChildInit /\ [][ChildNext]_childVars

(***************************************************************************)
(* Fairness: asio runs queued handlers and expires its timers, and a pipe  *)
(* whose owners are all dead reports end of file.  Neither the child nor a *)
(* descendant ever has to exit, to write or to close a pipe.               *)
(***************************************************************************)
Orphaned == child \in {"zombie", "reaped", "gone"} /\ family = "none"

ChildFairness ==
    /\ WF_childVars(Deadline) /\ WF_childVars(KillTimer) /\ WF_childVars(Poll) /\ WF_childVars(DrainTimer)
    /\ \A t \in Timers : WF_childVars(Expire(t))
    /\ \A s \in Streams :
         WF_childVars(ReadData(s)) /\ WF_childVars(ReadEnd(s)) /\ WF_childVars(Orphaned /\ Hangup(s))

FairChildSpec == ChildSpec /\ ChildFairness

-----------------------------------------------------------------------------

(***************************************************************************)
(* The result is delivered once, and never while the child runs or waits   *)
(* as a zombie: the queue starts the next job on this call, and QueueTest  *)
(* asserts that no child is left to wait for.                              *)
(***************************************************************************)
NoZombie ==
    /\ Len(results) = IF done THEN 1 ELSE 0
    /\ done => child \in {"failed", "reaped", "gone"}

(***************************************************************************)
(* The next four need a child that waitpid finds: a server whose children  *)
(* the kernel reaps (autoReap) loses their exit status, and with it the    *)
(* moment at which the group could be killed and the pipes drained.        *)
(***************************************************************************)

(***************************************************************************)
(* A command that was sent SIGTERM leaves nothing of its process group     *)
(* behind, even when the child exits on SIGTERM before its subprocesses    *)
(* (reaped, and the kill timer when the child does not exit).              *)
(***************************************************************************)
GroupKilled == done /\ terminated /\ ~autoReap => family # "group"

(***************************************************************************)
(* No handler signals a group id after an earlier step gave it up: every   *)
(* handler that was queued when the child was reaped tests exited_.        *)
(***************************************************************************)
NoStray == ~autoReap => strays = 0

(***************************************************************************)
(* The three together: nothing runs, unreaped or ungoverned, on behalf of  *)
(* a command whose result was delivered.                                   *)
(***************************************************************************)
NothingLeft == NoZombie /\ GroupKilled /\ NoStray

(***************************************************************************)
(* A result that is neither cancelled nor truncated holds everything the   *)
(* command wrote.                                                          *)
(***************************************************************************)
HonestOutput ==
    ~autoReap =>
        \A k \in 1..Len(results) :
            results[k].outcome # "cancelled" /\ ~results[k].truncated
                => results[k].complete

(***************************************************************************)
(* The phases that JobQueue sees, in the order it relies on; and a process *)
(* that has begun ends, whatever its child and descendants do, because of  *)
(* the deadline, the kill timer and the drain timer together.              *)
(***************************************************************************)
Phase ==
    CASE child = "unborn" -> "none"
      [] done -> "ended"
      [] ~done /\ cancelled -> "cancelling"
      [] ~done /\ ~cancelled /\ exited -> "draining"
      [] OTHER -> "running"

Process == INSTANCE JobProcess WITH
    phase <- Phase,
    outcome <- IF done THEN results[1].outcome ELSE "pending"

ChildImplements == Process!ProcessSpec

-----------------------------------------------------------------------------

(***************************************************************************)
(* "Running legacy CLI jobs receive process-group termination" upon        *)
(* cancellation (openapi/paths/job.yaml).                                  *)
(***************************************************************************)
CancelTerminatesGroup ==
    done /\ ~autoReap /\ results[1].outcome = "cancelled" => family # "group"

=============================================================================
