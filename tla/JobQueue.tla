------------------------------ MODULE JobQueue ------------------------------
(***************************************************************************)
(* The bounded queue of compatibility jobs (apis/jobs: Queue, QueueState). *)
(*                                                                         *)
(* One thread runs an asio io_context; every action below is one handler   *)
(* of that thread and runs to its end before the next one starts.  A       *)
(* client submits a command and gets an id; the command waits in pending,  *)
(* runs as the one active job in a child process, and its record stays     *)
(* readable after it has finished until a later submission evicts it.      *)
(* pump is never called directly but posted to the io_context (schedule).  *)
(*                                                                         *)
(* The child process is seen through its phase only: ChildProcess models   *)
(* the signals, pipes and timers behind it.  Boundaries of the             *)
(* abstraction: the arguments, the output and the times of a record are    *)
(* left out; a submission with no argument or with a NUL byte changes      *)
(* nothing in the code and is no step here.                                *)
(***************************************************************************)
EXTENDS Integers, Sequences, FiniteSets, SequencesExt

CONSTANTS
    MaxPending,       \* jobs that may wait (64 in QueueState::submit)
    MaxRetained,      \* records kept (128 in QueueState::submit)
    MaxJobs           \* ids a behaviour may hand out (bound of the model)

ASSUME JobQueueAssumption ==
    /\ MaxPending \in Nat \ {0}
    /\ MaxRetained \in Nat
    /\ MaxRetained > MaxPending + 1
    /\ MaxJobs \in Nat

VARIABLES
    state,            \* record["state"] of every id; "absent" before submit,
                      \* "forgotten" once the record was evicted
    order,            \* retained ids, oldest first (the keys of jobs, too)
    pending,          \* deque of jobs waiting to run
    active,           \* the job that runs, or NoJob
    process,          \* phase of the active job's child process
    nextId,           \* id of the next submission
    paused,           \* native work holds the queue (Queue::pause)
    stopped,          \* stop() was called
    pumpPosted,       \* a posted call of pump waits in the io_context
    reports           \* history: times complete() told a job's end to its
                      \* completion callback and to the observer

vars == <<state, order, pending, active, process, nextId, paused, stopped,
          pumpPosted, reports>>

Ids == 1..MaxJobs

NoJob == 0

Outcomes == {"cancelled", "succeeded", "failed"}

States == {"absent", "queued", "running", "forgotten"} \cup Outcomes

(***************************************************************************)
(* Phases of Process: its child runs; the child was reaped but a           *)
(* descendant still holds a pipe ("draining", at most 250 ms); a           *)
(* cancellation was requested and its result will say so.                  *)
(***************************************************************************)
Phases == {"none", "running", "draining", "cancelling"}

Finished(i) == state[i] \in Outcomes

Ends(phase) ==
    CASE phase \in {"running", "draining"} -> {"succeeded", "failed"}
      [] phase = "cancelling" -> {"cancelled"}
      [] OTHER -> {}

-----------------------------------------------------------------------------

Init ==
    /\ state = [i \in Ids |-> "absent"]
    /\ order = <<>>
    /\ pending = <<>>
    /\ active = NoJob
    /\ process = "none"
    /\ nextId = 1
    /\ paused = FALSE
    /\ stopped = FALSE
    /\ pumpPosted = FALSE
    /\ reports = [i \in Ids |-> 0]

\* Mutant of Complete: only the active job's end is reported.
CompleteSilently(jobs, outcome) ==
    LET ending == {i \in jobs : ~Finished(i)}
    IN  /\ state' = [i \in Ids |-> IF i \in ending THEN outcome ELSE state[i]]
        /\ reports' = [i \in Ids |->
                        IF i \in ending \cap {active} THEN reports[i] + 1 ELSE reports[i]]
        /\ active' = IF active \in ending THEN NoJob ELSE active
        /\ process' = IF active \in ending THEN "none" ELSE process
        /\ pumpPosted' = (pumpPosted \/ ending # {})

\* Mutant of Complete: the schedule() call is missing.
CompleteUnscheduled(jobs, outcome) ==
    LET ending == {i \in jobs : ~Finished(i)}
    IN  /\ state' = [i \in Ids |-> IF i \in ending THEN outcome ELSE state[i]]
        /\ reports' = [i \in Ids |->
                        IF i \in ending THEN reports[i] + 1 ELSE reports[i]]
        /\ active' = IF active \in ending THEN NoJob ELSE active
        /\ process' = IF active \in ending THEN "none" ELSE process
        /\ UNCHANGED pumpPosted

(***************************************************************************)
(* complete(job, result) for every job of a set: the code returns early    *)
(* for a job that has finished, clears active and process when the job is  *)
(* the active one, schedules a pump and reports the end.  What the         *)
(* completion callback does then is a step of its caller.                  *)
(***************************************************************************)
Complete(jobs, outcome) ==
    LET ending == {i \in jobs : ~Finished(i)}
    IN  /\ state' = [i \in Ids |-> IF i \in ending THEN outcome ELSE state[i]]
        /\ reports' = [i \in Ids |->
                        IF i \in ending THEN reports[i] + 1 ELSE reports[i]]
        /\ active' = IF active \in ending THEN NoJob ELSE active
        /\ process' = IF active \in ending THEN "none" ELSE process
        /\ pumpPosted' = (pumpPosted \/ ending # {})

\* Mutant of Evictable: the oldest record is evicted whatever its state.
EvictableAny == 1..Len(order)

(***************************************************************************)
(* submit(): refused when stopped or full.  At the retention limit the     *)
(* oldest finished record is evicted, or the submission is refused when    *)
(* there is none.                                                          *)
(***************************************************************************)
Evictable == {k \in 1..Len(order) : Finished(order[k])}

Oldest(k) == k \in Evictable /\ \A l \in Evictable : k <= l

Accept(kept) ==
    /\ state' = [i \in Ids |->
                   IF i = nextId THEN "queued"
                   ELSE IF i \in ToSet(order) \ ToSet(kept) THEN "forgotten"
                   ELSE state[i]]
    /\ order' = Append(kept, nextId)
    /\ pending' = Append(pending, nextId)
    /\ nextId' = nextId + 1
    /\ pumpPosted' = TRUE

\* Mutant of Submit: the capacity test admits one job too many.
SubmitOverfull ==
    /\ nextId <= MaxJobs
    /\ ~stopped
    /\ Len(pending) <= MaxPending
    /\ \/ Len(order) < MaxRetained /\ Accept(order)
       \/ /\ Len(order) >= MaxRetained
          /\ \E k \in 1..Len(order) : Oldest(k) /\ Accept(RemoveAt(order, k))
    /\ UNCHANGED <<active, process, paused, stopped, reports>>

Submit ==
    /\ nextId <= MaxJobs
    /\ ~stopped
    /\ Len(pending) < MaxPending
    /\ \/ Len(order) < MaxRetained /\ Accept(order)
       \/ /\ Len(order) >= MaxRetained
          /\ \E k \in 1..Len(order) : Oldest(k) /\ Accept(RemoveAt(order, k))
    /\ UNCHANGED <<active, process, paused, stopped, reports>>

(***************************************************************************)
(* cancel(id) of a job that waits: erased from pending and completed.      *)
(***************************************************************************)
CancelQueued(i) ==
    /\ ~Finished(i)
    /\ i # active
    /\ \E k \in 1..Len(pending) :
         pending[k] = i /\ pending' = RemoveAt(pending, k)
    /\ Complete({i}, "cancelled")
    /\ UNCHANGED <<order, nextId, paused, stopped>>

(***************************************************************************)
(* cancel(id) of the active job calls Process::cancel(): nothing when      *)
(* already cancelled; an end on the spot when the child was reaped;        *)
(* otherwise SIGTERM, and the job ends later.                              *)
(***************************************************************************)
CancelActive ==
    /\ active # NoJob
    /\ \/ process = "running" /\ process' = "cancelling"
          /\ UNCHANGED <<state, active, pumpPosted, reports>>
       \/ process = "draining" /\ Complete({active}, "cancelled")
    /\ UNCHANGED <<order, pending, nextId, paused, stopped>>

(***************************************************************************)
(* stop(): the waiting jobs are completed as cancelled, then the child is  *)
(* killed and waited for, and its job completes in the same call.          *)
(***************************************************************************)
Stop ==
    /\ ~stopped
    /\ stopped' = TRUE
    /\ pending' = <<>>
    /\ Complete(ToSet(pending) \cup ({active} \ {NoJob}), "cancelled")
    /\ UNCHANGED <<order, nextId, paused>>

\* Mutant of SetPaused: the end of a pause schedules nothing.
SetPausedOnly(value) ==
    /\ paused' = value
    /\ UNCHANGED <<state, order, pending, active, process, nextId, stopped,
                   pumpPosted, reports>>

(***************************************************************************)
(* Queue::pause(value), called by the native runtime: a running child is   *)
(* not touched, and only the end of a pause schedules a pump.              *)
(***************************************************************************)
SetPaused(value) ==
    /\ paused' = value
    /\ pumpPosted' = (pumpPosted \/ ~value)
    /\ UNCHANGED <<state, order, pending, active, process, nextId, stopped,
                   reports>>

(***************************************************************************)
(* A posted pump runs.  pumpPosted stands for one or more posted calls:    *)
(* every change that lets pump go further posts one of its own             *)
(* (WakeupPosted), so the further calls of a batch find nothing to do.     *)
(* A command that cannot be spawned completes inside pump.                 *)
(***************************************************************************)
Runnable == ~stopped /\ ~paused /\ active = NoJob /\ pending # <<>>

PumpIdle ==
    /\ pumpPosted
    /\ ~Runnable
    /\ pumpPosted' = FALSE
    /\ UNCHANGED <<state, order, pending, active, process, nextId, paused,
                   stopped, reports>>

\* Mutant of PumpStart: the newest waiting job starts first.
PumpStartNewest ==
    /\ pumpPosted
    /\ Runnable
    /\ pumpPosted' = FALSE
    /\ active' = Last(pending)
    /\ pending' = Front(pending)
    /\ process' = "running"
    /\ state' = [state EXCEPT ![Last(pending)] = "running"]
    /\ UNCHANGED <<order, nextId, paused, stopped, reports>>

PumpStart ==
    /\ pumpPosted
    /\ Runnable
    /\ pumpPosted' = FALSE
    /\ active' = Head(pending)
    /\ pending' = Tail(pending)
    /\ process' = "running"
    /\ state' = [state EXCEPT ![Head(pending)] = "running"]
    /\ UNCHANGED <<order, nextId, paused, stopped, reports>>

PumpSpawnFails ==
    /\ pumpPosted
    /\ Runnable
    /\ pending' = Tail(pending)
    /\ Complete({Head(pending)}, "failed")
    /\ UNCHANGED <<order, nextId, paused, stopped>>

(***************************************************************************)
(* The child process: its exit is reaped while a pipe is still open, and   *)
(* its result arrives (ChildProcess shows that both happen at most once).  *)
(***************************************************************************)
ProcessReaped ==
    /\ process = "running"
    /\ process' = "draining"
    /\ UNCHANGED <<state, order, pending, active, nextId, paused, stopped,
                   pumpPosted, reports>>

ProcessDone ==
    /\ active # NoJob
    /\ \E outcome \in Ends(process) : Complete({active}, outcome)
    /\ UNCHANGED <<order, pending, nextId, paused, stopped>>

Pump == PumpIdle \/ PumpStart \/ PumpSpawnFails

Cancel == CancelActive \/ \E i \in Ids : CancelQueued(i)

Pause == \E value \in BOOLEAN : SetPaused(value)

Next ==
    \/ Submit
    \/ Cancel
    \/ Stop
    \/ Pause
    \/ Pump
    \/ ProcessReaped
    \/ ProcessDone

Spec == Init /\ [][Next]_vars

(***************************************************************************)
(* Fairness: asio runs every posted handler, and a child ends: it exits,   *)
(* is cancelled, or meets its deadline (settings.timeoutSeconds is 1..     *)
(* 86400, parseSettings).  Clients and the native runtime promise nothing. *)
(***************************************************************************)
QueueFairness == WF_vars(Pump) /\ WF_vars(ProcessDone)

FairSpec == Spec /\ QueueFairness

-----------------------------------------------------------------------------

(***************************************************************************)
(* The type invariant.                                                     *)
(***************************************************************************)
TypeOK ==
    /\ state \in [Ids -> States]
    /\ order \in Seq(Ids)
    /\ pending \in Seq(Ids)
    /\ active \in Ids \cup {NoJob}
    /\ process \in Phases
    /\ nextId \in 1..(MaxJobs + 1)
    /\ paused \in BOOLEAN
    /\ stopped \in BOOLEAN
    /\ pumpPosted \in BOOLEAN
    /\ reports \in [Ids -> Nat]

(***************************************************************************)
(* No job is orphaned: a job is queued exactly while pending holds it,     *)
(* running exactly while it is the active one, and the record of an        *)
(* unfinished job is never evicted (submit searches order for a finished   *)
(* job).  A child process exists exactly while a job is active.            *)
(***************************************************************************)
NoOrphan ==
    /\ \A i \in Ids : state[i] = "queued" <=> i \in ToSet(pending)
    /\ \A i \in Ids : state[i] = "running" <=> i = active
    /\ \A i \in Ids :
         state[i] \in {"queued", "running"} => i \in ToSet(order)
    /\ active = NoJob <=> process = "none"

(***************************************************************************)
(* complete() tells the end of every job once, whichever of the five paths *)
(* ends it: result, spawn failure, cancellation before or after its start, *)
(* shutdown.  An HTTP client and the watcher wait for exactly this call.   *)
(***************************************************************************)
ReportedOnce ==
    \A i \in Ids :
        reports[i] = IF state[i] \in Outcomes \cup {"forgotten"} THEN 1 ELSE 0

(***************************************************************************)
(* No lost wakeup: whenever pump could start a job, a call of it is        *)
(* posted.  It makes one flag for all posted calls exact.                  *)
(***************************************************************************)
WakeupPosted == Runnable => pumpPosted

(***************************************************************************)
(* Both limits hold, and a record can always be evicted: the refusal       *)
(* "retention_capacity" in submit is unreachable, since at most            *)
(* MaxPending + 1 of the retained jobs have not finished.                  *)
(***************************************************************************)
RoomForRecords ==
    /\ Len(pending) <= MaxPending
    /\ Len(order) <= MaxRetained
    /\ Len(order) = MaxRetained => Evictable # {}

(***************************************************************************)
(* What makes the invariants above inductive: both deques hold increasing  *)
(* ids, ids are handed out in order, order lists exactly the retained      *)
(* records, and nothing is left to do once the queue has stopped.          *)
(***************************************************************************)
Increasing(s) == \A k, l \in 1..Len(s) : k < l => s[k] < s[l]

Bookkeeping ==
    /\ Increasing(order)
    /\ Increasing(pending)
    /\ \A i \in Ids : state[i] = "absent" <=> i >= nextId
    /\ \A i \in Ids : i \in ToSet(order) <=> state[i] \notin {"absent", "forgotten"}
    /\ Len(pending) <= MaxPending
    /\ Len(order) <= MaxRetained
    /\ stopped => active = NoJob /\ pending = <<>>

IInv ==
    /\ TypeOK
    /\ NoOrphan
    /\ ReportedOnce
    /\ WakeupPosted
    /\ Bookkeeping

(***************************************************************************)
(* The queue keeps its promise to clients: in particular jobs start one at *)
(* a time in the order of their submission, whatever is cancelled, paused  *)
(* and evicted in between, and a finished record never changes.            *)
(***************************************************************************)
Service == INSTANCE JobService WITH status <- state, open <- ~stopped

Implements == Service!ServiceSpec

(***************************************************************************)
(* Every accepted job ends, provided that native work does not hold the    *)
(* queue paused for ever or again and again.                               *)
(***************************************************************************)
EveryJobEnds ==
    <>[](~paused) =>
        \A i \in Ids : state[i] = "queued" ~> state[i] \in Outcomes \cup {"forgotten"}

=============================================================================
