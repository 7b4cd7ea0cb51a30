------------------------------- MODULE Runtime -------------------------------
(***************************************************************************)
(* The native runtime (apis/runtime: State, Service) over the queue of     *)
(* compatibility jobs, and the shutdown of both (apis/Server).             *)
(*                                                                         *)
(* The io_context thread keeps the queues; one worker thread executes one  *)
(* task at a time and posts what it found back to the io_context, in       *)
(* order.  Both queues write the same databases, so native work pauses the *)
(* compatibility queue and waits, polling, until its child process is      *)
(* gone.  After work that may have changed the facts, a task refreshes the *)
(* global symbol index from them.                                          *)
(*                                                                         *)
(* This module extends JobQueue: a step here is a step of JobQueue, a      *)
(* handler of the runtime, or a step of its worker.  Abstractions: of an   *)
(* operation only its kind matters, and what a task computes is reduced to *)
(* its outcome, to "it wrote facts", and to the reading and the            *)
(* publication of the index.                                               *)
(***************************************************************************)
EXTENDS JobQueue

CONSTANTS
    MaxWork,          \* tasks, or queued jobs, that refuse a submission (64)
    MaxNativeRetained,\* records of native jobs kept (128)
    MaxQueries,       \* reads at one time (64)
    MaxNative,        \* native jobs a behaviour submits (bound of the model)
    MaxCalls,         \* catalog calls of a behaviour (bound of the model)
    EveryWriterOwes   \* whether a change is owed to the index whichever
                      \* command made it, or by the listed ones only (owed)

ASSUME RuntimeAssumption ==
    /\ MaxWork \in Nat \ {0}
    /\ MaxNativeRetained \in Nat
    /\ MaxQueries \in Nat
    /\ MaxNative \in Nat
    /\ MaxCalls \in Nat
    /\ EveryWriterOwes \in BOOLEAN

VARIABLES
    legacyWrote,      \* the active compatibility job has written facts
    ready,            \* context has a value
    kind,             \* per native job: "v1", "v2", or "plain" (a v2 operation
                      \* that does not refresh the index itself)
    native,           \* jobs[id]["state"]; "absent", "forgotten" as in JobQueue
    nativeOrder,      \* order: the retained ids, oldest first
    nextNative,       \* nextId
    admissions,       \* ids whose posted call of run() waits
    work,             \* deque of tasks: a native job, or one of the three below
    task,             \* active: the task that the worker got, or Idle
    phase,            \* what the worker does with it
    verdict,          \* outcome of the v2 job that publishes
    inbox,            \* what the worker posted to the io_context
    retry,            \* the 20 ms timer of pump
    refreshPending,   \* refreshPending
    indexPending,     \* indexStatus["pending"]
    queries,          \* queries
    calls,            \* catalog calls so far
    wrote,            \* the task has written facts that no scan has seen
    owed,             \* a job that succeeded wrote facts, and the index has
                      \* neither been refreshed since nor failed to; of the
                      \* compatibility jobs those that LegacySucceeds names,
                      \* and with EveryWriterOwes all of them
    fresh,            \* no facts were written since the scan began
    draining,         \* the 200 ms timer of drain
    halted            \* io.stop(): no handler runs any more

\* What a call of pump may change, with the two variables of the queue.
pumpVars == <<native, work, task, phase, retry, paused, pumpPosted>>

statusVars == <<refreshPending, indexPending>>

recordVars == <<kind, nativeOrder, nextNative>>

workerVars == <<verdict, wrote, owed, fresh>>

serverVars == <<queries, calls, draining, halted>>

\* What the queue keeps besides paused and pumpPosted.
queueVars == <<state, order, pending, active, process, nextId, stopped, reports>>

nativeVars == <<ready, native, work, task, phase, retry, statusVars, recordVars,
                workerVars, serverVars, admissions, inbox>>

runtimeVars == <<vars, nativeVars, legacyWrote>>

NativeIds == 1..MaxNative

Idle == 0

Refresh == -1

Initialize == -2

CatalogCall == -3

NativeOutcomes == {"succeeded", "failed", "cancelled"}

Live(i) == native[i] \in {"queued", "running", "cancelling"}

QueuedNative == {i \in NativeIds : native[i] = "queued"}

-----------------------------------------------------------------------------

\* serve() has called resources.start() and enters io.run().
RuntimeInit ==
    /\ state = [i \in Ids |-> "absent"]
    /\ order = <<>> /\ pending = <<>>
    /\ active = NoJob /\ process = "none"
    /\ nextId = 1
    /\ paused = TRUE /\ stopped = FALSE /\ pumpPosted = FALSE
    /\ reports = [i \in Ids |-> 0]
    /\ legacyWrote = FALSE
    /\ ready = FALSE
    /\ kind = [i \in NativeIds |-> "none"]
    /\ native = [i \in NativeIds |-> "absent"]
    /\ nativeOrder = <<>> /\ nextNative = 1
    /\ admissions = <<>> /\ work = <<>>
    /\ task = Initialize /\ phase = "execute" /\ verdict = "failed"
    /\ inbox = <<>>
    /\ retry = FALSE
    /\ refreshPending = FALSE /\ indexPending = TRUE
    /\ queries = 0 /\ calls = 0
    /\ wrote = FALSE /\ owed = FALSE /\ fresh = FALSE
    /\ draining = FALSE /\ halted = FALSE

-----------------------------------------------------------------------------
\* The work queue.

\* Mutant of Busy: native work does not wait for the compatibility job.
NeverBusy == FALSE

\* legacy.busy(), in a handler that may have ended the compatibility job.
Busy == active' # NoJob

\* The admit of a task: a job refuses when it was cancelled or evicted.
Admitted(jobs, t) == t \in NativeIds => jobs[t] \notin {"cancelled", "forgotten"}

\* Mutant of TryLater: the timer is not started.
TryLaterNever(r) == [r EXCEPT !.paused = TRUE]

\* The compatibility queue starts nothing new; pump runs again in 20 ms.
TryLater(r) == [r EXCEPT !.paused = TRUE, !.retry = TRUE]

\* Dropping the last task ends the pause, which schedules a pump there.
DropAll(r) == [r EXCEPT !.work = <<>>, !.paused = FALSE, !.posted = TRUE]

StartTask(r, k) ==
    LET t == r.work[k]
    IN  [r EXCEPT !.work = SubSeq(@, k + 1, Len(@)),
                  !.task = t,
                  !.phase = IF t = Refresh THEN "scan" ELSE "execute",
                  !.native = [i \in NativeIds |-> IF i = t THEN "running" ELSE @[i]],
                  !.paused = TRUE]

(***************************************************************************)
(* pump(), for what a handler has made of the records, of the deque and of *)
(* the task so far: tasks are dropped until one is admitted, which starts. *)
(***************************************************************************)
Pumped(jobs, w, t, isPaused, posted) ==
    LET r == [native |-> jobs, work |-> w, task |-> t,
              phase |-> IF t = Idle THEN "idle" ELSE phase,
              paused |-> isPaused, posted |-> posted, retry |-> FALSE]
        fit == {k \in 1..Len(w) : Admitted(jobs, w[k])}
        mayStart == t = Idle /\ ~stopped /\ w # <<>>
    IN  CASE ~mayStart -> r
          [] mayStart /\ Busy -> TryLater(r)
          [] mayStart /\ ~Busy /\ fit = {} -> DropAll(r)
          [] mayStart /\ ~Busy /\ fit # {} -> StartTask(r, Min(fit))

\* The handler ends as pump has left it.
Become(r, armed) ==
    /\ native' = r.native
    /\ work' = r.work
    /\ task' = r.task
    /\ phase' = r.phase
    /\ paused' = r.paused
    /\ pumpPosted' = r.posted
    /\ retry' = (armed \/ r.retry)

Enqueue(jobs, t, posted) ==
    Become(Pumped(jobs, Append(work, t), task, paused, posted), retry)

(***************************************************************************)
(* refresh(), called by a handler: one refresh is pending at a time.       *)
(***************************************************************************)
RefreshIndex(jobs, isReady, posted) ==
    \/ /\ stopped \/ refreshPending \/ ~isReady
       /\ native' = jobs
       /\ pumpPosted' = posted
       /\ UNCHANGED <<work, task, phase, retry, paused, statusVars>>
    \/ /\ ~stopped /\ ~refreshPending /\ isReady
       /\ refreshPending' = TRUE
       /\ indexPending' = TRUE
       /\ Enqueue(jobs, Refresh, posted)

-----------------------------------------------------------------------------
\* Requests.

\* Mutant of Evicts: the oldest record goes, whatever its state.
EvictsAny(k) == k = 1

\* The oldest record that does not wait, run or get cancelled.
Evicts(k) ==
    /\ ~Live(nativeOrder[k])
    /\ \A l \in 1..(k - 1) : Live(nativeOrder[l])

(***************************************************************************)
(* submit(), and retryJob() whose request is a copy of an earlier one: the *)
(* job is queued, and its entry in the work queue is posted.               *)
(***************************************************************************)
SubmitNative ==
    /\ nextNative <= MaxNative
    /\ ready /\ ~stopped
    /\ Cardinality(QueuedNative) < MaxWork /\ Len(work) < MaxWork
    /\ \/ /\ Len(nativeOrder) < MaxNativeRetained
          /\ native' = [native EXCEPT ![nextNative] = "queued"]
          /\ nativeOrder' = Append(nativeOrder, nextNative)
       \/ /\ Len(nativeOrder) >= MaxNativeRetained
          /\ \E k \in 1..Len(nativeOrder) :
               /\ Evicts(k)
               /\ native' = [native EXCEPT ![nextNative] = "queued",
                                           ![nativeOrder[k]] = "forgotten"]
               /\ nativeOrder' = Append(RemoveAt(nativeOrder, k), nextNative)
    /\ nextNative' = nextNative + 1
    /\ \E k \in {"v1", "v2", "plain"} : kind' = [kind EXCEPT ![nextNative] = k]
    /\ admissions' = Append(admissions, nextNative)
    /\ UNCHANGED <<vars, legacyWrote, ready, work, task, phase, inbox, retry,
                   statusVars, workerVars, serverVars>>

(***************************************************************************)
(* The posted call: run() drops a job that was cancelled or evicted in the *)
(* meantime, and enqueues the others.                                      *)
(***************************************************************************)
Admit ==
    /\ ~halted
    /\ admissions # <<>>
    /\ admissions' = Tail(admissions)
    /\ UNCHANGED queueVars
    /\ \/ /\ stopped \/ ~Admitted(native, Head(admissions))
          /\ UNCHANGED pumpVars
       \/ /\ ~stopped /\ Admitted(native, Head(admissions))
          /\ Enqueue(native, Head(admissions), pumpPosted)
    /\ UNCHANGED <<legacyWrote, ready, recordVars, inbox, statusVars, workerVars,
                   serverVars>>

(***************************************************************************)
(* cancel(): a queued job is cancelled and its task left to pump; a v2 job *)
(* that runs is told to stop, a v1 job is refused.                         *)
(***************************************************************************)
CancelNative(i) ==
    /\ \/ native[i] = "queued" /\ native' = [native EXCEPT ![i] = "cancelled"]
       \/ /\ native[i] = "running" /\ kind[i] # "v1"
          /\ native' = [native EXCEPT ![i] = "cancelling"]
    /\ UNCHANGED <<vars, legacyWrote, ready, recordVars, admissions, work, task, phase,
                   inbox, retry, statusVars, workerVars, serverVars>>

\* perform(): a catalog request.
Perform ==
    /\ calls < MaxCalls
    /\ ready /\ ~stopped
    /\ Len(work) < MaxWork
    /\ calls' = calls + 1
    /\ UNCHANGED queueVars
    /\ Enqueue(native, CatalogCall, pumpPosted)
    /\ UNCHANGED <<legacyWrote, ready, recordVars, admissions, inbox, statusVars,
                   workerVars, queries, draining, halted>>

(***************************************************************************)
(* search(), read(), get(), inspect(): a reader thread answers.  The last  *)
(* two accept a request while the server stops.                            *)
(***************************************************************************)
ReadStarts ==
    /\ ready /\ ~halted
    /\ queries < MaxQueries
    /\ queries' = queries + 1
    /\ UNCHANGED <<vars, legacyWrote, pumpVars, ready, recordVars, admissions, inbox,
                   statusVars, workerVars, calls, draining, halted>>

ReadEnds ==
    /\ queries > 0
    /\ queries' = queries - 1
    /\ UNCHANGED <<vars, legacyWrote, pumpVars, ready, recordVars, admissions, inbox,
                   statusVars, workerVars, calls, draining, halted>>

-----------------------------------------------------------------------------
\* The worker thread.

Posts(messages) == inbox' = inbox \o messages

(***************************************************************************)
(* execute() of a job ends: cancelled only when its token was set, by      *)
(* cancel() or stop().  A v2 job that changes facts goes on to publish the *)
(* index, whatever its outcome; the others post complete().                *)
(***************************************************************************)
Verdicts == {"succeeded", "failed"}
            \cup (IF stopped \/ native[task] = "cancelling" THEN {"cancelled"} ELSE {})

Execute ==
    /\ phase = "execute"
    /\ \/ /\ task = Initialize
          /\ \E m \in {"context", "nocontext"} : Posts(<<m, "idle">>)
          /\ phase' = "idle"
          /\ UNCHANGED <<verdict, wrote>>
       \/ /\ task = CatalogCall
          /\ \E m \in {"catalog", "changed"} : Posts(<<m, "idle">>)
          /\ phase' = "idle"
          /\ UNCHANGED <<verdict, wrote>>
       \/ /\ task \in NativeIds /\ kind[task] # "v2"
          /\ \E outcome \in Verdicts : Posts(<<outcome, "idle">>)
          /\ wrote' \in (IF kind[task] = "v1" THEN BOOLEAN ELSE {wrote})
          /\ phase' = "idle"
          /\ UNCHANGED verdict
       \/ /\ task \in NativeIds /\ kind[task] = "v2"
          /\ verdict' \in Verdicts
          /\ wrote' \in BOOLEAN
          /\ phase' = "scan"
          /\ UNCHANGED inbox
    /\ UNCHANGED <<vars, legacyWrote, ready, recordVars, native, admissions, work, task,
                   retry, statusVars, owed, fresh, serverVars>>

\* index::refresh reads the facts databases ...
Scan ==
    /\ phase = "scan"
    /\ phase' = "publish"
    /\ fresh' = TRUE
    /\ UNCHANGED <<vars, legacyWrote, ready, recordVars, native, admissions, work, task,
                   verdict, inbox, retry, statusVars, wrote, owed, serverVars>>

\* Mutant of Publishes: the end of the task is posted before its result.
PublishesLate ==
    /\ owed' = (owed /\ ~fresh)
    /\ wrote' = (wrote /\ ~fresh)
    /\ Posts(IF task = Refresh THEN <<"idle", "indexed">>
             ELSE <<"indexed", verdict, "idle">>)

\* ... and publishes what it has read,
Publishes ==
    /\ owed' = (owed /\ ~fresh)
    /\ wrote' = (wrote /\ ~fresh)
    /\ Posts(IF task = Refresh THEN <<"indexed", "idle">>
             ELSE <<"indexed", verdict, "idle">>)

\* ... or fails, and so does the job.
PublishFails ==
    /\ owed' = (owed /\ task # Refresh)
    /\ UNCHANGED wrote
    /\ Posts(IF task = Refresh THEN <<"unindexed", "idle">>
             ELSE <<IF verdict = "succeeded" THEN "failed" ELSE verdict, "idle">>)

Publish ==
    /\ phase = "publish"
    /\ phase' = "idle"
    /\ Publishes \/ PublishFails
    /\ UNCHANGED <<vars, legacyWrote, ready, recordVars, native, admissions, work, task,
                   verdict, retry, statusVars, fresh, serverVars>>

-----------------------------------------------------------------------------
\* Handlers of what the worker has posted.

Receives(message) ==
    /\ inbox # <<>>
    /\ Head(inbox) = message
    /\ inbox' = Tail(inbox)

(***************************************************************************)
(* complete(): the end of a job.  A v1 job that succeeded has the index    *)
(* refreshed.                                                              *)
(***************************************************************************)
Completed(outcome) ==
    /\ Receives(outcome)
    /\ wrote' = FALSE
    /\ owed' = (owed \/ (outcome = "succeeded" /\ wrote))
    /\ UNCHANGED queueVars
    /\ LET jobs == [native EXCEPT ![task] = outcome]
       IN  \/ /\ outcome = "succeeded" /\ kind[task] = "v1"
              /\ RefreshIndex(jobs, ready, pumpPosted)
           \/ /\ outcome # "succeeded" \/ kind[task] # "v1"
              /\ native' = jobs
              /\ UNCHANGED <<work, task, phase, retry, paused, pumpPosted, statusVars>>
    /\ UNCHANGED <<legacyWrote, ready, recordVars, admissions, verdict, fresh, serverVars>>

\* indexed(): a refresh is over.
Indexed ==
    /\ Receives("indexed") \/ Receives("unindexed")
    /\ refreshPending' = FALSE
    /\ indexPending' = FALSE
    /\ UNCHANGED <<vars, legacyWrote, pumpVars, ready, recordVars, admissions, workerVars,
                   serverVars>>

\* The initial task has resolved the project, or not (indexed() again).
ContextResolved ==
    /\ Receives("context")
    /\ UNCHANGED queueVars
    /\ \/ /\ stopped
          /\ UNCHANGED <<ready, pumpVars, statusVars>>
       \/ /\ ~stopped
          /\ ready' = TRUE
          /\ RefreshIndex(native, TRUE, pumpPosted)
    /\ UNCHANGED <<legacyWrote, recordVars, admissions, workerVars, serverVars>>

ContextFailed ==
    /\ Receives("nocontext")
    /\ refreshPending' = (refreshPending /\ stopped)
    /\ indexPending' = (indexPending /\ stopped)
    /\ UNCHANGED <<vars, legacyWrote, pumpVars, ready, recordVars, admissions, workerVars,
                   serverVars>>

\* The completion of a catalog request: a change has the index refreshed.
CatalogAnswered ==
    /\ UNCHANGED queueVars
    /\ \/ Receives("catalog") /\ UNCHANGED <<pumpVars, statusVars>>
       \/ Receives("changed") /\ RefreshIndex(native, ready, pumpPosted)
    /\ UNCHANGED <<legacyWrote, ready, recordVars, admissions, workerVars, serverVars>>

\* The task is over: the pause ends, and pump starts the next task.
TaskDone ==
    /\ Receives("idle")
    /\ UNCHANGED queueVars
    /\ Become(Pumped(native, work, Idle, FALSE, TRUE), retry)
    /\ UNCHANGED <<legacyWrote, ready, recordVars, admissions, statusVars, workerVars,
                   serverVars>>

Deliver ==
    \/ \E outcome \in NativeOutcomes : Completed(outcome)
    \/ Indexed
    \/ ContextResolved
    \/ ContextFailed
    \/ CatalogAnswered
    \/ TaskDone

\* The timer of pump.
Retry ==
    /\ retry
    /\ UNCHANGED queueVars
    /\ Become(Pumped(native, work, task, paused, pumpPosted), FALSE)
    /\ UNCHANGED <<legacyWrote, ready, recordVars, admissions, inbox, statusVars,
                   workerVars, serverVars>>

-----------------------------------------------------------------------------
\* The compatibility queue.

(***************************************************************************)
(* Steps of JobQueue that tell the runtime nothing.                        *)
(***************************************************************************)
LegacyPump == ~halted /\ Pump /\ UNCHANGED <<legacyWrote, nativeVars>>

LegacyStep ==
    /\ Submit \/ Cancel \/ ProcessReaped
    /\ legacyWrote' = (legacyWrote /\ active' = active)
    /\ UNCHANGED nativeVars

\* The command of the active job writes facts (another process).
LegacyWrites ==
    /\ active # NoJob /\ process \in {"running", "cancelling"}
    /\ legacyWrote' = TRUE
    /\ fresh' = FALSE
    /\ UNCHANGED <<vars, pumpVars, ready, recordVars, admissions, inbox, statusVars,
                   verdict, wrote, owed, serverVars>>

(***************************************************************************)
(* The observer asks for no refresh: the job ends without success, or the  *)
(* first word of its command is none of the observer's.  Such a job may    *)
(* have written facts and succeed, as analyse dependency and analyse       *)
(* call-graph --recover-missing do.                                        *)
(***************************************************************************)
LegacyEnds ==
    /\ active # NoJob
    /\ \E outcome \in Ends(process) :
         /\ Complete({active}, outcome)
         /\ owed' = (owed \/ (EveryWriterOwes /\ outcome = "succeeded" /\ legacyWrote))
    /\ legacyWrote' = FALSE
    /\ UNCHANGED <<order, pending, nextId, paused, stopped, native, work, task, phase,
                   retry, ready, statusVars, recordVars, verdict, wrote, fresh, serverVars,
                   admissions, inbox>>

(***************************************************************************)
(* An extract, match or import job succeeds: the observer refreshes the    *)
(* index in the handler that completes the job.  (It names dependency too, *)
(* but that word is never the first: the command is analyse dependency.)   *)
(***************************************************************************)
LegacySucceeds ==
    /\ active # NoJob
    /\ "succeeded" \in Ends(process)
    /\ Complete({active}, "succeeded")
    /\ legacyWrote' = FALSE
    /\ owed' = (owed \/ legacyWrote)
    /\ UNCHANGED <<order, pending, nextId, stopped>>
    /\ RefreshIndex(native, ready, TRUE)
    /\ UNCHANGED <<ready, recordVars, admissions, inbox, verdict, wrote, fresh, serverVars>>

-----------------------------------------------------------------------------
\* Shutdown.

\* stop(): what waits is cancelled, a running job is told to stop.
StopNative ==
    /\ work' = <<>>
    /\ retry' = FALSE
    /\ native' = [i \in NativeIds |->
                    IF native[i] = "queued" THEN "cancelled" ELSE native[i]]

(***************************************************************************)
(* router.shutdown: resources.stop() ends the pause, even while a task     *)
(* runs, but jobs.stop() follows in the same handler.  (The pump posted by *)
(* the former would find the queue stopped and is left out.)               *)
(***************************************************************************)
Shutdown ==
    /\ ~stopped
    /\ stopped' = TRUE
    /\ StopNative
    /\ paused' = FALSE
    /\ pending' = <<>>
    /\ Complete(ToSet(pending) \cup ({active} \ {NoJob}), "cancelled")
    /\ legacyWrote' = FALSE
    /\ draining' = TRUE
    /\ UNCHANGED <<order, nextId, ready, recordVars, admissions, task, phase, inbox,
                   statusVars, workerVars, queries, calls, halted>>

\* Mutant of Drain: the worker is not waited for.
DrainReadersOnly ==
    /\ draining
    /\ queries = 0
    /\ draining' = FALSE
    /\ halted' = TRUE
    /\ UNCHANGED <<vars, legacyWrote, pumpVars, ready, recordVars, admissions, inbox,
                   statusVars, workerVars, queries, calls>>

\* Mutant of Drain: a busy server is not looked at again.
DrainOnce ==
    /\ draining
    /\ draining' = FALSE
    /\ halted' = (task = Idle /\ queries = 0)
    /\ UNCHANGED <<vars, legacyWrote, pumpVars, ready, recordVars, admissions, inbox,
                   statusVars, workerVars, queries, calls>>

\* drain(): every 200 ms, until the worker and the readers are done.
Drain ==
    /\ draining
    /\ task = Idle /\ queries = 0
    /\ draining' = FALSE
    /\ halted' = TRUE
    /\ UNCHANGED <<vars, legacyWrote, pumpVars, ready, recordVars, admissions, inbox,
                   statusVars, workerVars, queries, calls>>

-----------------------------------------------------------------------------

Worker == Execute \/ Scan \/ Publish

LegacyDone == LegacyEnds \/ LegacySucceeds

RuntimeNext ==
    \/ SubmitNative
    \/ Admit
    \/ \E i \in NativeIds : CancelNative(i)
    \/ Perform
    \/ ReadStarts
    \/ ReadEnds
    \/ Worker
    \/ Deliver
    \/ Retry
    \/ LegacyPump
    \/ LegacyStep
    \/ LegacyWrites
    \/ LegacyDone
    \/ Shutdown
    \/ Drain

RuntimeSpec == RuntimeInit /\ [][RuntimeNext]_runtimeVars

(***************************************************************************)
(* Fairness: the worker and the readers get on, asio runs what was posted  *)
(* and expires its timers, and a child process ends (ChildProcess).        *)
(***************************************************************************)
FairRuntimeSpec ==
    /\ RuntimeSpec
    /\ WF_runtimeVars(Worker) /\ WF_runtimeVars(ReadEnds)
    /\ WF_runtimeVars(Deliver) /\ WF_runtimeVars(Admit)
    /\ WF_runtimeVars(Retry) /\ WF_runtimeVars(Drain)
    /\ WF_runtimeVars(LegacyPump) /\ WF_runtimeVars(LegacyDone)

-----------------------------------------------------------------------------

(***************************************************************************)
(* The type invariant of what this module adds to JobQueue.                *)
(***************************************************************************)
Tasks == NativeIds \cup {Refresh, Initialize, CatalogCall}

NativeStates == NativeOutcomes \cup {"absent", "queued", "running", "cancelling", "forgotten"}

RuntimeTypeOK ==
    /\ <<legacyWrote, ready, retry, refreshPending, indexPending>>
         \in BOOLEAN \X BOOLEAN \X BOOLEAN \X BOOLEAN \X BOOLEAN
    /\ <<wrote, owed, fresh, draining, halted>>
         \in BOOLEAN \X BOOLEAN \X BOOLEAN \X BOOLEAN \X BOOLEAN
    /\ native \in [NativeIds -> NativeStates]
    /\ kind \in [NativeIds -> {"none", "v1", "v2", "plain"}]
    /\ nextNative \in 1..(MaxNative + 1)
    /\ nativeOrder \in Seq(NativeIds)
    /\ admissions \in Seq(NativeIds)
    /\ work \in Seq(Tasks)
    /\ task \in Tasks \cup {Idle}
    /\ phase \in {"idle", "execute", "scan", "publish"}
    /\ verdict \in NativeOutcomes
    /\ queries \in 0..MaxQueries
    /\ calls \in 0..MaxCalls

(***************************************************************************)
(* "Coordinated queues serialize mutating native, compatibility and        *)
(* watcher work": the worker never has a task while a compatibility job    *)
(* runs, although stop() ends the pause under a running task.              *)
(***************************************************************************)
MutualExclusion == task # Idle => active = NoJob

(***************************************************************************)
(* No refresh that was asked for is lost: when a job whose end asks for    *)
(* one wrote facts that are not indexed, a refresh that will read them is  *)
(* still to come, though refresh() does nothing while an earlier one is    *)
(* pending.  With EveryWriterOwes, which asks it of every job that         *)
(* succeeded, it does not hold: see LegacyEnds.                            *)
(***************************************************************************)
RefreshAhead ==
    \/ Refresh \in ToSet(work)
    \/ task = Refresh /\ (phase = "scan" \/ (phase = "publish" /\ fresh))

NoLostRefresh == owed /\ ready /\ ~stopped => RefreshAhead

(***************************************************************************)
(* A native job is accounted for until it ends: a queued one will be       *)
(* admitted or waits in work, a running one is the worker's task, and the  *)
(* record of either is retained (complete() looks it up without a test).   *)
(***************************************************************************)
NativeNoOrphan ==
    \A i \in NativeIds :
      /\ native[i] = "queued" => i \in ToSet(admissions) \cup ToSet(work)
      /\ native[i] \in {"running", "cancelling"} => i = task
      /\ Live(i) => i \in ToSet(nativeOrder)
      /\ task = i /\ inbox # <<>> /\ Head(inbox) \in NativeOutcomes => Live(i)

(***************************************************************************)
(* When io.stop() is called, nothing of either queue is left: no child,    *)
(* no running task, no undelivered result, no job without an end.          *)
(***************************************************************************)
ShutdownClean ==
    halted => /\ active = NoJob /\ task = Idle /\ inbox = <<>> /\ queries = 0
              /\ \A i \in NativeIds : ~Live(i)
              /\ \A i \in Ids : state[i] \notin {"queued", "running"}

(***************************************************************************)
(* The two queues do not wait for each other for ever: every job accepted  *)
(* by either ends.  (Native work is finite here; the code prefers it, and  *)
(* endless native work would starve compatibility jobs.)                   *)
(***************************************************************************)
JobsOfBothQueuesEnd ==
    /\ \A i \in Ids :
         state[i] = "queued" ~> state[i] \in Outcomes \cup {"forgotten"}
    /\ \A i \in NativeIds :
         native[i] = "queued" ~> native[i] \in NativeOutcomes \cup {"forgotten"}

(***************************************************************************)
(* A requested shutdown completes, provided that clients stop reading.     *)
(***************************************************************************)
ShutdownCompletes == <>[](queries = 0) => (stopped ~> halted)

-----------------------------------------------------------------------------

=============================================================================
