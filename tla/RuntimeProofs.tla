--------------------------- MODULE RuntimeProofs ---------------------------
(***************************************************************************)
(* Proofs about Runtime for every number of jobs and every limit: native   *)
(* work and compatibility jobs exclude each other, the compatibility queue *)
(* keeps its invariants although the runtime pauses it, no native job is   *)
(* orphaned, no change is lost to the index, and a shutdown leaves nothing *)
(* behind.                                                                 *)
(***************************************************************************)
EXTENDS Runtime, JobQueueProofs, WellFoundedInduction

(***************************************************************************)
(* Exclusion.  MutualExclusion is not inductive: a compatibility job       *)
(* starts whenever the queue is not paused.  ExclusionInv adds what every  *)
(* handler keeps, that the pause lasts as long as the worker has a task,   *)
(* with the one exception that shutdown makes.                             *)
(***************************************************************************)
PausedForTask == task # Idle /\ ~stopped => paused

ExclusionInv == MutualExclusion /\ PausedForTask

(***************************************************************************)
(* What pump does to the exclusion: it starts a task only when no          *)
(* compatibility job is left, and then the queue is paused; with a task    *)
(* already under way it changes neither the task nor the pause.            *)
(***************************************************************************)
LEMMA PumpedFacts ==
    ASSUME NEW STATE jobs, NEW STATE w, NEW STATE t, NEW STATE isPaused, NEW STATE posted
    PROVE  LET r == Pumped(jobs, w, t, isPaused, posted)
           IN  /\ t # Idle => r.task = t /\ r.paused = isPaused
               /\ t = Idle /\ r.task # Idle => active' = NoJob /\ r.paused = TRUE
  <1> DEFINE r == Pumped(jobs, w, t, isPaused, posted)
             base == [native |-> jobs, work |-> w, task |-> t,
                      phase |-> IF t = Idle THEN "idle" ELSE phase,
                      paused |-> isPaused, posted |-> posted, retry |-> FALSE]
             fit == {k \in 1..Len(w) : Admitted(jobs, w[k])}
             mayStart == t = Idle /\ ~stopped /\ w # <<>>
  <1>1. r = CASE ~mayStart -> base
              [] mayStart /\ Busy -> TryLater(base)
              [] mayStart /\ ~Busy /\ fit = {} -> DropAll(base)
              [] mayStart /\ ~Busy /\ fit # {} -> StartTask(base, Min(fit))
    BY DEF Pumped
  <1>2. base.task = t /\ base.paused = isPaused
    OBVIOUS
  <1>3. TryLater(base).task = t
    BY DEF TryLater
  <1>4. DropAll(base).task = t
    BY DEF DropAll
  <1>5. StartTask(base, Min(fit)).paused = TRUE
    BY DEF StartTask
  <1>6. mayStart => t = Idle
    OBVIOUS
  <1>7. Busy <=> active' # NoJob
    BY DEF Busy
  <1> HIDE DEF r, base, fit, mayStart
  <1> SUFFICES /\ t # Idle => r.task = t /\ r.paused = isPaused
               /\ t = Idle /\ r.task # Idle => active' = NoJob /\ r.paused = TRUE
    BY DEF r
  <1>8. CASE ~mayStart
    <2>1. r = base
      BY <1>1, <1>8
    <2> QED BY <2>1, <1>2
  <1>9. CASE mayStart /\ Busy
    <2>1. r = TryLater(base)
      BY <1>1, <1>9
    <2> QED BY <2>1, <1>3, <1>6, <1>9
  <1>10. CASE mayStart /\ ~Busy /\ fit = {}
    <2>1. r = DropAll(base)
      BY <1>1, <1>10
    <2> QED BY <2>1, <1>4, <1>6, <1>10
  <1>11. CASE mayStart /\ ~Busy /\ fit # {}
    <2>1. r = StartTask(base, Min(fit))
      BY <1>1, <1>11
    <2> QED BY <2>1, <1>5, <1>6, <1>7, <1>11
  <1> QED BY <1>8, <1>9, <1>10, <1>11

(***************************************************************************)
(* A handler that calls pump keeps the invariant, whatever it puts in the  *)
(* queue, if it leaves the task and the pause alone.                       *)
(***************************************************************************)
LEMMA BecomeKeeps ==
    ASSUME NEW STATE jobs, NEW STATE w, NEW STATE posted, NEW STATE armed,
           ExclusionInv,
           Become(Pumped(jobs, w, task, paused, posted), armed),
           active' = active \/ active' = NoJob,
           stopped' = stopped
    PROVE  ExclusionInv'
  <1> DEFINE r == Pumped(jobs, w, task, paused, posted)
  <1>1. /\ task # Idle => r.task = task /\ r.paused = paused
        /\ task = Idle /\ r.task # Idle => active' = NoJob /\ r.paused = TRUE
    BY PumpedFacts
  <1>2. task' = r.task /\ paused' = r.paused
    BY DEF Become
  <1> HIDE DEF r
  <1>3. CASE task = Idle
    BY <1>1, <1>2, <1>3 DEF ExclusionInv, MutualExclusion, PausedForTask
  <1>4. CASE task # Idle
    BY <1>1, <1>2, <1>4 DEF ExclusionInv, MutualExclusion, PausedForTask
  <1> QED BY <1>3, <1>4

LEMMA EnqueueKeeps ==
    ASSUME NEW STATE jobs, NEW STATE t, NEW STATE posted,
           ExclusionInv,
           Enqueue(jobs, t, posted),
           active' = active \/ active' = NoJob,
           stopped' = stopped
    PROVE  ExclusionInv'
  BY BecomeKeeps DEF Enqueue

LEMMA RefreshKeeps ==
    ASSUME NEW STATE jobs, NEW STATE isReady, NEW STATE posted,
           ExclusionInv,
           RefreshIndex(jobs, isReady, posted),
           active' = active \/ active' = NoJob,
           stopped' = stopped
    PROVE  ExclusionInv'
  <1>1. CASE Enqueue(jobs, Refresh, posted)
    BY <1>1, EnqueueKeeps
  <1>2. CASE UNCHANGED <<work, task, phase, retry, paused, statusVars>>
    BY <1>2 DEF ExclusionInv, MutualExclusion, PausedForTask
  <1> QED BY <1>1, <1>2 DEF RefreshIndex

\* complete() of the queue can only end the active job.
LEMMA CompleteFrees ==
    ASSUME NEW STATE jobs, NEW STATE outcome, Complete(jobs, outcome)
    PROVE  active' = active \/ active' = NoJob
  BY DEF Complete

-----------------------------------------------------------------------------

LEMMA ExclusionInit == RuntimeInit => ExclusionInv
  BY DEF RuntimeInit, ExclusionInv, MutualExclusion, PausedForTask

\* Steps that change neither task, nor paused, nor active, nor stopped.
LEMMA StillKeeps ==
    ASSUME ExclusionInv, UNCHANGED <<task, paused, active, stopped>>
    PROVE  ExclusionInv'
  BY DEF ExclusionInv, MutualExclusion, PausedForTask

LEMMA RequestsKeep ==
    ASSUME ExclusionInv,
           \/ SubmitNative \/ Admit \/ (\E i \in NativeIds : CancelNative(i))
           \/ Perform \/ ReadStarts \/ ReadEnds
    PROVE  ExclusionInv'
  <1>1. CASE SubmitNative
    BY <1>1, StillKeeps DEF SubmitNative, vars
  <1>2. CASE Admit
    <2>1. active' = active /\ stopped' = stopped
      BY <1>2 DEF Admit, queueVars
    <2>2. CASE UNCHANGED pumpVars
      BY <2>1, <2>2, StillKeeps DEF pumpVars
    <2>3. CASE Enqueue(native, Head(admissions), pumpPosted)
      BY <2>1, <2>3, EnqueueKeeps
    <2> QED BY <1>2, <2>2, <2>3 DEF Admit
  <1>3. CASE \E i \in NativeIds : CancelNative(i)
    <2>1. UNCHANGED <<task, paused, active, stopped>>
      BY <1>3 DEF CancelNative, vars
    <2> QED BY <2>1, StillKeeps
  <1>4. CASE Perform
    <2>1. active' = active /\ stopped' = stopped
      BY <1>4 DEF Perform, queueVars
    <2> QED BY <1>4, <2>1, EnqueueKeeps DEF Perform
  <1>5. CASE ReadStarts
    BY <1>5, StillKeeps DEF ReadStarts, vars, pumpVars
  <1>6. CASE ReadEnds
    BY <1>6, StillKeeps DEF ReadEnds, vars, pumpVars
  <1> QED BY <1>1, <1>2, <1>3, <1>4, <1>5, <1>6

LEMMA WorkerKeeps ==
    ASSUME ExclusionInv, Worker
    PROVE  ExclusionInv'
  <1>1. CASE Execute
    BY <1>1, StillKeeps DEF Execute, vars
  <1>2. CASE Scan
    BY <1>2, StillKeeps DEF Scan, vars
  <1>3. CASE Publish
    BY <1>3, StillKeeps DEF Publish, vars
  <1> QED BY <1>1, <1>2, <1>3 DEF Worker

LEMMA DeliverKeeps ==
    ASSUME ExclusionInv, Deliver
    PROVE  ExclusionInv'
  <1>1. ASSUME NEW outcome \in NativeOutcomes, Completed(outcome)
        PROVE  ExclusionInv'
    <2>1. active' = active /\ stopped' = stopped
      BY <1>1 DEF Completed, queueVars
    <2>2. CASE UNCHANGED <<work, task, phase, retry, paused, pumpPosted, statusVars>>
      BY <2>1, <2>2, StillKeeps
    <2>3. CASE RefreshIndex([native EXCEPT ![task] = outcome], ready, pumpPosted)
      BY <2>1, <2>3, RefreshKeeps
    <2> QED BY <1>1, <2>2, <2>3 DEF Completed
  <1>2. CASE Indexed
    BY <1>2, StillKeeps DEF Indexed, vars, pumpVars
  <1>3. CASE ContextResolved
    <2>1. active' = active /\ stopped' = stopped
      BY <1>3 DEF ContextResolved, queueVars
    <2>2. CASE UNCHANGED <<ready, pumpVars, statusVars>>
      BY <2>1, <2>2, StillKeeps DEF pumpVars
    <2>3. CASE RefreshIndex(native, TRUE, pumpPosted)
      BY <2>1, <2>3, RefreshKeeps
    <2> QED BY <1>3, <2>2, <2>3 DEF ContextResolved
  <1>4. CASE ContextFailed
    BY <1>4, StillKeeps DEF ContextFailed, vars, pumpVars
  <1>5. CASE CatalogAnswered
    <2>1. active' = active /\ stopped' = stopped
      BY <1>5 DEF CatalogAnswered, queueVars
    <2>2. CASE UNCHANGED <<pumpVars, statusVars>>
      BY <2>1, <2>2, StillKeeps DEF pumpVars
    <2>3. CASE RefreshIndex(native, ready, pumpPosted)
      BY <2>1, <2>3, RefreshKeeps
    <2> QED BY <1>5, <2>2, <2>3 DEF CatalogAnswered
  <1>6. CASE TaskDone
    <2> DEFINE r == Pumped(native, work, Idle, FALSE, TRUE)
    <2>1. Idle = Idle /\ r.task # Idle => active' = NoJob /\ r.paused = TRUE
      BY PumpedFacts
    <2>2. task' = r.task /\ paused' = r.paused
      BY <1>6 DEF TaskDone, Become
    <2> HIDE DEF r
    <2> QED BY <2>1, <2>2 DEF ExclusionInv, MutualExclusion, PausedForTask
  <1> QED BY <1>1, <1>2, <1>3, <1>4, <1>5, <1>6 DEF Deliver

LEMMA RetryKeeps ==
    ASSUME ExclusionInv, Retry
    PROVE  ExclusionInv'
  <1>1. active' = active /\ stopped' = stopped
    BY DEF Retry, queueVars
  <1> QED BY <1>1, BecomeKeeps DEF Retry

(***************************************************************************)
(* The compatibility queue starts a job only when it is neither paused nor *)
(* stopped, hence only when the worker has no task.                        *)
(***************************************************************************)
LEMMA LegacyKeeps ==
    ASSUME ExclusionInv,
           LegacyPump \/ LegacyStep \/ LegacyWrites \/ LegacyDone
    PROVE  ExclusionInv'
  <1>1. CASE LegacyPump
    <2>1. task' = task
      BY <1>1 DEF LegacyPump, nativeVars
    <2>2. CASE PumpIdle
      BY <2>1, <2>2, StillKeeps DEF PumpIdle
    <2>3. CASE PumpStart
      <3>1. ~stopped /\ ~paused /\ stopped' = stopped /\ paused' = paused
        BY <2>3 DEF PumpStart, Runnable
      <3>2. task = Idle
        BY <3>1 DEF ExclusionInv, PausedForTask
      <3> QED BY <2>1, <3>1, <3>2 DEF ExclusionInv, MutualExclusion, PausedForTask
    <2>4. CASE PumpSpawnFails
      <3>1. active' = active \/ active' = NoJob
        BY <2>4, CompleteFrees DEF PumpSpawnFails
      <3>2. stopped' = stopped /\ paused' = paused
        BY <2>4 DEF PumpSpawnFails
      <3> QED BY <2>1, <3>1, <3>2 DEF ExclusionInv, MutualExclusion, PausedForTask
    <2> QED BY <1>1, <2>2, <2>3, <2>4 DEF LegacyPump, Pump
  <1>2. CASE LegacyStep
    <2>1. task' = task
      BY <1>2 DEF LegacyStep, nativeVars
    <2>2. CASE Submit
      BY <2>1, <2>2, StillKeeps DEF Submit
    <2>3. CASE CancelActive
      <3>1. active' = active \/ active' = NoJob
        BY <2>3, CompleteFrees DEF CancelActive
      <3>2. stopped' = stopped /\ paused' = paused
        BY <2>3 DEF CancelActive
      <3> QED BY <2>1, <3>1, <3>2 DEF ExclusionInv, MutualExclusion, PausedForTask
    <2>4. CASE \E i \in Ids : CancelQueued(i)
      <3>1. active' = active \/ active' = NoJob
        BY <2>4, CompleteFrees DEF CancelQueued
      <3>2. stopped' = stopped /\ paused' = paused
        BY <2>4 DEF CancelQueued
      <3> QED BY <2>1, <3>1, <3>2 DEF ExclusionInv, MutualExclusion, PausedForTask
    <2>5. CASE ProcessReaped
      BY <2>1, <2>5, StillKeeps DEF ProcessReaped
    <2> QED BY <1>2, <2>2, <2>3, <2>4, <2>5 DEF LegacyStep, Cancel
  <1>3. CASE LegacyWrites
    BY <1>3, StillKeeps DEF LegacyWrites, vars, pumpVars
  <1>4. CASE LegacyEnds
    <2>1. active' = active \/ active' = NoJob
      BY <1>4, CompleteFrees DEF LegacyEnds
    <2>2. stopped' = stopped /\ paused' = paused /\ task' = task
      BY <1>4 DEF LegacyEnds
    <2> QED BY <2>1, <2>2 DEF ExclusionInv, MutualExclusion, PausedForTask
  <1>5. CASE LegacySucceeds
    <2>1. active' = active \/ active' = NoJob
      BY <1>5, CompleteFrees DEF LegacySucceeds
    <2>2. stopped' = stopped
      BY <1>5 DEF LegacySucceeds
    <2> QED BY <1>5, <2>1, <2>2, RefreshKeeps DEF LegacySucceeds
  <1> QED BY <1>1, <1>2, <1>3, <1>4, <1>5 DEF LegacyDone

\* Shutdown ends the pause, but no compatibility job survives it.
LEMMA ShutdownKeeps ==
    ASSUME ExclusionInv, Shutdown \/ Drain
    PROVE  ExclusionInv'
  <1>1. CASE Shutdown
    <2>1. active' = active \/ active' = NoJob
      BY <1>1, CompleteFrees DEF Shutdown
    <2>2. stopped' = TRUE /\ task' = task
      BY <1>1 DEF Shutdown
    <2> QED BY <2>1, <2>2 DEF ExclusionInv, MutualExclusion, PausedForTask
  <1>2. CASE Drain
    BY <1>2, StillKeeps DEF Drain, vars, pumpVars
  <1> QED BY <1>1, <1>2

LEMMA ExclusionKept == ExclusionInv /\ [RuntimeNext]_runtimeVars => ExclusionInv'
  <1> SUFFICES ASSUME ExclusionInv, [RuntimeNext]_runtimeVars
               PROVE  ExclusionInv'
    OBVIOUS
  <1>1. CASE UNCHANGED runtimeVars
    BY <1>1, StillKeeps DEF runtimeVars, vars, nativeVars
  <1>2. CASE RuntimeNext
    BY <1>2, RequestsKeep, WorkerKeeps, DeliverKeeps, RetryKeeps, LegacyKeeps,
       ShutdownKeeps DEF RuntimeNext
  <1> QED BY <1>1, <1>2

(***************************************************************************)
(* Native tasks and compatibility jobs never run at the same time, in      *)
(* every behaviour of the server and with any limits.                      *)
(***************************************************************************)
THEOREM QueuesExclude == RuntimeSpec => []MutualExclusion
  <1>1. ExclusionInv => MutualExclusion
    BY DEF ExclusionInv
  <1> QED BY ExclusionInit, ExclusionKept, <1>1, PTL DEF RuntimeSpec

-----------------------------------------------------------------------------
(***************************************************************************)
(* What a handler that calls pump has done, as three cases: nothing could  *)
(* start; every task was dropped; or the first task that was admitted has  *)
(* started, and those before it were dropped.                              *)
(***************************************************************************)
PumpRests(jobs, w, t, isPaused, posted) ==
    /\ t # Idle \/ stopped \/ w = <<>> \/ active' # NoJob
    /\ native' = jobs /\ work' = w /\ task' = t
    /\ phase' = IF t = Idle THEN "idle" ELSE phase
    /\ paused' = isPaused \/ paused' = TRUE
    /\ pumpPosted' = posted

PumpDrops(jobs, w, t) ==
    /\ t = Idle /\ ~stopped
    /\ \A k \in 1..Len(w) : ~Admitted(jobs, w[k])
    /\ native' = jobs /\ work' = <<>> /\ task' = Idle /\ phase' = "idle"
    /\ paused' = FALSE /\ pumpPosted' = TRUE

PumpStarts(jobs, w, t, posted, k) ==
    /\ t = Idle /\ ~stopped /\ active' = NoJob
    /\ Admitted(jobs, w[k])
    /\ \A l \in 1..Len(w) : l < k => ~Admitted(jobs, w[l])
    /\ native' = [i \in NativeIds |-> IF i = w[k] THEN "running" ELSE jobs[i]]
    /\ work' = SubSeq(w, k + 1, Len(w)) /\ task' = w[k]
    /\ phase' = IF w[k] = Refresh THEN "scan" ELSE "execute"
    /\ paused' = TRUE /\ pumpPosted' = posted

PumpDone(jobs, w, t, isPaused, posted) ==
    \/ PumpRests(jobs, w, t, isPaused, posted)
    \/ PumpDrops(jobs, w, t)
    \/ \E k \in 1..Len(w) : PumpStarts(jobs, w, t, posted, k)

LEMMA MinFacts ==
    ASSUME NEW S \in SUBSET Nat, S # {}
    PROVE  Min(S) \in S /\ \A y \in S : Min(S) <= y
<1> DEFINE Less == {p \in Nat \X Nat : p[1] < p[2]}
<1>1. IsWellFoundedOn(Less, Nat)
  <2>1. OpToRel(<, Nat) = Less
    BY DEF OpToRel
  <2>2. QED
    BY <2>1, NatLessThanWellFounded
<1>2. PICK x \in S : \A y \in S : <<y, x>> \notin Less
  BY <1>1, WFMin
<1>3. \A y \in S : x <= y
  <2> TAKE y \in S
  <2>1. x \in Nat /\ y \in Nat
    OBVIOUS
  <2>2. ~(y < x)
    BY <1>2, <2>1
  <2>3. QED
    BY <2>1, <2>2
<1>4. QED
  BY <1>3 DEF Min

LEMMA PumpCases ==
    ASSUME NEW STATE jobs, NEW STATE w, NEW STATE t, NEW STATE isPaused,
           NEW STATE posted, NEW STATE armed, w \in Seq(Tasks),
           Become(Pumped(jobs, w, t, isPaused, posted), armed)
    PROVE  PumpDone(jobs, w, t, isPaused, posted)
  <1> SUFFICES \/ PumpRests(jobs, w, t, isPaused, posted)
               \/ PumpDrops(jobs, w, t)
               \/ \E k \in 1..Len(w) : PumpStarts(jobs, w, t, posted, k)
    BY DEF PumpDone
  <1> DEFINE r == Pumped(jobs, w, t, isPaused, posted)
             base == [native |-> jobs, work |-> w, task |-> t,
                      phase |-> IF t = Idle THEN "idle" ELSE phase,
                      paused |-> isPaused, posted |-> posted, retry |-> FALSE]
             fit == {k \in 1..Len(w) : Admitted(jobs, w[k])}
             mayStart == t = Idle /\ ~stopped /\ w # <<>>
  <1>1. r = CASE ~mayStart -> base
              [] mayStart /\ Busy -> TryLater(base)
              [] mayStart /\ ~Busy /\ fit = {} -> DropAll(base)
              [] mayStart /\ ~Busy /\ fit # {} -> StartTask(base, Min(fit))
    BY DEF Pumped
  <1>2. /\ native' = r.native /\ work' = r.work /\ task' = r.task
        /\ phase' = r.phase /\ paused' = r.paused /\ pumpPosted' = r.posted
    BY DEF Become
  <1>3. Busy <=> active' # NoJob
    BY DEF Busy
  <1> HIDE DEF r
  <1>4. CASE ~mayStart
    <2>1. r = base
      BY <1>1, <1>4
    <2> QED BY <2>1, <1>2, <1>4 DEF PumpRests
  <1>5. CASE mayStart /\ Busy
    <2>1. r = TryLater(base)
      BY <1>1, <1>5
    <2> QED BY <2>1, <1>2, <1>3, <1>5 DEF PumpRests, TryLater
  <1>6. CASE mayStart /\ ~Busy /\ fit = {}
    <2>1. r = DropAll(base)
      BY <1>1, <1>6
    <2> QED BY <2>1, <1>2, <1>6 DEF PumpDrops, DropAll
  <1>7. CASE mayStart /\ ~Busy /\ fit # {}
    <2> DEFINE m == Min(fit)
    <2>1. r = StartTask(base, m)
      BY <1>1, <1>7
    <2>2. fit \in SUBSET Nat
      OBVIOUS
    <2>3. m \in fit /\ \A y \in fit : m <= y
      BY <2>2, <1>7, MinFacts
    <2> HIDE DEF m
    <2>4. m \in 1..Len(w) /\ Admitted(jobs, w[m])
      BY <2>3
    <2>5. \A l \in 1..Len(w) : l < m => ~Admitted(jobs, w[l])
      <3> SUFFICES ASSUME NEW l \in 1..Len(w), l < m, Admitted(jobs, w[l])
                   PROVE  FALSE
        OBVIOUS
      <3>1. l \in fit
        OBVIOUS
      <3>2. m <= l
        BY <3>1, <2>3
      <3> QED BY <3>2, <2>4
    <2>6. /\ r.native = [i \in NativeIds |-> IF i = w[m] THEN "running" ELSE jobs[i]]
          /\ r.work = SubSeq(w, m + 1, Len(w)) /\ r.task = w[m]
          /\ r.phase = IF w[m] = Refresh THEN "scan" ELSE "execute"
          /\ r.paused = TRUE /\ r.posted = posted
      BY <2>1 DEF StartTask
    <2>7. PumpStarts(jobs, w, t, posted, m)
      BY <2>4, <2>5, <2>6, <1>2, <1>3, <1>7 DEF PumpStarts
    <2> QED BY <2>4, <2>7
  <1> QED BY <1>4, <1>5, <1>6, <1>7

(***************************************************************************)
(* refresh(): nothing happens, or a refresh waits in the deque or has just *)
(* started.  The deque is never dropped: a refresh is always admitted.     *)
(***************************************************************************)
RefreshRests(jobs, isReady, posted) ==
    /\ stopped \/ refreshPending \/ ~isReady
    /\ native' = jobs /\ pumpPosted' = posted
    /\ UNCHANGED <<work, task, phase, paused, statusVars>>

RefreshWaits(jobs, posted) ==
    /\ refreshPending' = TRUE
    /\ \/ PumpRests(jobs, Append(work, Refresh), task, paused, posted)
       \/ \E k \in 1..(Len(work) + 1) :
            PumpStarts(jobs, Append(work, Refresh), task, posted, k)

LEMMA IdFacts ==
    /\ NativeIds \subseteq Nat \ {0} /\ NativeIds \subseteq Tasks
    /\ Idle \notin Tasks
    /\ Refresh \in Tasks \ NativeIds
    /\ Initialize \in Tasks \ NativeIds
    /\ CatalogCall \in Tasks \ NativeIds
    /\ Refresh # Initialize /\ Refresh # CatalogCall /\ Initialize # CatalogCall
  BY RuntimeAssumption DEF NativeIds, Tasks, Idle, Refresh, Initialize, CatalogCall

LEMMA AppendTask ==
    ASSUME NEW STATE w, w \in Seq(Tasks), NEW t \in Tasks
    PROVE  /\ Append(w, t) \in Seq(Tasks)
           /\ Len(Append(w, t)) = Len(w) + 1
           /\ \A k \in 1..Len(w) : Append(w, t)[k] = w[k]
           /\ Append(w, t)[Len(w) + 1] = t
  OBVIOUS

LEMMA RefreshCases ==
    ASSUME NEW STATE jobs, NEW STATE isReady, NEW STATE posted, work \in Seq(Tasks),
           RefreshIndex(jobs, isReady, posted)
    PROVE  RefreshRests(jobs, isReady, posted) \/ RefreshWaits(jobs, posted)
  <1> DEFINE w == Append(work, Refresh)
  <1>1. CASE stopped \/ refreshPending \/ ~isReady
    BY <1>1 DEF RefreshIndex, RefreshRests
  <1>2. CASE ~(stopped \/ refreshPending \/ ~isReady)
    <2>1. refreshPending' = TRUE /\ Enqueue(jobs, Refresh, posted)
      BY <1>2 DEF RefreshIndex
    <2>2. w \in Seq(Tasks) /\ Len(w) = Len(work) + 1 /\ w[Len(work) + 1] = Refresh
      BY IdFacts, AppendTask
    <2>3. Become(Pumped(jobs, w, task, paused, posted), retry)
      BY <2>1 DEF Enqueue
    <2> HIDE DEF w
    <2>4. PumpDone(jobs, w, task, paused, posted)
      BY <2>2, <2>3, PumpCases
    <2>5. Admitted(jobs, w[Len(w)]) /\ Len(w) \in 1..Len(w)
      BY <2>2, IdFacts DEF Admitted
    <2>6. ~PumpDrops(jobs, w, task)
      BY <2>5 DEF PumpDrops
    <2> QED BY <2>1, <2>2, <2>4, <2>6 DEF PumpDone, RefreshWaits, w
  <1> QED BY <1>1, <1>2

-----------------------------------------------------------------------------
(***************************************************************************)
(* The compatibility queue in the server keeps its invariant: the runtime  *)
(* is the only caller of pause, and whenever it ends a pause, or drops its *)
(* own work, a pump of the queue is posted.                                *)
(***************************************************************************)
LEMMA PauseKeepsQueue ==
    ASSUME IInv, UNCHANGED queueVars, paused' \in BOOLEAN, pumpPosted' \in BOOLEAN,
           \/ paused' = TRUE \/ pumpPosted' = TRUE
           \/ UNCHANGED <<paused, pumpPosted>>
    PROVE  IInv'
  <1>1. Runnable' => pumpPosted'
    BY DEF IInv, TypeOK, WakeupPosted, Runnable, queueVars
  <1> QED
    BY <1>1 DEF IInv, TypeOK, NoOrphan, ReportedOnce, WakeupPosted, Bookkeeping,
                ToSet, Increasing, queueVars

LEMMA PumpKeepsQueue ==
    ASSUME NEW STATE jobs, NEW STATE w, NEW STATE t, NEW STATE isPaused, NEW STATE posted,
           IInv, UNCHANGED queueVars, isPaused \in BOOLEAN, posted \in BOOLEAN,
           posted = TRUE \/ (isPaused = paused /\ posted = pumpPosted),
           PumpDone(jobs, w, t, isPaused, posted)
    PROVE  IInv'
  <1>1. \/ PumpRests(jobs, w, t, isPaused, posted)
        \/ PumpDrops(jobs, w, t)
        \/ \E k \in 1..Len(w) : PumpStarts(jobs, w, t, posted, k)
    BY DEF PumpDone
  <1>2. /\ paused' \in BOOLEAN /\ pumpPosted' \in BOOLEAN
        /\ \/ paused' = TRUE \/ pumpPosted' = TRUE
           \/ UNCHANGED <<paused, pumpPosted>>
    BY <1>1 DEF PumpRests, PumpDrops, PumpStarts
  <1> QED BY <1>2, PauseKeepsQueue

LEMMA EnqueueKeepsQueue ==
    ASSUME NEW STATE jobs, NEW STATE t, IInv, UNCHANGED queueVars, work \in Seq(Tasks),
           t \in Tasks, Enqueue(jobs, t, pumpPosted)
    PROVE  IInv'
  <1>1. Append(work, t) \in Seq(Tasks)
    BY AppendTask
  <1>2. PumpDone(jobs, Append(work, t), task, paused, pumpPosted)
    BY <1>1, PumpCases DEF Enqueue
  <1>3. paused \in BOOLEAN /\ pumpPosted \in BOOLEAN
    BY DEF IInv, TypeOK
  <1> QED BY <1>2, <1>3, PumpKeepsQueue

LEMMA RefreshKeepsQueue ==
    ASSUME NEW STATE jobs, NEW STATE isReady, IInv, UNCHANGED queueVars,
           work \in Seq(Tasks), RefreshIndex(jobs, isReady, pumpPosted)
    PROVE  IInv'
  <1>1. CASE RefreshRests(jobs, isReady, pumpPosted)
    BY <1>1, PauseKeepsQueue DEF RefreshRests, IInv, TypeOK
  <1>2. CASE RefreshWaits(jobs, pumpPosted)
    <2>1. /\ paused' \in BOOLEAN /\ pumpPosted' \in BOOLEAN
          /\ paused' = TRUE \/ UNCHANGED <<paused, pumpPosted>>
      BY <1>2 DEF RefreshWaits, PumpRests, PumpStarts, IInv, TypeOK
    <2> QED BY <2>1, PauseKeepsQueue
  <1> QED BY <1>1, <1>2, RefreshCases

LEMMA LegacySucceedsKeepsQueue ==
    ASSUME IInv, work \in Seq(Tasks), LegacySucceeds
    PROVE  IInv'
  <1>1. active \in Ids /\ state[active] = "running" /\ active \notin ToSet(pending)
    BY DEF LegacySucceeds, IInv, TypeOK, NoOrphan
  <1>2. /\ pending' \in Seq(Ids) /\ Increasing(pending')
        /\ ToSet(pending') = ToSet(pending) \ {active} /\ Len(pending') <= Len(pending)
        /\ UNCHANGED <<order, nextId>> /\ Complete({active}, "succeeded")
        /\ "succeeded" \in Outcomes /\ ~stopped /\ ~stopped' /\ stopped' \in BOOLEAN
        /\ {active} \in SUBSET Ids /\ {active} \subseteq ToSet(pending) \cup {active}
    BY <1>1 DEF LegacySucceeds, IInv, TypeOK, Bookkeeping, Outcomes
  <1>3. paused' \in BOOLEAN /\ (paused => paused')
    <2>1. RefreshIndex(native, ready, TRUE)
      BY DEF LegacySucceeds
    <2>2. RefreshRests(native, ready, TRUE) \/ RefreshWaits(native, TRUE)
      BY <2>1, RefreshCases
    <2> QED BY <2>2 DEF RefreshRests, RefreshWaits, PumpRests, PumpStarts, IInv, TypeOK
  <1> QED BY <1>2, <1>3, CompleteInv

LEMMA QueueKept ==
    ASSUME IInv, RuntimeTypeOK, [RuntimeNext]_runtimeVars
    PROVE  IInv'
  <1>1. work \in Seq(Tasks)
    BY DEF RuntimeTypeOK
  <1>2. CASE UNCHANGED vars
    BY <1>2, QuietStepsInv
  <1>3. CASE Admit
    <2>1. CASE UNCHANGED pumpVars
      BY <1>3, <2>1, PauseKeepsQueue DEF Admit, pumpVars, IInv, TypeOK
    <2>2. CASE Enqueue(native, Head(admissions), pumpPosted) /\ admissions # <<>>
      <3>1. admissions \in Seq(NativeIds)
        BY DEF RuntimeTypeOK
      <3>2. Head(admissions) \in NativeIds
        BY <3>1, <2>2
      <3>3. Head(admissions) \in Tasks
        BY <3>2, IdFacts
      <3> QED BY <1>1, <1>3, <2>2, <3>3, EnqueueKeepsQueue DEF Admit
    <2> QED BY <1>3, <2>1, <2>2 DEF Admit
  <1>4. CASE Perform
    BY <1>1, <1>4, EnqueueKeepsQueue, IdFacts DEF Perform
  <1>5. ASSUME NEW outcome \in NativeOutcomes, Completed(outcome)
        PROVE  IInv'
    <2>1. UNCHANGED queueVars
      BY <1>5 DEF Completed
    <2>2. CASE UNCHANGED <<work, task, phase, retry, paused, pumpPosted, statusVars>>
      BY <2>1, <2>2, PauseKeepsQueue DEF IInv, TypeOK
    <2>3. CASE RefreshIndex([native EXCEPT ![task] = outcome], ready, pumpPosted)
      BY <1>1, <2>1, <2>3, RefreshKeepsQueue
    <2> QED BY <1>5, <2>2, <2>3 DEF Completed
  <1>6. CASE ContextResolved
    <2>1. CASE UNCHANGED pumpVars
      BY <1>6, <2>1, PauseKeepsQueue DEF ContextResolved, pumpVars, IInv, TypeOK
    <2>2. CASE RefreshIndex(native, TRUE, pumpPosted)
      BY <1>1, <1>6, <2>2, RefreshKeepsQueue DEF ContextResolved
    <2> QED BY <1>6, <2>1, <2>2 DEF ContextResolved
  <1>7. CASE CatalogAnswered
    <2>1. CASE UNCHANGED pumpVars
      BY <1>7, <2>1, PauseKeepsQueue DEF CatalogAnswered, pumpVars, IInv, TypeOK
    <2>2. CASE RefreshIndex(native, ready, pumpPosted)
      BY <1>1, <1>7, <2>2, RefreshKeepsQueue DEF CatalogAnswered
    <2> QED BY <1>7, <2>1, <2>2 DEF CatalogAnswered
  <1>8. CASE TaskDone
    BY <1>1, <1>8, PumpCases, PumpKeepsQueue DEF TaskDone
  <1>9. CASE Retry
    <2>1. paused \in BOOLEAN /\ pumpPosted \in BOOLEAN
      BY DEF IInv, TypeOK
    <2>2. PumpDone(native, work, task, paused, pumpPosted)
      BY <1>1, <1>9, PumpCases DEF Retry
    <2> QED BY <1>9, <2>1, <2>2, PumpKeepsQueue DEF Retry
  <1>10. CASE Pump
    BY <1>10, NextInv DEF Next
  <1>11. CASE Submit \/ Cancel \/ ProcessReaped
    BY <1>11, NextInv DEF Next
  <1>12. CASE LegacyEnds
    <2>1. ProcessDone
      BY <1>12 DEF LegacyEnds, ProcessDone
    <2> QED BY <2>1, ProcessDoneInv
  <1>13. CASE LegacySucceeds
    BY <1>1, <1>13, LegacySucceedsKeepsQueue
  <1>14. CASE Shutdown
    <2> DEFINE jobs == ToSet(pending) \cup ({active} \ {NoJob})
    <2>1. jobs \in SUBSET Ids
      BY DEF IInv, TypeOK, ToSet
    <2>2. /\ pending' = <<>> /\ pending' \in Seq(Ids) /\ Increasing(pending')
          /\ Len(pending') = 0 /\ ToSet(pending') = {} /\ Len(pending) \in Nat
      BY <1>14 DEF Shutdown, Increasing, ToSet, IInv, TypeOK
    <2>3. active' = NoJob
      BY <1>14 DEF Shutdown, Complete, IInv, TypeOK, NoOrphan, Finished, Outcomes
    <2>4. /\ Complete(jobs, "cancelled") /\ stopped' = TRUE /\ UNCHANGED <<order, nextId>>
          /\ paused' \in BOOLEAN
      BY <1>14 DEF Shutdown
    <2> HIDE DEF jobs
    <2>5. jobs \subseteq ToSet(pending) \cup {active} /\ ToSet(pending') = ToSet(pending) \ jobs
      BY <2>2 DEF jobs
    <2> QED BY <2>1, <2>2, <2>3, <2>4, <2>5, CompleteInv DEF Outcomes
  <1>15. CASE UNCHANGED runtimeVars
    BY <1>2, <1>15 DEF runtimeVars
  <1>16. CASE \/ SubmitNative \/ (\E i \in NativeIds : CancelNative(i)) \/ ReadStarts
              \/ ReadEnds \/ Worker \/ LegacyWrites \/ Drain \/ Indexed \/ ContextFailed
    BY <1>2, <1>16 DEF SubmitNative, CancelNative, ReadStarts, ReadEnds, Worker, Execute,
       Scan, Publish, LegacyWrites, Drain, Indexed, ContextFailed
  <1> QED
    BY <1>3, <1>4, <1>5, <1>6, <1>7, <1>8, <1>9, <1>10, <1>11, <1>12, <1>13, <1>14,
       <1>15, <1>16 DEF RuntimeNext, Deliver, LegacyPump, LegacyStep, LegacyDone

-----------------------------------------------------------------------------
(***************************************************************************)
(* What the worker posts for a task ends with "idle"; nothing is posted    *)
(* before it is done with the task, and nothing is left when the io_context *)
(* has taken note of the end.                                              *)
(***************************************************************************)
Answers(t) ==
    CASE t = Initialize -> {"context", "nocontext"}
      [] t = CatalogCall -> {"catalog", "changed"}
      [] t = Refresh -> {"indexed", "unindexed"}
      [] OTHER -> NativeOutcomes

Mail(t) ==
    {<<"idle">>} \cup {<<m, "idle">> : m \in Answers(t)}
    \cup {<<"indexed", m, "idle">> : m \in {m \in NativeOutcomes : t \in NativeIds}}

InStepAt(t, p, m) ==
    /\ t = Idle => p = "idle" /\ m = <<>>
    /\ p # "idle" => m = <<>>
    /\ t # Idle /\ p = "idle" => m \in Mail(t)
    /\ p \in {"scan", "publish"} => t = Refresh \/ (t \in NativeIds /\ kind[t] = "v2")
    /\ t = Refresh => p # "execute"

InStep == InStepAt(task, phase, inbox)

\* The task goes on, or its end has not been noted.
WorkingAt(p, m) == p # "idle" \/ Head(m) # "idle"

Working == WorkingAt(phase, inbox)

(***************************************************************************)
(* The facts that a task wrote, and who will have the index refreshed.     *)
(***************************************************************************)
Writer(t, p, m) ==
    /\ t \in NativeIds
    /\ \/ kind[t] = "v1" /\ p = "idle" /\ WorkingAt(p, m)
       \/ kind[t] = "v2" /\ (p # "idle" \/ Head(m) \in {"failed", "cancelled"})

Unread ==
    /\ wrote => Writer(task, phase, inbox)
    /\ phase = "publish" => fresh
    /\ refreshPending /\ ~stopped => Refresh \in ToSet(work) \/ (task = Refresh /\ Working)

(***************************************************************************)
(* Where a native job is, by the state of its record: jobs, w, adm, t are  *)
(* the records, the deque, the admissions and the task, and busy says that *)
(* the task has not ended.                                                 *)
(***************************************************************************)
Places(jobs, w, adm, t, busy, i) ==
    /\ jobs[i] = "absent" <=> i >= nextNative
    /\ jobs[i] = "queued" => i \in ToSet(adm) \cup ToSet(w)
    /\ i \in ToSet(adm) \cup ToSet(w) => jobs[i] \in {"queued", "cancelled", "forgotten"}
    /\ jobs[i] \in {"running", "cancelling"} <=> (t = i /\ busy)
    /\ t = i => jobs[i] \notin {"absent", "queued"}
    /\ jobs[i] \in {"queued", "running", "cancelling"} => i \in ToSet(nativeOrder)
    /\ i \in ToSet(nativeOrder) => jobs[i] # "absent"

\* No job waits twice.
Once(w, adm) ==
    /\ \A j, k \in 1..Len(w) : w[j] = w[k] /\ w[j] \in NativeIds => j = k
    /\ \A j, k \in 1..Len(adm) : adm[j] = adm[k] => j = k
    /\ \A j \in 1..Len(w), k \in 1..Len(adm) : w[j] # adm[k]

Placed ==
    /\ \A i \in NativeIds : Places(native, work, admissions, task, Working, i)
    /\ Once(work, admissions)

Stopping ==
    /\ stopped => \A i \in NativeIds : native[i] # "queued"
    /\ draining => stopped
    /\ halted => stopped /\ task = Idle /\ queries = 0

RuntimeInv ==
    /\ RuntimeTypeOK
    /\ IInv
    /\ ExclusionInv
    /\ InStep
    /\ Unread
    /\ ~EveryWriterOwes => NoLostRefresh
    /\ Placed
    /\ Stopping

-----------------------------------------------------------------------------
\* The types of what pump leaves.
LEMMA PumpTypes ==
    ASSUME NEW STATE jobs, NEW STATE w, NEW STATE t, NEW STATE isPaused, NEW STATE posted,
           jobs \in [NativeIds -> NativeStates], w \in Seq(Tasks), t \in Tasks \cup {Idle},
           phase \in {"idle", "execute", "scan", "publish"},
           PumpDone(jobs, w, t, isPaused, posted)
    PROVE  /\ native' \in [NativeIds -> NativeStates] /\ work' \in Seq(Tasks)
           /\ task' \in Tasks \cup {Idle} /\ phase' \in {"idle", "execute", "scan", "publish"}
  <1>1. CASE PumpRests(jobs, w, t, isPaused, posted)
    BY <1>1 DEF PumpRests
  <1>2. CASE PumpDrops(jobs, w, t)
    BY <1>2 DEF PumpDrops
  <1>3. ASSUME NEW k \in 1..Len(w), PumpStarts(jobs, w, t, posted, k)
        PROVE  /\ native' \in [NativeIds -> NativeStates] /\ work' \in Seq(Tasks)
               /\ task' \in Tasks \cup {Idle} /\ phase' \in {"idle", "execute", "scan", "publish"}
    <2>1. w[k] \in Tasks /\ SubSeq(w, k + 1, Len(w)) \in Seq(Tasks)
      OBVIOUS
    <2>2. "running" \in NativeStates
      BY DEF NativeStates
    <2> QED BY <1>3, <2>1, <2>2 DEF PumpStarts
  <1> QED BY <1>1, <1>2, <1>3 DEF PumpDone

Typed ==
    /\ native \in [NativeIds -> NativeStates] /\ work \in Seq(Tasks)
    /\ task \in Tasks \cup {Idle} /\ phase \in {"idle", "execute", "scan", "publish"}
    /\ retry \in BOOLEAN

LEMMA EnqueueTypes ==
    ASSUME RuntimeTypeOK, NEW STATE jobs, jobs \in [NativeIds -> NativeStates],
           NEW STATE t, t \in Tasks, NEW STATE posted, Enqueue(jobs, t, posted)
    PROVE  Typed'
  <1>1. Append(work, t) \in Seq(Tasks)
    BY AppendTask DEF RuntimeTypeOK
  <1>2. PumpDone(jobs, Append(work, t), task, paused, posted)
    BY <1>1, PumpCases DEF Enqueue
  <1>3. retry' \in BOOLEAN
    BY DEF Enqueue, Become
  <1>4. task \in Tasks \cup {Idle} /\ phase \in {"idle", "execute", "scan", "publish"}
    BY DEF RuntimeTypeOK
  <1>5. /\ native' \in [NativeIds -> NativeStates] /\ work' \in Seq(Tasks)
        /\ task' \in Tasks \cup {Idle} /\ phase' \in {"idle", "execute", "scan", "publish"}
    BY <1>1, <1>2, <1>4, PumpTypes
  <1> QED BY <1>3, <1>5 DEF Typed

LEMMA RefreshTypes ==
    ASSUME RuntimeTypeOK, NEW STATE jobs, jobs \in [NativeIds -> NativeStates],
           NEW STATE isReady, NEW STATE posted, RefreshIndex(jobs, isReady, posted)
    PROVE  Typed' /\ <<refreshPending, indexPending>>' \in BOOLEAN \X BOOLEAN
  <1>1. CASE stopped \/ refreshPending \/ ~isReady
    BY <1>1 DEF RefreshIndex, RuntimeTypeOK, Typed, statusVars
  <1>2. CASE ~(stopped \/ refreshPending \/ ~isReady)
    BY <1>2, EnqueueTypes, IdFacts DEF RefreshIndex
  <1> QED BY <1>1, <1>2

\* What Typed leaves of RuntimeTypeOK.
Rest ==
    /\ <<legacyWrote, ready, refreshPending, indexPending>>
         \in BOOLEAN \X BOOLEAN \X BOOLEAN \X BOOLEAN
    /\ <<wrote, owed, fresh, draining, halted>>
         \in BOOLEAN \X BOOLEAN \X BOOLEAN \X BOOLEAN \X BOOLEAN
    /\ kind \in [NativeIds -> {"none", "v1", "v2", "plain"}]
    /\ nextNative \in 1..(MaxNative + 1)
    /\ nativeOrder \in Seq(NativeIds)
    /\ admissions \in Seq(NativeIds)
    /\ verdict \in NativeOutcomes
    /\ queries \in 0..MaxQueries
    /\ calls \in 0..MaxCalls

LEMMA TypeParts == RuntimeTypeOK <=> Typed /\ Rest
  BY DEF RuntimeTypeOK, Typed, Rest

LEMMA TypeKept ==
    ASSUME IInv, RuntimeTypeOK, [RuntimeNext]_runtimeVars
    PROVE  RuntimeTypeOK'
  <1> SUFFICES Typed' /\ Rest'
    BY DEF RuntimeTypeOK, Typed, Rest
  <1> USE DEF pumpVars, recordVars, workerVars, serverVars, statusVars
  <1>0. Typed /\ Rest /\ work \in Seq(Tasks) /\ phase \in {"idle", "execute", "scan", "publish"}
    BY TypeParts DEF RuntimeTypeOK
  <1>1. CASE SubmitNative
    <2>1. nextNative \in NativeIds /\ nextNative' \in 1..(MaxNative + 1)
      BY <1>0, <1>1, RuntimeAssumption DEF SubmitNative, Rest, NativeIds
    <2>2. admissions' \in Seq(NativeIds)
      BY <1>0, <1>1, <2>1 DEF SubmitNative, Rest
    <2>3. native' \in [NativeIds -> NativeStates]
      BY <1>0, <1>1 DEF SubmitNative, Typed, NativeStates
    <2>4. kind' \in [NativeIds -> {"none", "v1", "v2", "plain"}]
      BY <1>0, <1>1 DEF SubmitNative, Rest
    <2>5. nativeOrder' \in Seq(NativeIds)
      <3>1. nativeOrder \in Seq(NativeIds)
        BY <1>0 DEF Rest
      <3>2. CASE nativeOrder' = Append(nativeOrder, nextNative)
        BY <2>1, <3>1, <3>2
      <3>3. ASSUME NEW k \in 1..Len(nativeOrder),
                   nativeOrder' = Append(RemoveAt(nativeOrder, k), nextNative)
            PROVE  nativeOrder' \in Seq(NativeIds)
        <4>1. RemoveAt(nativeOrder, k) \in Seq(NativeIds)
          BY <3>1, RemoveAtFacts
        <4> QED BY <2>1, <3>3, <4>1
      <3> QED BY <1>1, <3>2, <3>3 DEF SubmitNative
    <2> QED BY <1>0, <1>1, <2>1, <2>2, <2>3, <2>4, <2>5 DEF SubmitNative, Typed, Rest
  <1>2. CASE Admit
    <2>1. Head(admissions) \in Tasks /\ admissions' \in Seq(NativeIds)
      <3>1. admissions \in Seq(NativeIds) /\ admissions # <<>> /\ admissions' = Tail(admissions)
        BY <1>0, <1>2 DEF Rest, Admit
      <3>2. Head(admissions) \in NativeIds /\ admissions' \in Seq(NativeIds)
        BY <3>1
      <3> QED BY <3>2, IdFacts
    <2>2. Typed'
      <3>1. CASE UNCHANGED pumpVars
        BY <1>0, <3>1 DEF Typed
      <3>2. CASE Enqueue(native, Head(admissions), pumpPosted)
        BY <1>0, <2>1, <3>2, EnqueueTypes DEF Typed
      <3> QED BY <1>2, <3>1, <3>2 DEF Admit
    <2> QED BY <1>0, <1>2, <2>1, <2>2 DEF Admit, Rest
  <1>3. CASE \E i \in NativeIds : CancelNative(i)
    <2>1. native' \in [NativeIds -> NativeStates]
      BY <1>0, <1>3 DEF CancelNative, Typed, NativeStates, NativeOutcomes
    <2> QED BY <1>0, <1>3, <2>1 DEF CancelNative, Typed, Rest
  <1>4. CASE Perform
    <2>1. Typed'
      BY <1>0, <1>4, EnqueueTypes, IdFacts DEF Perform, Typed
    <2>2. calls' \in 0..MaxCalls
      BY <1>0, <1>4, RuntimeAssumption DEF Perform, Rest
    <2> QED BY <1>0, <1>4, <2>1, <2>2 DEF Perform, Rest
  <1>5. CASE ReadStarts \/ ReadEnds
    BY <1>0, <1>5, RuntimeAssumption DEF ReadStarts, ReadEnds, Typed, Rest
  <1>6. CASE Worker
    <2>1. Verdicts \subseteq NativeOutcomes
      BY DEF Verdicts, NativeOutcomes
    <2>2. CASE Execute
      <3>1. verdict' \in NativeOutcomes
        BY <1>0, <2>1, <2>2 DEF Execute, Rest
      <3>2. wrote' \in BOOLEAN
        BY <1>0, <2>2 DEF Execute, Rest
      <3>3. phase' \in {"idle", "scan"}
        BY <2>2 DEF Execute
      <3> QED BY <1>0, <2>2, <3>1, <3>2, <3>3 DEF Execute, Typed, Rest
    <2>3. CASE Scan
      BY <1>0, <2>3 DEF Scan, Typed, Rest
    <2>4. CASE Publish
      <3>1. owed' \in BOOLEAN /\ wrote' \in BOOLEAN
        BY <1>0, <2>4 DEF Publish, Publishes, PublishFails, Rest
      <3> QED BY <1>0, <2>4, <3>1 DEF Publish, Typed, Rest
    <2> QED BY <1>6, <2>2, <2>3, <2>4 DEF Worker
  <1>7. ASSUME NEW outcome \in NativeOutcomes, Completed(outcome)
        PROVE  Typed' /\ Rest'
    <2> DEFINE jobs == [native EXCEPT ![task] = outcome]
    <2>1. jobs \in [NativeIds -> NativeStates]
      BY <1>0 DEF Typed, NativeStates
    <2> HIDE DEF jobs
    <2>2. Typed' /\ <<refreshPending, indexPending>>' \in BOOLEAN \X BOOLEAN
      <3>1. CASE RefreshIndex(jobs, ready, pumpPosted)
        BY <2>1, <3>1, RefreshTypes
      <3>2. CASE native' = jobs /\ UNCHANGED <<work, task, phase, retry, statusVars>>
        BY <1>0, <2>1, <3>2 DEF Typed, Rest
      <3> QED BY <1>7, <3>1, <3>2 DEF Completed, jobs
    <2>3. owed' \in BOOLEAN
      BY <1>7 DEF Completed
    <2> QED BY <1>0, <1>7, <2>2, <2>3 DEF Completed, Rest
  <1>8. CASE Indexed
    BY <1>0, <1>8 DEF Indexed, Typed, Rest
  <1>9. CASE ContextResolved
    <2>1. Typed' /\ <<ready, refreshPending, indexPending>>' \in BOOLEAN \X BOOLEAN \X BOOLEAN
      <3>1. CASE UNCHANGED <<ready, pumpVars, statusVars>>
        BY <1>0, <3>1 DEF Typed, Rest
      <3>2. CASE ready' = TRUE /\ RefreshIndex(native, TRUE, pumpPosted)
        BY <1>0, <3>2, RefreshTypes DEF Typed
      <3> QED BY <1>9, <3>1, <3>2 DEF ContextResolved
    <2> QED BY <1>0, <1>9, <2>1 DEF ContextResolved, Rest
  <1>10. CASE ContextFailed
    BY <1>0, <1>10 DEF ContextFailed, Typed, Rest
  <1>11. CASE CatalogAnswered
    <2>1. Typed' /\ <<refreshPending, indexPending>>' \in BOOLEAN \X BOOLEAN
      <3>1. CASE UNCHANGED <<pumpVars, statusVars>>
        BY <1>0, <3>1 DEF Typed, Rest
      <3>2. CASE RefreshIndex(native, ready, pumpPosted)
        BY <1>0, <3>2, RefreshTypes DEF Typed
      <3> QED BY <1>11, <3>1, <3>2 DEF CatalogAnswered
    <2> QED BY <1>0, <1>11, <2>1 DEF CatalogAnswered, Rest
  <1>12. CASE TaskDone
    <2>1. Typed'
      <3>1. PumpDone(native, work, Idle, FALSE, TRUE)
        BY <1>0, <1>12, PumpCases DEF TaskDone
      <3>2. /\ native' \in [NativeIds -> NativeStates] /\ work' \in Seq(Tasks)
            /\ task' \in Tasks \cup {Idle} /\ phase' \in {"idle", "execute", "scan", "publish"}
        BY <1>0, <3>1, PumpTypes DEF Typed
      <3>3. retry' \in BOOLEAN
        BY <1>12 DEF TaskDone, Become
      <3> QED BY <3>2, <3>3 DEF Typed
    <2> QED BY <1>0, <1>12, <2>1 DEF TaskDone, Rest
  <1>13. CASE Retry
    <2>1. Typed'
      <3>1. PumpDone(native, work, task, paused, pumpPosted)
        BY <1>0, <1>13, PumpCases DEF Retry
      <3>2. /\ native' \in [NativeIds -> NativeStates] /\ work' \in Seq(Tasks)
            /\ task' \in Tasks \cup {Idle} /\ phase' \in {"idle", "execute", "scan", "publish"}
        BY <1>0, <3>1, PumpTypes DEF Typed
      <3>3. retry' \in BOOLEAN
        BY <1>13 DEF Retry, Become
      <3> QED BY <3>2, <3>3 DEF Typed
    <2> QED BY <1>0, <1>13, <2>1 DEF Retry, Rest
  <1>14. CASE LegacyPump \/ LegacyStep \/ LegacyWrites \/ LegacyEnds
    <2>1. CASE LegacyPump \/ LegacyStep \/ LegacyWrites
      BY <1>0, <2>1 DEF LegacyPump, LegacyStep, LegacyWrites, nativeVars, Typed, Rest
    <2>2. CASE LegacyEnds
      <3>1. owed' \in BOOLEAN
        BY <2>2 DEF LegacyEnds
      <3> QED BY <1>0, <2>2, <3>1 DEF LegacyEnds, Typed, Rest
    <2> QED BY <1>14, <2>1, <2>2
  <1>15. CASE LegacySucceeds
    <2>1. Typed' /\ <<refreshPending, indexPending>>' \in BOOLEAN \X BOOLEAN
      BY <1>0, <1>15, RefreshTypes DEF LegacySucceeds, Typed
    <2>2. owed' \in BOOLEAN
      BY <1>15 DEF LegacySucceeds
    <2> QED BY <1>0, <1>15, <2>1, <2>2 DEF LegacySucceeds, Rest
  <1>16. CASE Shutdown
    <2>1. native' \in [NativeIds -> NativeStates]
      BY <1>0, <1>16 DEF Shutdown, StopNative, Typed, NativeStates, NativeOutcomes
    <2>2. work' \in Seq(Tasks) /\ retry' = FALSE /\ UNCHANGED <<task, phase>>
      BY <1>16 DEF Shutdown, StopNative
    <2>3. Typed'
      BY <1>0, <2>1, <2>2 DEF Typed
    <2> QED BY <1>0, <1>16, <2>3 DEF Shutdown, Rest
  <1>17. CASE Drain
    BY <1>0, <1>17 DEF Drain, Typed, Rest
  <1>18. CASE UNCHANGED runtimeVars
    BY <1>0, <1>18 DEF runtimeVars, nativeVars, Typed, Rest
  <1> QED
    BY <1>1, <1>2, <1>3, <1>4, <1>5, <1>6, <1>7, <1>8, <1>9, <1>10, <1>11, <1>12, <1>13,
       <1>14, <1>15, <1>16, <1>17, <1>18 DEF RuntimeNext, Deliver, LegacyDone

-----------------------------------------------------------------------------
(***************************************************************************)
(* The refreshes.  A refresh that waits is never dropped by pump.          *)
(***************************************************************************)
LEMMA PumpKeepsRefresh ==
    ASSUME NEW STATE jobs, NEW STATE w, NEW STATE t, NEW STATE isPaused, NEW STATE posted,
           w \in Seq(Tasks), Refresh \in ToSet(w),
           PumpDone(jobs, w, t, isPaused, posted)
    PROVE  Refresh \in ToSet(work') \/ (task' = Refresh /\ phase' = "scan")
  <1>1. PICK j \in 1..Len(w) : w[j] = Refresh
    BY DEF ToSet
  <1>2. Admitted(jobs, w[j])
    BY <1>1, IdFacts DEF Admitted
  <1>3. CASE PumpRests(jobs, w, t, isPaused, posted)
    BY <1>3 DEF PumpRests
  <1>4. CASE PumpDrops(jobs, w, t)
    BY <1>1, <1>2, <1>4 DEF PumpDrops
  <1>5. ASSUME NEW k \in 1..Len(w), PumpStarts(jobs, w, t, posted, k)
        PROVE  Refresh \in ToSet(work') \/ (task' = Refresh /\ phase' = "scan")
    <2>1. ~(j < k)
      BY <1>2, <1>5 DEF PumpStarts
    <2>2. CASE j = k
      BY <1>1, <1>5, <2>2 DEF PumpStarts
    <2>3. CASE j > k
      <3>1. work' = SubSeq(w, k + 1, Len(w))
        BY <1>5 DEF PumpStarts
      <3>2. j - k \in 1..Len(work') /\ work'[j - k] = w[j]
        BY <2>3, <3>1
      <3> QED BY <1>1, <3>2 DEF ToSet
    <2> QED BY <2>1, <2>2, <2>3
  <1> QED BY <1>3, <1>4, <1>5 DEF PumpDone

Coherent == InStep /\ Unread /\ (~EveryWriterOwes => NoLostRefresh)

(***************************************************************************)
(* A handler that ends with pump: what holds before the call, of the task, *)
(* the deque and the mail as the handler has left them, holds after it.    *)
(***************************************************************************)
LEMMA PumpCoherent ==
    ASSUME NEW STATE jobs, NEW STATE w, NEW STATE t, NEW STATE isPaused, NEW STATE posted,
           w \in Seq(Tasks), PumpDone(jobs, w, t, isPaused, posted),
           UNCHANGED <<kind, stopped, fresh>>,
           t = Idle => inbox' = <<>> /\ ~wrote',
           t # Idle => /\ InStepAt(t, phase, inbox')
                       /\ wrote' => Writer(t, phase, inbox')
                       /\ phase = "publish" => fresh,
           refreshPending' /\ ~stopped =>
               \/ Refresh \in ToSet(w)
               \/ t = Refresh /\ WorkingAt(phase, inbox'),
           ~EveryWriterOwes /\ owed' /\ ready' /\ ~stopped =>
               \/ Refresh \in ToSet(w)
               \/ t = Refresh /\ (phase = "scan" \/ (phase = "publish" /\ fresh))
    PROVE  Coherent'
  <1> SUFFICES /\ InStepAt(task', phase', inbox')
               /\ wrote' => Writer(task', phase', inbox')
               /\ phase' = "publish" => fresh'
               /\ refreshPending' /\ ~stopped' =>
                    \/ Refresh \in ToSet(work')
                    \/ task' = Refresh /\ WorkingAt(phase', inbox')
               /\ ~EveryWriterOwes /\ owed' /\ ready' /\ ~stopped' =>
                    \/ Refresh \in ToSet(work')
                    \/ task' = Refresh /\ (phase' = "scan" \/ (phase' = "publish" /\ fresh'))
    BY DEF Coherent, InStep, InStepAt, Unread, Writer, NoLostRefresh, RefreshAhead,
           Working, WorkingAt, ToSet
  <1>1. Refresh \in ToSet(w) =>
          Refresh \in ToSet(work') \/ (task' = Refresh /\ phase' = "scan")
    BY PumpKeepsRefresh
  <1>2. CASE t # Idle
    <2>1. PumpRests(jobs, w, t, isPaused, posted)
      BY <1>2 DEF PumpDone, PumpDrops, PumpStarts
    <2>2. task' = t /\ phase' = phase /\ work' = w
      BY <1>2, <2>1 DEF PumpRests
    <2> QED BY <1>2, <2>2
  <1>3. CASE t = Idle
    <2>1. t # Refresh
      BY <1>3, IdFacts
    <2>2. \/ task' = Idle /\ phase' = "idle"
          \/ /\ task' \in Tasks
             /\ phase' = IF task' = Refresh THEN "scan" ELSE "execute"
      BY <1>3 DEF PumpDone, PumpRests, PumpDrops, PumpStarts
    <2>3. InStepAt(task', phase', inbox') /\ phase' # "publish"
      BY <1>3, <2>2, IdFacts DEF InStepAt
    <2> QED BY <1>1, <1>3, <2>1, <2>3 DEF WorkingAt
  <1> QED BY <1>2, <1>3

LEMMA AppendToSet ==
    ASSUME NEW S, NEW s \in Seq(S), NEW e
    PROVE  ToSet(Append(s, e)) = ToSet(s) \cup {e}
  <1> DEFINE t == Append(s, e)
  <1>1. /\ Len(t) = Len(s) + 1 /\ Len(s) \in Nat
        /\ \A k \in 1..Len(s) : t[k] = s[k]
        /\ t[Len(s) + 1] = e
    OBVIOUS
  <1> HIDE DEF t
  <1>2. ToSet(t) = ToSet(s) \cup {e}
    BY <1>1 DEF ToSet
  <1> QED BY <1>2 DEF t

\* A task enters the deque: Admit, Perform.
LEMMA EnqueueCoherent ==
    ASSUME RuntimeTypeOK, Coherent, NEW STATE t, t \in Tasks, NEW STATE posted,
           Enqueue(native, t, posted),
           UNCHANGED <<kind, stopped, fresh, inbox, wrote, refreshPending, owed, ready>>
    PROVE  Coherent'
  <1> DEFINE w == Append(work, t)
  <1>1. work \in Seq(Tasks) /\ task \in Tasks \cup {Idle}
    BY DEF RuntimeTypeOK
  <1>2. w \in Seq(Tasks) /\ ToSet(w) = ToSet(work) \cup {t}
    BY <1>1, AppendTask, AppendToSet
  <1>3. PumpDone(native, w, task, paused, posted)
    BY <1>2, PumpCases DEF Enqueue
  <1> HIDE DEF w
  <1>4. /\ task = Idle => inbox' = <<>> /\ ~wrote'
        /\ task # Idle => /\ InStepAt(task, phase, inbox')
                          /\ wrote' => Writer(task, phase, inbox')
                          /\ phase = "publish" => fresh
    BY IdFacts DEF Coherent, InStep, InStepAt, Unread, Writer
  <1>5. /\ refreshPending' /\ ~stopped =>
             \/ Refresh \in ToSet(w)
             \/ task = Refresh /\ WorkingAt(phase, inbox')
        /\ ~EveryWriterOwes /\ owed' /\ ready' /\ ~stopped =>
             \/ Refresh \in ToSet(w)
             \/ task = Refresh /\ (phase = "scan" \/ (phase = "publish" /\ fresh))
    BY <1>2 DEF Coherent, Unread, Working, NoLostRefresh, RefreshAhead
  <1> QED BY <1>2, <1>3, <1>4, <1>5, PumpCoherent

\* refresh(), called when the worker is not refreshing.
LEMMA RefreshCoherent ==
    ASSUME NEW STATE jobs, NEW STATE posted, work \in Seq(Tasks), task # Refresh,
           RefreshIndex(jobs, ready', posted),
           UNCHANGED <<kind, stopped, fresh>>,
           task = Idle => inbox' = <<>> /\ ~wrote' /\ phase = "idle",
           task # Idle => /\ InStepAt(task, phase, inbox')
                          /\ wrote' => Writer(task, phase, inbox')
                          /\ phase = "publish" => fresh,
           refreshPending /\ ~stopped => Refresh \in ToSet(work)
    PROVE  Coherent'
  <1> DEFINE w == Append(work, Refresh)
  <1>1. CASE RefreshRests(jobs, ready', posted)
    <2>1. task' = task /\ phase' = phase /\ work' = work /\ refreshPending' = refreshPending
      BY <1>1 DEF RefreshRests, statusVars
    <2>2. InStepAt(task', phase', inbox') /\ (wrote' => Writer(task', phase', inbox'))
          /\ (phase' = "publish" => fresh')
      BY <2>1, IdFacts DEF InStepAt
    <2>3. ~stopped /\ ready' => Refresh \in ToSet(work)
      BY <1>1 DEF RefreshRests
    <2> QED
      BY <2>1, <2>2, <2>3 DEF Coherent, InStep, InStepAt, Unread, Writer, NoLostRefresh,
         RefreshAhead, Working, WorkingAt, ToSet
  <1>2. CASE RefreshWaits(jobs, posted)
    <2>1. w \in Seq(Tasks) /\ ToSet(w) = ToSet(work) \cup {Refresh} /\ Len(w) = Len(work) + 1
      BY AppendTask, AppendToSet, IdFacts
    <2> HIDE DEF w
    <2>2. PumpDone(jobs, w, task, paused, posted)
      BY <1>2, <2>1 DEF RefreshWaits, PumpDone, w
    <2> QED BY <2>1, <2>2, PumpCoherent
  <1> QED BY <1>1, <1>2, RefreshCases

(***************************************************************************)
(* What the io_context receives, and what is left of the mail.             *)
(***************************************************************************)
LEMMA MailFacts ==
    ASSUME InStep, task \in Tasks \cup {Idle}, NEW STATE message, Receives(message)
    PROVE  /\ phase = "idle" /\ task \in Tasks
           /\ \/ message = "idle" /\ inbox' = <<>> /\ ~Working
              \/ message \in Answers(task) /\ inbox' = <<"idle">> /\ Working
              \/ /\ message = "indexed" /\ task \in NativeIds /\ Working
                 /\ \E v \in NativeOutcomes : inbox' = <<v, "idle">>
  <1>1. phase = "idle" /\ task \in Tasks /\ inbox \in Mail(task)
    BY DEF InStep, InStepAt, Receives
  <1>2. "idle" \notin Answers(task) /\ "indexed" # "idle"
    BY DEF Answers, NativeOutcomes
  <1>3. Head(inbox) = message /\ inbox' = Tail(inbox)
    BY DEF Receives
  <1>4. CASE inbox = <<"idle">>
    BY <1>1, <1>3, <1>4 DEF Working, WorkingAt
  <1>5. ASSUME NEW m \in Answers(task), inbox = <<m, "idle">>
        PROVE  message \in Answers(task) /\ inbox' = <<"idle">> /\ Working
    BY <1>2, <1>3, <1>5 DEF Working, WorkingAt
  <1>6. ASSUME NEW m \in NativeOutcomes, task \in NativeIds, inbox = <<"indexed", m, "idle">>
        PROVE  message = "indexed" /\ inbox' = <<m, "idle">> /\ Working
    BY <1>3, <1>6 DEF Working, WorkingAt
  <1>7. \/ inbox = <<"idle">>
        \/ \E m \in Answers(task) : inbox = <<m, "idle">>
        \/ task \in NativeIds /\ \E m \in NativeOutcomes : inbox = <<"indexed", m, "idle">>
    BY <1>1 DEF Mail
  <1> QED BY <1>1, <1>4, <1>5, <1>6, <1>7

LEMMA AnswerFacts ==
    /\ \A t \in NativeIds : Answers(t) = NativeOutcomes
    /\ Answers(Initialize) = {"context", "nocontext"}
    /\ Answers(CatalogCall) = {"catalog", "changed"}
    /\ Answers(Refresh) = {"indexed", "unindexed"}
    /\ Tasks = NativeIds \cup {Initialize, CatalogCall, Refresh}
  <1>1. \A t \in NativeIds : t # Initialize /\ t # CatalogCall /\ t # Refresh
    BY IdFacts
  <1>2. Refresh # Initialize /\ Refresh # CatalogCall /\ Initialize # CatalogCall
    BY IdFacts
  <1> QED BY <1>1, <1>2 DEF Answers, Tasks

\* What is left of the mail of a task is again mail of this task.
LEMMA MailLeft ==
    ASSUME NEW t, t # Idle, NEW m,
           m = <<"idle">> \/ \E v \in Answers(t) : m = <<v, "idle">>
    PROVE  InStepAt(t, "idle", m)
  BY DEF InStepAt, Mail

\* Coherent, part by part, of the next state.
LEMMA CoherentNext ==
    ASSUME InStepAt(task', phase', inbox'), kind' = kind,
           wrote' => Writer(task', phase', inbox'),
           phase' = "publish" => fresh',
           refreshPending' /\ ~stopped' =>
             \/ Refresh \in ToSet(work')
             \/ task' = Refresh /\ WorkingAt(phase', inbox'),
           ~EveryWriterOwes /\ owed' /\ ready' /\ ~stopped' =>
             \/ Refresh \in ToSet(work')
             \/ task' = Refresh /\ (phase' = "scan" \/ (phase' = "publish" /\ fresh'))
    PROVE  Coherent'
  BY DEF Coherent, InStep, InStepAt, Unread, Writer, NoLostRefresh, RefreshAhead,
         Working, WorkingAt, ToSet

LEMMA WorkerCoherent ==
    ASSUME RuntimeTypeOK, Coherent, Worker
    PROVE  Coherent'
  <1> USE DEF recordVars, statusVars, serverVars
  <1> SUFFICES /\ InStepAt(task', phase', inbox')
               /\ wrote' => Writer(task', phase', inbox')
               /\ phase' = "publish" => fresh'
               /\ refreshPending' /\ ~stopped' =>
                    \/ Refresh \in ToSet(work')
                    \/ task' = Refresh /\ WorkingAt(phase', inbox')
               /\ ~EveryWriterOwes /\ owed' /\ ready' /\ ~stopped' =>
                    \/ Refresh \in ToSet(work')
                    \/ task' = Refresh /\ (phase' = "scan" \/ (phase' = "publish" /\ fresh'))
    <2>1. kind' = kind
      BY DEF Worker, Execute, Scan, Publish
    <2> QED BY <2>1, CoherentNext
  <1>1. task \in Tasks \cup {Idle} /\ verdict \in NativeOutcomes
    BY DEF RuntimeTypeOK
  <1>2. /\ InStepAt(task, phase, inbox) /\ (wrote => Writer(task, phase, inbox))
        /\ phase = "publish" => fresh
        /\ refreshPending /\ ~stopped => Refresh \in ToSet(work) \/ (task = Refresh /\ Working)
        /\ ~EveryWriterOwes /\ owed /\ ready /\ ~stopped =>
             \/ Refresh \in ToSet(work)
             \/ task = Refresh /\ (phase = "scan" \/ (phase = "publish" /\ fresh))
    BY DEF Coherent, InStep, Unread, NoLostRefresh, RefreshAhead
  <1>3. CASE Execute
    <2>1. phase = "execute" /\ inbox = <<>> /\ task # Idle /\ task # Refresh
      BY <1>2, <1>3 DEF Execute, InStepAt
    <2>2. UNCHANGED <<task, kind, work, fresh, refreshPending, owed, ready, stopped>>
      BY <1>3 DEF Execute, vars
    <2>3. /\ phase' # "publish"
          /\ refreshPending' /\ ~stopped' => Refresh \in ToSet(work')
          /\ ~EveryWriterOwes /\ owed' /\ ready' /\ ~stopped' => Refresh \in ToSet(work')
      BY <1>2, <1>3, <2>1, <2>2 DEF Execute
    <2>4. ASSUME NEW answers, answers \subseteq Answers(task), \E m \in answers : Posts(<<m, "idle">>),
                 phase' = "idle"
          PROVE  /\ InStepAt(task', phase', inbox')
                 /\ Head(inbox') \in answers
      <3>1. PICK m \in answers : inbox' = <<m, "idle">>
        BY <2>1, <2>4 DEF Posts
      <3>2. Head(inbox') = m
        BY <3>1
      <3> QED BY <2>1, <2>2, <2>4, <3>1, <3>2, MailLeft
    <2>5. wrote => task \in NativeIds /\ kind[task] = "v2"
      BY <1>2, <1>3 DEF Writer, Execute
    <2>6. CASE task = Initialize
      <3>1. InStepAt(task', phase', inbox') /\ wrote' = wrote
        <4>1. \E m \in {"context", "nocontext"} : Posts(<<m, "idle">>)
          BY <1>3, <2>6, IdFacts DEF Execute
        <4> QED BY <1>3, <2>4, <2>6, <4>1, AnswerFacts, IdFacts DEF Execute
      <3> QED BY <2>3, <2>5, <2>6, <3>1, IdFacts
    <2>7. CASE task = CatalogCall
      <3>1. InStepAt(task', phase', inbox') /\ wrote' = wrote
        <4>1. \E m \in {"catalog", "changed"} : Posts(<<m, "idle">>)
          BY <1>3, <2>7, IdFacts DEF Execute
        <4> QED BY <1>3, <2>4, <2>7, <4>1, AnswerFacts, IdFacts DEF Execute
      <3> QED BY <2>3, <2>5, <2>7, <3>1, IdFacts
    <2>8. CASE task \in NativeIds /\ kind[task] # "v2"
      <3>1. \E m \in Verdicts : Posts(<<m, "idle">>)
        BY <1>3, <2>8, IdFacts DEF Execute
      <3>2. Verdicts \subseteq Answers(task) /\ Answers(task) = NativeOutcomes
        BY <2>8, AnswerFacts DEF Verdicts, NativeOutcomes
      <3>3. phase' = "idle" /\ (wrote' => wrote \/ kind[task] = "v1")
        BY <1>3, <2>8, IdFacts DEF Execute
      <3>4. InStepAt(task', phase', inbox') /\ Head(inbox') \in NativeOutcomes
        BY <2>4, <3>1, <3>2, <3>3
      <3>5. wrote' => Writer(task', phase', inbox')
        BY <2>2, <2>5, <2>8, <3>3, <3>4 DEF Writer, WorkingAt, NativeOutcomes
      <3> QED BY <2>3, <3>4, <3>5
    <2>9. CASE task \in NativeIds /\ kind[task] = "v2"
      <3>1. phase' = "scan" /\ inbox' = <<>>
        BY <1>3, <2>1, <2>9, IdFacts DEF Execute
      <3>2. InStepAt(task', phase', inbox') /\ Writer(task', phase', inbox')
        BY <2>1, <2>2, <2>9, <3>1 DEF InStepAt, Writer
      <3> QED BY <2>3, <3>2
    <2> QED BY <1>1, <2>1, <2>6, <2>7, <2>8, <2>9, AnswerFacts
  <1>4. CASE Scan
    <2>1. phase = "scan" /\ phase' = "publish" /\ fresh' = TRUE /\ inbox = <<>> /\ task # Idle
      BY <1>2, <1>4 DEF Scan, InStepAt
    <2>2. UNCHANGED <<task, kind, work, refreshPending, owed, ready, stopped, inbox, wrote>>
      BY <1>4 DEF Scan, vars
    <2> QED BY <1>2, <2>1, <2>2 DEF InStepAt, Writer, Working, WorkingAt
  <1>5. CASE Publish
    <2>1. /\ phase = "publish" /\ phase' = "idle" /\ inbox = <<>> /\ fresh = TRUE /\ task # Idle
          /\ task = Refresh \/ (task \in NativeIds /\ kind[task] = "v2")
      BY <1>2, <1>5 DEF Publish, InStepAt, RuntimeTypeOK
    <2>2. UNCHANGED <<task, kind, work, refreshPending, ready, stopped, fresh>>
      BY <1>5 DEF Publish, vars
    <2>3. CASE task = Refresh
      <3>1. inbox' = <<"indexed", "idle">> \/ inbox' = <<"unindexed", "idle">>
        BY <1>5, <2>1, <2>3 DEF Publish, Publishes, PublishFails, Posts
      <3>2. InStepAt(task', phase', inbox') /\ Head(inbox') # "idle"
        BY <2>1, <2>2, <2>3, <3>1, MailLeft, AnswerFacts
      <3>3. ~wrote
        BY <1>2, <2>3, IdFacts DEF Writer
      <3>4. Publishes \/ PublishFails
        BY <1>5 DEF Publish
      <3>5. ~wrote' /\ ~owed'
        <4>1. CASE Publishes
          BY <2>1, <3>3, <4>1 DEF Publishes
        <4>2. CASE PublishFails
          BY <2>3, <3>3, <4>2 DEF PublishFails
        <4> QED BY <3>4, <4>1, <4>2
      <3> QED BY <2>1, <2>2, <2>3, <3>2, <3>5, <1>2 DEF WorkingAt
    <2>4. CASE task \in NativeIds /\ kind[task] = "v2"
      <3>1. task # Refresh
        BY <2>4, IdFacts
      <3>2. /\ refreshPending' /\ ~stopped' => Refresh \in ToSet(work')
            /\ ~EveryWriterOwes /\ owed' /\ ready' /\ ~stopped' => Refresh \in ToSet(work')
        <4>1. Publishes \/ PublishFails
          BY <1>5 DEF Publish
        <4>2. owed' => owed
          BY <4>1 DEF Publishes, PublishFails
        <4> QED BY <1>2, <2>2, <3>1, <4>2
      <3>3. CASE Publishes
        <4>1. inbox' = <<"indexed", verdict, "idle">> /\ ~wrote'
          <5>1. inbox' = inbox \o <<"indexed", verdict, "idle">>
            BY <3>1, <3>3 DEF Publishes, Posts
          <5>2. ~wrote'
            BY <2>1, <3>3 DEF Publishes
          <5> QED BY <2>1, <5>1, <5>2
        <4>2. InStepAt(task', phase', inbox')
          BY <1>1, <2>1, <2>2, <2>4, <4>1, <3>1 DEF InStepAt, Mail
        <4> QED BY <2>1, <3>2, <4>1, <4>2
      <3>4. CASE PublishFails
        <4> DEFINE m == IF verdict = "succeeded" THEN "failed" ELSE verdict
        <4>1. inbox' = <<m, "idle">>
          BY <2>1, <3>1, <3>4 DEF PublishFails, Posts
        <4>2. m \in {"failed", "cancelled"} /\ m \in Answers(task)
          BY <1>1, <2>4, AnswerFacts DEF NativeOutcomes
        <4> HIDE DEF m
        <4>3. InStepAt(task', phase', inbox') /\ Head(inbox') = m
          BY <2>1, <2>2, <4>1, <4>2, MailLeft
        <4>4. Writer(task', phase', inbox')
          BY <2>2, <2>4, <4>2, <4>3 DEF Writer
        <4> QED BY <2>1, <3>2, <4>3, <4>4
      <3> QED BY <1>5, <3>3, <3>4 DEF Publish
    <2> QED BY <2>1, <2>3, <2>4
  <1> QED BY <1>3, <1>4, <1>5 DEF Worker

\* Coherent, part by part, of this state.
LEMMA CoherentHere ==
    ASSUME Coherent, RuntimeTypeOK
    PROVE  /\ task \in Tasks \cup {Idle} /\ work \in Seq(Tasks)
           /\ InStepAt(task, phase, inbox) /\ (wrote => Writer(task, phase, inbox))
           /\ phase = "publish" => fresh
           /\ task = Idle => inbox = <<>> /\ phase = "idle" /\ ~wrote
           /\ refreshPending /\ ~stopped => Refresh \in ToSet(work) \/ (task = Refresh /\ Working)
           /\ task # Refresh \/ phase = "idle" =>
                (~EveryWriterOwes /\ owed /\ ready /\ ~stopped => Refresh \in ToSet(work))
           /\ ~EveryWriterOwes /\ owed /\ ready /\ ~stopped =>
                \/ Refresh \in ToSet(work)
                \/ task = Refresh /\ (phase = "scan" \/ (phase = "publish" /\ fresh))
  <1>1. task \in Tasks \cup {Idle} /\ work \in Seq(Tasks)
    BY DEF RuntimeTypeOK
  <1> QED
    BY <1>1, IdFacts DEF Coherent, InStep, InStepAt, Unread, Writer, NoLostRefresh, RefreshAhead

\* Steps that leave all of this alone, but may stop the server.
LEMMA CoherentStill ==
    ASSUME Coherent, RuntimeTypeOK, stopped' = stopped \/ stopped' = TRUE,
           UNCHANGED <<kind, task, phase, inbox, wrote, refreshPending, owed, ready>>,
           fresh' = fresh \/ task = Idle, work' = work \/ stopped' = TRUE
    PROVE  Coherent'
  BY CoherentHere, CoherentNext, IdFacts DEF InStepAt, Writer, Working

LEMMA DeliverCoherent ==
    ASSUME RuntimeTypeOK, Coherent, Deliver
    PROVE  Coherent'
  <1> USE DEF recordVars, statusVars, serverVars, workerVars, pumpVars
  <1>1. /\ task \in Tasks \cup {Idle} /\ work \in Seq(Tasks)
        /\ InStepAt(task, phase, inbox) /\ (wrote => Writer(task, phase, inbox))
        /\ refreshPending /\ ~stopped => Refresh \in ToSet(work) \/ (task = Refresh /\ Working)
        /\ task # Refresh \/ phase = "idle" =>
             (~EveryWriterOwes /\ owed /\ ready /\ ~stopped => Refresh \in ToSet(work))
    BY CoherentHere
  <1>2. InStep
    BY DEF Coherent
  <1>3. /\ NativeIds \subseteq Tasks /\ Idle \notin Tasks
        /\ Refresh \notin NativeIds /\ Initialize \notin NativeIds /\ CatalogCall \notin NativeIds
        /\ Refresh # Initialize /\ Refresh # CatalogCall
    BY IdFacts
  <1>4. ASSUME NEW outcome \in NativeOutcomes, Completed(outcome)
        PROVE  Coherent'
    <2>1. Receives(outcome) /\ ~wrote' /\ UNCHANGED <<kind, stopped, fresh, ready>>
      BY <1>4 DEF Completed, queueVars
    <2>2. /\ phase = "idle" /\ task \in NativeIds /\ inbox' = <<"idle">>
          /\ Head(inbox) = outcome /\ task # Refresh /\ task # Idle
      <3>1. /\ phase = "idle" /\ task \in Tasks
            /\ \/ outcome = "idle"
               \/ outcome \in Answers(task) /\ inbox' = <<"idle">>
               \/ outcome = "indexed"
        BY <1>1, <1>2, <2>1, MailFacts
      <3>2. outcome \in Answers(task) /\ inbox' = <<"idle">>
        BY <3>1 DEF NativeOutcomes
      <3>3. task \in NativeIds
        BY <3>1, <3>2, AnswerFacts DEF NativeOutcomes
      <3> QED BY <1>3, <2>1, <3>1, <3>2, <3>3 DEF Receives
    <2>3. InStepAt(task, phase, inbox')
      BY <2>2, MailLeft
    <2>4. refreshPending /\ ~stopped => Refresh \in ToSet(work)
      BY <1>1, <2>2
    <2>5. CASE outcome = "succeeded" /\ kind[task] = "v1"
      <3>1. RefreshIndex([native EXCEPT ![task] = outcome], ready', pumpPosted)
        BY <1>4, <2>1, <2>5 DEF Completed
      <3> QED BY <1>1, <2>1, <2>2, <2>3, <2>4, <3>1, RefreshCoherent
    <2>6. CASE ~(outcome = "succeeded" /\ kind[task] = "v1")
      <3>1. UNCHANGED <<work, task, phase, refreshPending>>
        BY <1>4, <2>6 DEF Completed
      <3>2. outcome = "succeeded" => ~wrote
        BY <1>1, <2>2, <2>6 DEF Writer
      <3>3. owed' => owed
        BY <1>4, <3>2 DEF Completed
      <3> QED BY <1>1, <2>1, <2>2, <2>3, <2>4, <3>1, <3>3, CoherentNext
    <2> QED BY <2>5, <2>6
  <1>5. CASE Indexed
    <2>1. PICK message \in {"indexed", "unindexed"} : Receives(message)
      BY <1>5 DEF Indexed
    <2>2. UNCHANGED <<kind, task, phase, work, wrote, fresh, owed, ready, stopped>>
          /\ ~refreshPending'
      BY <1>5 DEF Indexed, vars
    <2>3. /\ phase = "idle" /\ task # Idle
          /\ inbox' = <<"idle">> \/ \E v \in Answers(task) : inbox' = <<v, "idle">>
      BY <1>1, <1>2, <1>3, <2>1, MailFacts, AnswerFacts
    <2>4. InStepAt(task, phase, inbox')
      BY <2>3, MailLeft
    <2>5. wrote => Writer(task, phase, inbox')
      <3> SUFFICES ASSUME wrote PROVE Writer(task, phase, inbox')
        OBVIOUS
      <3>1. task \in NativeIds /\ (kind[task] = "v1" \/ Head(inbox) \in {"failed", "cancelled"})
        BY <1>1, <2>3 DEF Writer
      <3>2. Head(inbox) = message /\ message \notin {"failed", "cancelled"}
            /\ message \notin Answers(task)
        BY <2>1, <3>1, AnswerFacts DEF Receives, NativeOutcomes
      <3>3. \E v \in NativeOutcomes : inbox' = <<v, "idle">>
        BY <1>1, <1>2, <2>1, <3>2, MailFacts
      <3>4. Head(inbox') # "idle"
        BY <3>3 DEF NativeOutcomes
      <3> QED BY <2>3, <3>1, <3>2, <3>4 DEF Writer, WorkingAt
    <2> QED BY <1>1, <2>2, <2>3, <2>4, <2>5, CoherentNext
  <1>6. ASSUME NEW message, message \in {"context", "nocontext", "catalog", "changed"},
               Receives(message)
        PROVE  /\ phase = "idle" /\ task \in {Initialize, CatalogCall} /\ task \notin NativeIds
               /\ task # Refresh /\ task # Idle /\ ~wrote
               /\ InStepAt(task, phase, inbox')
               /\ refreshPending /\ ~stopped => Refresh \in ToSet(work)
    <2>1. phase = "idle" /\ task \in Tasks /\ message \in Answers(task) /\ inbox' = <<"idle">>
      BY <1>1, <1>2, <1>6, MailFacts
    <2>2. task \in {Initialize, CatalogCall}
      BY <1>6, <2>1, AnswerFacts DEF NativeOutcomes
    <2>3. task # Refresh /\ task # Idle /\ task \notin NativeIds
      BY <1>3, <2>1, <2>2
    <2>4. ~wrote
      BY <1>1, <2>3 DEF Writer
    <2> QED BY <1>1, <2>1, <2>2, <2>3, <2>4, MailLeft
  <1>7. CASE ContextResolved
    <2>1. Receives("context") /\ UNCHANGED <<kind, wrote, fresh, owed, stopped>>
      BY <1>7 DEF ContextResolved, queueVars
    <2>2. CASE stopped
      BY <1>1, <1>6, <1>7, <2>1, <2>2, CoherentNext DEF ContextResolved
    <2>3. CASE ~stopped
      <3>1. RefreshIndex(native, ready', pumpPosted)
        BY <1>7, <2>3 DEF ContextResolved
      <3> QED BY <1>1, <1>6, <2>1, <3>1, RefreshCoherent
    <2> QED BY <2>2, <2>3
  <1>8. CASE ContextFailed
    <2>1. /\ Receives("nocontext") /\ (refreshPending' => refreshPending)
          /\ UNCHANGED <<kind, task, phase, work, wrote, fresh, owed, ready, stopped>>
      BY <1>8 DEF ContextFailed, vars
    <2> QED BY <1>1, <1>6, <2>1, CoherentNext
  <1>9. CASE CatalogAnswered
    <2>1. UNCHANGED <<kind, wrote, fresh, owed, ready, stopped>>
      BY <1>9 DEF CatalogAnswered, queueVars
    <2>2. CASE Receives("catalog") /\ UNCHANGED <<pumpVars, statusVars>>
      BY <1>1, <1>6, <2>1, <2>2, CoherentNext
    <2>3. CASE Receives("changed") /\ RefreshIndex(native, ready, pumpPosted)
      BY <1>1, <1>6, <2>1, <2>3, RefreshCoherent
    <2> QED BY <1>9, <2>2, <2>3 DEF CatalogAnswered
  <1>10. CASE TaskDone
    <2>1. Receives("idle") /\ UNCHANGED <<kind, wrote, fresh, owed, ready, stopped, refreshPending>>
      BY <1>10 DEF TaskDone, queueVars
    <2>2. PumpDone(native, work, Idle, FALSE, TRUE)
      BY <1>1, <1>10, PumpCases DEF TaskDone
    <2>3. phase = "idle" /\ inbox' = <<>> /\ ~Working
      <3>1. \A t \in Tasks : "idle" \notin Answers(t)
        BY AnswerFacts DEF NativeOutcomes
      <3> QED BY <1>1, <1>2, <2>1, <3>1, MailFacts
    <2>4. ~wrote
      BY <1>1, <2>3 DEF Writer, Working, WorkingAt
    <2> QED BY <1>1, <2>1, <2>2, <2>3, <2>4, PumpCoherent
  <1> QED BY <1>4, <1>5, <1>7, <1>8, <1>9, <1>10 DEF Deliver

LEMMA CoherentKept ==
    ASSUME RuntimeTypeOK, ExclusionInv, Coherent, Placed, [RuntimeNext]_runtimeVars
    PROVE  Coherent'
  <1> USE DEF recordVars, statusVars, serverVars, workerVars, pumpVars
  <1>1. /\ task \in Tasks \cup {Idle} /\ work \in Seq(Tasks)
        /\ InStepAt(task, phase, inbox) /\ (wrote => Writer(task, phase, inbox))
        /\ phase = "publish" => fresh
        /\ task = Idle => inbox = <<>> /\ phase = "idle" /\ ~wrote
        /\ refreshPending /\ ~stopped => Refresh \in ToSet(work) \/ (task = Refresh /\ Working)
        /\ ~EveryWriterOwes /\ owed /\ ready /\ ~stopped =>
             \/ Refresh \in ToSet(work)
             \/ task = Refresh /\ (phase = "scan" \/ (phase = "publish" /\ fresh))
    BY CoherentHere
  <1>2. active # NoJob => task = Idle
    BY DEF ExclusionInv, MutualExclusion
  <1>3. CASE SubmitNative
    <2>1. task \in NativeIds => kind'[task] = kind[task]
      <3> SUFFICES ASSUME task \in NativeIds PROVE kind'[task] = kind[task]
        OBVIOUS
      <3>1. native[task] # "absent"
        BY DEF Placed, Places
      <3>2. task # nextNative
        BY <3>1 DEF Placed, Places, RuntimeTypeOK, NativeIds
      <3>3. kind \in [NativeIds -> {"none", "v1", "v2", "plain"}]
        BY DEF RuntimeTypeOK
      <3> QED BY <1>3, <3>2, <3>3 DEF SubmitNative
    <2>2. UNCHANGED <<task, phase, work, inbox, wrote, fresh, owed, ready, stopped, refreshPending>>
      BY <1>3 DEF SubmitNative, vars
    <2> QED
      BY <1>1, <2>1, <2>2 DEF Coherent, InStep, InStepAt, Unread, Writer, NoLostRefresh,
         RefreshAhead, Working, WorkingAt, ToSet, Mail, Answers
  <1>4. CASE Admit
    <2>1. UNCHANGED <<kind, stopped, fresh, inbox, wrote, refreshPending, owed, ready>>
      BY <1>4 DEF Admit, queueVars
    <2>2. CASE UNCHANGED pumpVars
      BY <2>1, <2>2, CoherentStill
    <2>3. CASE Enqueue(native, Head(admissions), pumpPosted) /\ admissions # <<>>
      <3>1. admissions \in Seq(NativeIds)
        BY DEF RuntimeTypeOK
      <3>2. Head(admissions) \in NativeIds
        BY <2>3, <3>1
      <3> QED BY <2>1, <2>3, <3>2, EnqueueCoherent, IdFacts
    <2> QED BY <1>4, <2>2, <2>3 DEF Admit
  <1>5. CASE Perform
    <2>1. UNCHANGED <<kind, stopped, fresh, inbox, wrote, refreshPending, owed, ready>>
      BY <1>5 DEF Perform, queueVars
    <2> QED BY <1>5, <2>1, EnqueueCoherent, IdFacts DEF Perform
  <1>6. CASE \/ (\E i \in NativeIds : CancelNative(i)) \/ ReadStarts \/ ReadEnds \/ Drain
             \/ UNCHANGED runtimeVars
    BY <1>6, CoherentStill DEF CancelNative, ReadStarts, ReadEnds, Drain, runtimeVars,
       nativeVars, vars
  <1>7. CASE Retry
    <2>1. UNCHANGED <<kind, stopped, fresh, inbox, wrote, refreshPending, owed, ready>>
      BY <1>7 DEF Retry, queueVars
    <2>2. PumpDone(native, work, task, paused, pumpPosted)
      BY <1>1, <1>7, PumpCases DEF Retry
    <2> QED BY <1>1, <2>1, <2>2, PumpCoherent DEF Working
  <1>8. CASE LegacyPump \/ LegacyStep \/ LegacyEnds
    <2>1. stopped' = stopped
      <3>1. CASE LegacyPump
        BY <3>1 DEF LegacyPump, Pump, PumpIdle, PumpStart, PumpSpawnFails
      <3>2. CASE LegacyStep
        BY <3>2 DEF LegacyStep, Submit, Cancel, CancelActive, CancelQueued, ProcessReaped
      <3>3. CASE LegacyEnds
        BY <3>3 DEF LegacyEnds
      <3> QED BY <1>8, <3>1, <3>2, <3>3
    <2>2. CASE LegacyPump \/ LegacyStep
      BY <2>1, <2>2, CoherentStill DEF LegacyPump, LegacyStep, nativeVars
    <2>3. CASE LegacyEnds
      <3>1. ~EveryWriterOwes => owed' = owed
        BY <2>3 DEF LegacyEnds, RuntimeTypeOK
      <3>2. UNCHANGED <<kind, task, phase, work, inbox, wrote, fresh, ready, refreshPending>>
        BY <2>3 DEF LegacyEnds
      <3> QED
        BY <1>1, <2>1, <3>1, <3>2 DEF Coherent, InStep, InStepAt, Unread, Writer, NoLostRefresh,
           RefreshAhead, Working, WorkingAt, ToSet, Mail, Answers
    <2> QED BY <1>8, <2>2, <2>3
  <1>9. CASE LegacyWrites
    BY <1>2, <1>9, CoherentStill DEF LegacyWrites, vars
  <1>10. CASE LegacySucceeds
    <2>1. task = Idle /\ inbox' = <<>> /\ ~wrote' /\ phase = "idle"
      BY <1>1, <1>2, <1>10 DEF LegacySucceeds
    <2>2. RefreshIndex(native, ready', TRUE) /\ UNCHANGED <<kind, stopped, fresh>>
      BY <1>10 DEF LegacySucceeds
    <2> QED BY <1>1, <2>1, <2>2, RefreshCoherent, IdFacts
  <1>11. CASE Shutdown
    BY <1>11, CoherentStill DEF Shutdown, StopNative
  <1> QED
    BY <1>3, <1>4, <1>5, <1>6, <1>7, <1>8, <1>9, <1>10, <1>11, WorkerCoherent, DeliverCoherent
       DEF RuntimeNext, LegacyDone

-----------------------------------------------------------------------------
(***************************************************************************)
(* Where the native jobs are.                                              *)
(***************************************************************************)
LEMMA RestOfTasks ==
    ASSUME NEW w \in Seq(Tasks), NEW k \in 1..Len(w)
    PROVE  LET rest == SubSeq(w, k + 1, Len(w))
           IN  /\ rest \in Seq(Tasks) /\ Len(rest) = Len(w) - k
               /\ \A j \in 1..Len(rest) : k + j \in 1..Len(w) /\ rest[j] = w[k + j]
               /\ \A j \in 1..Len(w) : j > k => w[j] \in ToSet(rest)
  <1> DEFINE rest == SubSeq(w, k + 1, Len(w))
  <1>1. /\ rest \in Seq(Tasks) /\ Len(rest) = Len(w) - k
        /\ \A j \in 1..Len(rest) : k + j \in 1..Len(w) /\ rest[j] = w[k + j]
    OBVIOUS
  <1> HIDE DEF rest
  <1>2. \A j \in 1..Len(w) : j > k => j - k \in 1..Len(rest) /\ rest[j - k] = w[j]
    BY <1>1
  <1>3. ASSUME NEW j \in 1..Len(w), j > k PROVE w[j] \in ToSet(rest)
    <2>1. j - k \in DOMAIN rest /\ rest[j - k] = w[j]
      BY <1>1, <1>2, <1>3
    <2> QED BY <2>1 DEF ToSet
  <1> QED BY <1>1, <1>3 DEF rest

LEMMA PumpPlaced ==
    ASSUME NEW STATE jobs, NEW STATE w, NEW STATE t, NEW STATE isPaused, NEW STATE posted,
           jobs \in [NativeIds -> NativeStates], w \in Seq(Tasks), t \in Tasks \cup {Idle},
           PumpDone(jobs, w, t, isPaused, posted),
           UNCHANGED <<nextNative, nativeOrder>>,
           \A i \in NativeIds : Places(jobs, w, admissions', t, WorkingAt(phase, inbox'), i),
           Once(w, admissions')
    PROVE  Placed'
  <1> SUFFICES /\ \A i \in NativeIds : Places(native', work', admissions', task',
                                              WorkingAt(phase', inbox'), i)
               /\ Once(work', admissions')
    BY DEF Placed, Places, Once, Working, WorkingAt, ToSet
  <1>1. CASE PumpRests(jobs, w, t, isPaused, posted)
    <2>1. native' = jobs /\ work' = w /\ task' = t /\ (t # Idle => phase' = phase)
      BY <1>1 DEF PumpRests
    <2> QED BY <2>1, IdFacts DEF Places, WorkingAt
  <1>2. CASE PumpDrops(jobs, w, t)
    <2>1. native' = jobs /\ work' = <<>> /\ task' = Idle /\ t = Idle /\ ToSet(work') = {}
      BY <1>2 DEF PumpDrops, ToSet
    <2>2. ASSUME NEW i \in NativeIds, jobs[i] = "queued" PROVE i \notin ToSet(w)
      BY <1>2, <2>2 DEF PumpDrops, Admitted, ToSet
    <2> QED BY <2>1, <2>2, IdFacts DEF Places, Once
  <1>3. ASSUME NEW k \in 1..Len(w), PumpStarts(jobs, w, t, posted, k)
        PROVE  /\ \A i \in NativeIds : Places(native', work', admissions', task',
                                              WorkingAt(phase', inbox'), i)
               /\ Once(work', admissions')
    <2>1. /\ t = Idle /\ Admitted(jobs, w[k])
          /\ \A l \in 1..Len(w) : l < k => ~Admitted(jobs, w[l])
          /\ native' = [i \in NativeIds |-> IF i = w[k] THEN "running" ELSE jobs[i]]
          /\ work' = SubSeq(w, k + 1, Len(w)) /\ task' = w[k] /\ phase' # "idle"
      BY <1>3 DEF PumpStarts
    <2>2. /\ Len(work') = Len(w) - k
          /\ \A j \in 1..Len(work') : k + j \in 1..Len(w) /\ work'[j] = w[k + j]
          /\ \A j \in 1..Len(w) : j > k => w[j] \in ToSet(work')
      BY <2>1, RestOfTasks
    <2>3. Once(work', admissions')
      <3>1. ASSUME NEW j \in 1..Len(work'), NEW l \in 1..Len(work'),
                   work'[j] = work'[l], work'[j] \in NativeIds
            PROVE  j = l
        <4>1. k + j \in 1..Len(w) /\ k + l \in 1..Len(w) /\ w[k + j] = w[k + l]
              /\ w[k + j] \in NativeIds
          BY <2>2, <3>1
        <4>2. k + j = k + l
          BY <4>1 DEF Once
        <4>3. j \in Int /\ l \in Int /\ k \in Int
          OBVIOUS
        <4> QED BY <4>2, <4>3
      <3>2. \A j \in 1..Len(work'), l \in 1..Len(admissions') : work'[j] # admissions'[l]
        BY <2>2 DEF Once
      <3> QED BY <3>1, <3>2 DEF Once
    <2>4. ASSUME NEW i \in NativeIds
          PROVE  Places(native', work', admissions', task', WorkingAt(phase', inbox'), i)
      <3>1. Places(jobs, w, admissions', t, WorkingAt(phase, inbox'), i)
        OBVIOUS
      <3>2. i \in ToSet(work') => i \in ToSet(w)
        <4> SUFFICES ASSUME NEW j \in 1..Len(work'), work'[j] = i PROVE i \in ToSet(w)
          BY DEF ToSet
        <4>1. k + j \in 1..Len(w) /\ w[k + j] = i
          BY <2>2
        <4> QED BY <4>1 DEF ToSet
      <3>3. t # i /\ i # Idle
        BY <2>1, IdFacts
      <3>4. CASE i = w[k]
        <4>1. jobs[i] = "queued" /\ i \notin ToSet(admissions')
          BY <2>1, <3>1, <3>4, SMTT(30) DEF Places, Admitted, Once, ToSet
        <4>2. i \notin ToSet(work')
          BY <2>2, <3>4, SMTT(30) DEF Once, ToSet
        <4> QED BY <2>1, <3>1, <3>4, <4>1, <4>2 DEF Places, WorkingAt
      <3>5. CASE i # w[k]
        <4>1. jobs[i] = "queued" => i \in ToSet(admissions') \cup ToSet(work')
          <5> SUFFICES ASSUME jobs[i] = "queued", i \in ToSet(w)
                       PROVE  i \in ToSet(work')
            BY <3>1 DEF Places
          <5>1. PICK l \in 1..Len(w) : w[l] = i
            BY DEF ToSet
          <5>2. ~(l < k)
            BY <2>1, <5>1 DEF Admitted
          <5>3. l > k
            BY <3>5, <5>1, <5>2
          <5> QED BY <2>2, <5>1, <5>3
        <4> QED BY <2>1, <3>1, <3>2, <3>3, <3>5, <4>1 DEF Places
      <3> QED BY <3>4, <3>5
    <2> QED BY <2>3, <2>4
  <1> QED BY <1>1, <1>2, <1>3 DEF PumpDone

LEMMA EnqueuePlaced ==
    ASSUME RuntimeTypeOK, NEW STATE t, t \in Tasks, NEW STATE posted,
           Enqueue(native, t, posted), UNCHANGED <<nextNative, nativeOrder, inbox>>,
           LET w == Append(work, t)
           IN  /\ \A i \in NativeIds : Places(native, w, admissions', task, Working, i)
               /\ Once(w, admissions')
    PROVE  Placed'
  <1> DEFINE w == Append(work, t)
  <1>1. /\ native \in [NativeIds -> NativeStates] /\ work \in Seq(Tasks)
        /\ task \in Tasks \cup {Idle}
    BY DEF RuntimeTypeOK
  <1>2. w \in Seq(Tasks)
    BY <1>1, AppendTask
  <1>3. PumpDone(native, w, task, paused, posted)
    BY <1>2, PumpCases DEF Enqueue
  <1>4. /\ \A i \in NativeIds : Places(native, w, admissions', task, WorkingAt(phase, inbox'), i)
        /\ Once(w, admissions')
    BY DEF Working
  <1> HIDE DEF w
  <1> QED BY <1>1, <1>2, <1>3, <1>4, PumpPlaced

\* A refresh, and other tasks that are no native jobs, take no place.
LEMMA OtherTask ==
    ASSUME NEW jobs, NEW w \in Seq(Tasks), NEW adm \in Seq(NativeIds), NEW t, NEW busy,
           NEW e \in Tasks \ NativeIds,
           \A i \in NativeIds : Places(jobs, w, adm, t, busy, i), Once(w, adm)
    PROVE  /\ \A i \in NativeIds : Places(jobs, Append(w, e), adm, t, busy, i)
           /\ Once(Append(w, e), adm)
  <1> DEFINE v == Append(w, e)
  <1>1. /\ v \in Seq(Tasks) /\ Len(v) = Len(w) + 1 /\ Len(w) \in Nat
        /\ \A k \in 1..Len(w) : v[k] = w[k]
        /\ v[Len(w) + 1] = e
    BY AppendTask
  <1>2. ToSet(v) = ToSet(w) \cup {e}
    BY AppendToSet
  <1> HIDE DEF v
  <1>3. \A i \in NativeIds : i \in ToSet(v) <=> i \in ToSet(w)
    BY <1>2
  <1>4. \A i \in NativeIds : Places(jobs, v, adm, t, busy, i)
    BY <1>3 DEF Places
  <1>5. \A k \in 1..Len(v) : v[k] \in NativeIds => k \in 1..Len(w) /\ v[k] = w[k]
    BY <1>1
  <1>6. \A k \in 1..Len(adm) : adm[k] \in NativeIds
    OBVIOUS
  <1>7. Once(v, adm)
    <2>1. ASSUME NEW j \in 1..Len(v), NEW k \in 1..Len(v), v[j] = v[k], v[j] \in NativeIds
          PROVE  j = k
      BY <1>5, <2>1 DEF Once
    <2>2. ASSUME NEW j \in 1..Len(v), NEW k \in 1..Len(adm) PROVE v[j] # adm[k]
      BY <1>5, <1>6 DEF Once
    <2> QED BY <2>1, <2>2 DEF Once
  <1> QED BY <1>4, <1>7 DEF v

LEMMA RefreshPlaced ==
    ASSUME RuntimeTypeOK, NEW STATE jobs, NEW STATE isReady, NEW STATE posted,
           jobs \in [NativeIds -> NativeStates],
           RefreshIndex(jobs, isReady, posted),
           UNCHANGED <<nextNative, nativeOrder, admissions>>,
           \A i \in NativeIds : Places(jobs, work, admissions, task, WorkingAt(phase, inbox'), i),
           Once(work, admissions)
    PROVE  Placed'
  <1> DEFINE w == Append(work, Refresh)
  <1>1. /\ work \in Seq(Tasks) /\ task \in Tasks \cup {Idle} /\ admissions \in Seq(NativeIds)
    BY DEF RuntimeTypeOK
  <1>2. CASE RefreshRests(jobs, isReady, posted)
    BY <1>2 DEF RefreshRests, Placed, Places, Once, Working, WorkingAt, ToSet
  <1>3. CASE RefreshWaits(jobs, posted)
    <2>1. w \in Seq(Tasks) /\ Len(w) = Len(work) + 1
      BY <1>1, AppendTask, IdFacts
    <2>2. /\ \A i \in NativeIds : Places(jobs, w, admissions, task, WorkingAt(phase, inbox'), i)
          /\ Once(w, admissions)
      BY <1>1, OtherTask, IdFacts
    <2> HIDE DEF w
    <2>3. PumpDone(jobs, w, task, paused, posted)
      BY <1>3, <2>1 DEF RefreshWaits, PumpDone, w
    <2> QED BY <1>1, <2>1, <2>2, <2>3, PumpPlaced
  <1> QED BY <1>1, <1>2, <1>3, RefreshCases

\* While the worker is busy with a task, the task is not over.
LEMMA WorkerWorks ==
    ASSUME RuntimeTypeOK, Coherent, Worker
    PROVE  Working /\ Working'
  <1>1. Working /\ inbox = <<>>
    BY DEF Worker, Execute, Scan, Publish, Working, WorkingAt, Coherent, InStep, InStepAt
  <1>2. Verdicts \subseteq NativeOutcomes /\ verdict \in NativeOutcomes
    BY DEF Verdicts, NativeOutcomes, RuntimeTypeOK
  <1>3. CASE Scan
    BY <1>1, <1>3 DEF Scan, Working, WorkingAt
  <1>4. CASE Execute
    <2>1. CASE phase' = "scan"
      BY <1>1, <2>1 DEF Working, WorkingAt
    <2>2. CASE phase' # "scan"
      <3>1. \E m \in {"context", "nocontext", "catalog", "changed"} \cup NativeOutcomes :
              Posts(<<m, "idle">>)
        BY <1>2, <1>4, <2>2 DEF Execute
      <3>2. \E m \in {"context", "nocontext", "catalog", "changed"} \cup NativeOutcomes :
              inbox' = <<m, "idle">>
        BY <1>1, <3>1 DEF Posts
      <3>3. Head(inbox') # "idle"
        BY <3>2 DEF NativeOutcomes
      <3> QED BY <1>1, <3>3 DEF Working, WorkingAt
    <2> QED BY <2>1, <2>2
  <1>5. CASE Publish
    <2>1. \/ inbox' = <<"indexed", "idle">> \/ inbox' = <<"indexed", verdict, "idle">>
          \/ inbox' = <<"unindexed", "idle">>
          \/ \E m \in NativeOutcomes : inbox' = <<m, "idle">>
      <3>1. Publishes \/ PublishFails
        BY <1>5 DEF Publish
      <3>2. CASE Publishes
        BY <1>1, <3>2 DEF Publishes, Posts
      <3>3. CASE PublishFails
        <4>1. (IF verdict = "succeeded" THEN "failed" ELSE verdict) \in NativeOutcomes
          BY <1>2 DEF NativeOutcomes
        <4> QED BY <1>1, <3>3, <4>1 DEF PublishFails, Posts
      <3> QED BY <3>1, <3>2, <3>3
    <2>2. Head(inbox') # "idle"
      BY <2>1 DEF NativeOutcomes
    <2> QED BY <1>1, <2>2 DEF Working, WorkingAt
  <1> QED BY <1>1, <1>3, <1>4, <1>5 DEF Worker

LEMMA SubmitPlaced ==
    ASSUME RuntimeTypeOK, Coherent, Placed, SubmitNative
    PROVE  Placed'
  <1> DEFINE n == nextNative
             Renewed ==
               /\ native'[n] = "queued"
               /\ \A i \in NativeIds : i # n =>
                    \/ native'[i] = native[i]
                    \/ native'[i] = "forgotten" /\ ~Live(i) /\ native[i] # "absent"
               /\ n \in ToSet(nativeOrder')
               /\ \A i \in NativeIds :
                    Live(i) => i \in ToSet(nativeOrder') \/ i \notin ToSet(nativeOrder)
               /\ \A i \in ToSet(nativeOrder') : i = n \/ i \in ToSet(nativeOrder)
  <1>1. /\ n \in NativeIds /\ native \in [NativeIds -> NativeStates]
        /\ admissions \in Seq(NativeIds) /\ nativeOrder \in Seq(NativeIds) /\ n \in Nat
        /\ NativeIds \subseteq Int
    BY RuntimeAssumption DEF RuntimeTypeOK, SubmitNative, NativeIds
  <1>2. \A i \in NativeIds : Places(native, work, admissions, task, Working, i)
    BY DEF Placed
  <1>3. native[n] = "absent"
    BY <1>1, <1>2 DEF Places
  <1>4. /\ n \notin ToSet(admissions) \cup ToSet(work) /\ task # n
        /\ n \notin ToSet(nativeOrder)
    BY <1>1, <1>2, <1>3 DEF Places
  <1>5. /\ nextNative' = n + 1 /\ admissions' = Append(admissions, n)
        /\ UNCHANGED <<work, task, phase, inbox>>
    BY DEF SubmitNative
  <1>6. ToSet(admissions') = ToSet(admissions) \cup {n}
    BY <1>1, <1>5, AppendToSet
  <1>7. Renewed
    <2>1. CASE /\ native' = [native EXCEPT ![n] = "queued"]
               /\ nativeOrder' = Append(nativeOrder, n)
      <3>1. ToSet(nativeOrder') = ToSet(nativeOrder) \cup {n}
        BY <1>1, <2>1, AppendToSet
      <3> QED BY <1>1, <2>1, <3>1
    <2>2. ASSUME NEW k \in 1..Len(nativeOrder), Evicts(k),
                 native' = [native EXCEPT ![n] = "queued", ![nativeOrder[k]] = "forgotten"],
                 nativeOrder' = Append(RemoveAt(nativeOrder, k), n)
          PROVE  Renewed
      <3> DEFINE rest == RemoveAt(nativeOrder, k)
                 old == nativeOrder[k]
      <3>1. /\ rest \in Seq(NativeIds) /\ Len(rest) = Len(nativeOrder) - 1
            /\ \A j \in 1..(Len(nativeOrder) - 1) :
                 rest[j] = IF j < k THEN nativeOrder[j] ELSE nativeOrder[j + 1]
        BY <1>1, RemoveAtFacts
      <3> HIDE DEF rest
      <3>2. ToSet(nativeOrder') = ToSet(rest) \cup {n}
        BY <2>2, <3>1, AppendToSet DEF rest
      <3>3. old \in NativeIds /\ old \in ToSet(nativeOrder) /\ ~Live(old)
        BY <1>1, <2>2 DEF Evicts, ToSet
      <3>4. old # n /\ native[old] # "absent"
        BY <1>2, <1>4, <3>3 DEF Places
      <3>5. ASSUME NEW i \in ToSet(nativeOrder), i # old PROVE i \in ToSet(rest)
        <4>1. PICK j \in 1..Len(nativeOrder) : nativeOrder[j] = i
          BY <1>1 DEF ToSet
        <4>2. CASE j < k
          <5>1. j \in DOMAIN rest /\ rest[j] = i
            BY <3>1, <4>1, <4>2
          <5> QED BY <5>1 DEF ToSet
        <4>3. CASE j > k
          <5>1. j - 1 \in DOMAIN rest /\ rest[j - 1] = i
            BY <3>1, <4>1, <4>3
          <5> QED BY <5>1 DEF ToSet
        <4> QED BY <3>5, <4>1, <4>2, <4>3
      <3>6. \A i \in ToSet(rest) : i \in ToSet(nativeOrder)
        <4> SUFFICES ASSUME NEW j \in DOMAIN rest PROVE rest[j] \in ToSet(nativeOrder)
          BY DEF ToSet
        <4>1. /\ j \in 1..(Len(nativeOrder) - 1)
              /\ j \in DOMAIN nativeOrder /\ j + 1 \in DOMAIN nativeOrder
          BY <1>1, <3>1
        <4>2. nativeOrder[j] \in ToSet(nativeOrder) /\ nativeOrder[j + 1] \in ToSet(nativeOrder)
          BY <4>1 DEF ToSet
        <4> QED BY <3>1, <4>1, <4>2
      <3>7. native'[n] = "queued"
        BY <1>1, <2>2, <3>4
      <3>8. ASSUME NEW i \in NativeIds, i # n
            PROVE  \/ native'[i] = native[i]
                   \/ native'[i] = "forgotten" /\ ~Live(i) /\ native[i] # "absent"
        BY <1>1, <2>2, <3>3, <3>4, <3>8
      <3>9. ASSUME NEW i \in NativeIds, Live(i)
            PROVE  i \in ToSet(nativeOrder') \/ i \notin ToSet(nativeOrder)
        BY <3>2, <3>3, <3>5, <3>9
      <3> QED BY <3>2, <3>6, <3>7, <3>8, <3>9
    <2> QED BY <2>1, <2>2 DEF SubmitNative
  <1> HIDE DEF n
  <1>8. ASSUME NEW i \in NativeIds
        PROVE  Places(native, work, admissions, task, Working, i)'
    <2>1. Places(native, work, admissions, task, Working, i)
      BY <1>2
    <2>2. i \in Int /\ n \in Int /\ nextNative' = n + 1 /\ nextNative = n
      BY <1>1, <1>5 DEF n
    <2>3. Working' = Working
      BY <1>5 DEF Working, WorkingAt
    <2>4. CASE i = n
      BY <1>4, <1>5, <1>6, <1>7, <2>1, <2>2, <2>3, <2>4 DEF Places
    <2>5. CASE i # n
      <3>1. i >= n + 1 <=> i >= n
        BY <2>2, <2>5
      <3> QED BY <1>5, <1>6, <1>7, <2>1, <2>2, <2>3, <2>5, <3>1 DEF Places, Live
    <2> QED BY <2>4, <2>5
  <1>9. Once(work, admissions)'
    <2>1. /\ Len(admissions') = Len(admissions) + 1 /\ admissions'[Len(admissions) + 1] = n
          /\ \A k \in 1..Len(admissions) : admissions'[k] = admissions[k] /\ admissions[k] # n
          /\ Len(admissions) \in Nat
      BY <1>1, <1>4, <1>5 DEF ToSet
    <2>2. \A j \in 1..Len(work) : work[j] # n
      BY <1>4 DEF ToSet, RuntimeTypeOK
    <2>3. Once(work, admissions) /\ work' = work
      BY <1>5 DEF Placed
    <2>4. ASSUME NEW j \in 1..Len(admissions'), NEW k \in 1..Len(admissions'),
                 admissions'[j] = admissions'[k]
          PROVE  j = k
      BY <2>1, <2>3, <2>4 DEF Once
    <2>5. ASSUME NEW j \in 1..Len(work), NEW k \in 1..Len(admissions')
          PROVE  work[j] # admissions'[k]
      BY <2>1, <2>2, <2>3 DEF Once
    <2> QED BY <2>3, <2>4, <2>5 DEF Once
  <1> QED BY <1>5, <1>8, <1>9 DEF Placed

LEMMA HeadAndTail ==
    ASSUME NEW S, NEW s \in Seq(S), s # <<>>
    PROVE  /\ Tail(s) \in Seq(S) /\ Len(Tail(s)) = Len(s) - 1 /\ Len(s) \in Nat
           /\ Head(s) = s[1] /\ 1 \in 1..Len(s) /\ Head(s) \in S
           /\ \A k \in 1..Len(Tail(s)) : k + 1 \in 1..Len(s) /\ Tail(s)[k] = s[k + 1]
           /\ ToSet(s) = ToSet(Tail(s)) \cup {Head(s)}
  <1> DEFINE t == Tail(s)
  <1>1. /\ t \in Seq(S) /\ Len(t) = Len(s) - 1 /\ Len(s) \in Nat
        /\ Head(s) = s[1] /\ 1 \in 1..Len(s) /\ Head(s) \in S
        /\ \A k \in 1..Len(t) : k + 1 \in 1..Len(s) /\ t[k] = s[k + 1]
    OBVIOUS
  <1> HIDE DEF t
  <1>2. ASSUME NEW k \in DOMAIN s, k # 1 PROVE s[k] \in ToSet(t)
    <2>1. k - 1 \in DOMAIN t /\ t[k - 1] = s[k]
      BY <1>1, <1>2
    <2> QED BY <2>1 DEF ToSet
  <1>3. ASSUME NEW k \in DOMAIN t PROVE t[k] \in ToSet(s)
    <2>1. k + 1 \in DOMAIN s /\ t[k] = s[k + 1]
      BY <1>1
    <2> QED BY <2>1 DEF ToSet
  <1>4. s[1] \in ToSet(s)
    BY <1>1 DEF ToSet
  <1>5. ToSet(s) = ToSet(t) \cup {s[1]}
    BY <1>2, <1>3, <1>4 DEF ToSet
  <1> QED BY <1>1, <1>5 DEF t

LEMMA AdmitPlaced ==
    ASSUME RuntimeTypeOK, Placed, Stopping, Admit
    PROVE  Placed'
  <1> DEFINE h == Head(admissions)
             rest == Tail(admissions)
             w == Append(work, h)
  <1>1. /\ admissions \in Seq(NativeIds) /\ admissions # <<>> /\ admissions' = rest
        /\ work \in Seq(Tasks)
        /\ UNCHANGED <<nextNative, nativeOrder, inbox>>
    BY DEF Admit, RuntimeTypeOK, recordVars
  <1>2. /\ rest \in Seq(NativeIds) /\ h = admissions[1] /\ 1 \in 1..Len(admissions)
        /\ h \in NativeIds /\ Len(rest) = Len(admissions) - 1 /\ Len(admissions) \in Nat
        /\ \A k \in 1..Len(rest) : k + 1 \in 1..Len(admissions) /\ rest[k] = admissions[k + 1]
        /\ ToSet(admissions) = ToSet(rest) \cup {h}
    BY <1>1, HeadAndTail
  <1>3. /\ \A i \in NativeIds : Places(native, work, admissions, task, Working, i)
        /\ Once(work, admissions)
    BY DEF Placed
  <1> HIDE DEF h, rest, w
  <1>4. \A k \in 1..Len(rest) : k + 1 # 1 /\ rest[k] # h
    BY <1>2, <1>3 DEF Once
  <1>5. ASSUME NEW j \in 1..Len(rest), NEW k \in 1..Len(rest), rest[j] = rest[k]
        PROVE  j = k
    <2>1. j + 1 \in 1..Len(admissions) /\ k + 1 \in 1..Len(admissions)
          /\ admissions[j + 1] = admissions[k + 1]
      BY <1>2, <1>5
    <2>2. j + 1 = k + 1
      BY <1>3, <2>1 DEF Once
    <2> QED BY <2>2
  <1>6. \A j \in 1..Len(work) : work[j] # h /\ \A k \in 1..Len(rest) : work[j] # rest[k]
    BY <1>2, <1>3 DEF Once
  <1>7. CASE UNCHANGED pumpVars /\ (stopped \/ ~Admitted(native, h))
    <2>1. native[h] # "queued"
      BY <1>2, <1>7 DEF Stopping, Admitted, RuntimeTypeOK, Places
    <2>2. UNCHANGED <<native, work, task, phase>>
      BY <1>7 DEF pumpVars
    <2>3. ASSUME NEW i \in NativeIds
          PROVE  Places(native, work, rest, task, Working, i)
      BY <1>2, <1>3, <2>1 DEF Places
    <2>4. Once(work, rest)
      BY <1>5, <1>6, <1>3 DEF Once
    <2> QED
      BY <1>1, <2>2, <2>3, <2>4 DEF Placed, Places, Once, Working, WorkingAt, ToSet
  <1>8. CASE Enqueue(native, h, pumpPosted)
    <2>1. /\ ToSet(w) = ToSet(work) \cup {h} /\ Len(w) = Len(work) + 1 /\ Len(work) \in Nat
          /\ w[Len(work) + 1] = h /\ \A k \in 1..Len(work) : w[k] = work[k]
      <3>1. h \in Tasks
        BY <1>2, IdFacts
      <3> QED BY <1>1, <3>1, AppendToSet, AppendTask DEF w
    <2>2. \A i \in NativeIds : Places(native, w, rest, task, Working, i)
      BY <1>2, <1>3, <2>1 DEF Places
    <2>3. Once(w, rest)
      <3>1. ASSUME NEW j \in 1..Len(w), NEW k \in 1..Len(w), w[j] = w[k], w[j] \in NativeIds
            PROVE  j = k
        BY <1>3, <1>6, <2>1, <3>1 DEF Once
      <3>2. ASSUME NEW j \in 1..Len(w), NEW k \in 1..Len(rest) PROVE w[j] # rest[k]
        BY <1>4, <1>6, <2>1 DEF Once
      <3> QED BY <1>5, <3>1, <3>2 DEF Once
    <2> QED BY <1>1, <1>2, <1>8, <2>2, <2>3, EnqueuePlaced, IdFacts DEF w
  <1> QED BY <1>7, <1>8 DEF Admit, h

LEMMA PlacedKept ==
    ASSUME RuntimeTypeOK, ExclusionInv, Coherent, Placed, Stopping, [RuntimeNext]_runtimeVars
    PROVE  Placed'
  <1> USE DEF recordVars, statusVars, serverVars, workerVars, pumpVars
  <1>1. /\ task \in Tasks \cup {Idle} /\ work \in Seq(Tasks) /\ admissions \in Seq(NativeIds)
        /\ native \in [NativeIds -> NativeStates] /\ InStep
    BY DEF RuntimeTypeOK, Coherent
  <1>2. /\ \A i \in NativeIds : Places(native, work, admissions, task, Working, i)
        /\ Once(work, admissions)
    BY DEF Placed
  \* Steps that change no more than whether the worker works on its task.
  <1>3. ASSUME UNCHANGED <<native, work, admissions, task, nextNative, nativeOrder>>,
               task \in NativeIds => (Working' <=> Working)
        PROVE  Placed'
    <2>1. ASSUME NEW i \in NativeIds
          PROVE  Places(native, work, admissions, task, Working', i)
      BY <1>2, <1>3 DEF Places
    <2> QED BY <1>2, <1>3, <2>1 DEF Placed, Places, Once, ToSet
  <1>4. CASE SubmitNative
    BY <1>4, SubmitPlaced
  <1>5. CASE Admit
    BY <1>5, AdmitPlaced
  <1>6. ASSUME NEW c \in NativeIds, CancelNative(c)
        PROVE  Placed'
    <2>1. UNCHANGED <<work, admissions, task, phase, inbox, nextNative, nativeOrder>>
      BY <1>6 DEF CancelNative
    <2>2. \A i \in NativeIds :
            \/ native'[i] = native[i]
            \/ native[i] = "queued" /\ native'[i] = "cancelled"
            \/ native[i] = "running" /\ native'[i] = "cancelling"
      BY <1>1, <1>6 DEF CancelNative
    <2>3. ASSUME NEW i \in NativeIds
          PROVE  Places(native', work, admissions, task, Working, i)
      BY <1>2, <2>2 DEF Places
    <2> QED BY <1>2, <2>1, <2>3 DEF Placed, Places, Once, Working, WorkingAt, ToSet
  <1>7. CASE Perform
    <2>1. /\ Enqueue(native, CatalogCall, pumpPosted) /\ CatalogCall \in Tasks \ NativeIds
          /\ UNCHANGED <<nextNative, nativeOrder, inbox, admissions>>
      BY <1>7, IdFacts DEF Perform
    <2>2. /\ \A i \in NativeIds :
               Places(native, Append(work, CatalogCall), admissions, task, Working, i)
          /\ Once(Append(work, CatalogCall), admissions)
      BY <1>1, <1>2, <2>1, OtherTask
    <2> QED BY <2>1, <2>2, EnqueuePlaced
  <1>8. CASE ReadStarts \/ ReadEnds \/ Drain \/ UNCHANGED runtimeVars
    BY <1>3, <1>8 DEF ReadStarts, ReadEnds, Drain, runtimeVars, nativeVars, Working, WorkingAt
  <1>9. CASE Worker
    <2>1. UNCHANGED <<native, work, admissions, task, nextNative, nativeOrder>>
      BY <1>9 DEF Worker, Execute, Scan, Publish
    <2> QED BY <1>3, <1>9, <2>1, WorkerWorks
  <1>10. ASSUME NEW outcome \in NativeOutcomes, Completed(outcome)
         PROVE  Placed'
    <2> DEFINE jobs == [native EXCEPT ![task] = outcome]
    <2>1. Receives(outcome) /\ UNCHANGED <<nextNative, nativeOrder, admissions>>
      BY <1>10 DEF Completed
    <2>2. phase = "idle" /\ task \in NativeIds /\ inbox' = <<"idle">> /\ Working
      <3>1. /\ phase = "idle" /\ task \in Tasks
            /\ outcome \in Answers(task) /\ inbox' = <<"idle">> /\ Working
        BY <1>1, <2>1, MailFacts DEF NativeOutcomes
      <3> QED BY <3>1, AnswerFacts DEF NativeOutcomes
    <2>3. ~WorkingAt(phase, inbox') /\ jobs \in [NativeIds -> NativeStates]
      BY <1>1, <2>2 DEF WorkingAt, NativeStates
    <2>4. ASSUME NEW i \in NativeIds
          PROVE  Places(jobs, work, admissions, task, WorkingAt(phase, inbox'), i)
      <3>1. CASE i = task
        <4>1. jobs[i] = outcome
          BY <1>1, <2>2, <3>1
        <4> QED BY <1>2, <2>2, <2>3, <3>1, <4>1 DEF Places, NativeOutcomes
      <3>2. CASE i # task
        <4>1. jobs[i] = native[i]
          BY <1>1, <3>2
        <4> QED BY <1>2, <3>2, <4>1 DEF Places
      <3> QED BY <3>1, <3>2
    <2> HIDE DEF jobs
    <2>5. CASE RefreshIndex(jobs, ready, pumpPosted)
      BY <1>2, <2>1, <2>3, <2>4, <2>5, RefreshPlaced
    <2>6. CASE native' = jobs /\ UNCHANGED <<work, task, phase>>
      BY <1>2, <2>1, <2>4, <2>6 DEF Placed, Places, Once, Working, WorkingAt, ToSet
    <2> QED BY <1>10, <2>5, <2>6 DEF Completed, jobs
  <1>11. CASE Indexed
    <2>1. UNCHANGED <<native, work, admissions, task, phase, nextNative, nativeOrder>>
      BY <1>11 DEF Indexed
    <2>2. PICK message \in {"indexed", "unindexed"} : Receives(message)
      BY <1>11 DEF Indexed
    <2>3. ASSUME task \in NativeIds PROVE Working' /\ Working
      <3>1. Working /\ \E v \in NativeOutcomes : inbox' = <<v, "idle">>
        BY <1>1, <2>2, <2>3, MailFacts, AnswerFacts DEF NativeOutcomes
      <3>2. Head(inbox') # "idle"
        BY <3>1 DEF NativeOutcomes
      <3> QED BY <3>1, <3>2 DEF Working, WorkingAt
    <2> QED BY <1>3, <2>1, <2>3
  <1>12. ASSUME NEW message, message \in {"context", "nocontext", "catalog", "changed"},
                Receives(message)
         PROVE  task \notin NativeIds
    BY <1>1, <1>12, MailFacts, AnswerFacts DEF NativeOutcomes
  <1>13. ASSUME task \notin NativeIds
         PROVE  \A i \in NativeIds :
                  Places(native, work, admissions, task, WorkingAt(phase, inbox'), i)
    BY <1>2, <1>13 DEF Places
  <1>14. CASE ContextResolved \/ ContextFailed \/ CatalogAnswered
    <2>1. UNCHANGED <<admissions, nextNative, nativeOrder>> /\ task \notin NativeIds
      BY <1>12, <1>14 DEF ContextResolved, ContextFailed, CatalogAnswered
    <2>2. CASE UNCHANGED <<native, work, task>>
      BY <1>3, <2>1, <2>2
    <2>3. ASSUME NEW STATE isReady, RefreshIndex(native, isReady, pumpPosted) PROVE Placed'
      BY <1>1, <1>2, <1>13, <2>1, <2>3, RefreshPlaced
    <2> QED BY <1>14, <2>2, <2>3 DEF ContextResolved, ContextFailed, CatalogAnswered
  <1>15. CASE TaskDone
    <2>1. Receives("idle") /\ UNCHANGED <<nextNative, nativeOrder, admissions>>
      BY <1>15 DEF TaskDone
    <2>2. PumpDone(native, work, Idle, FALSE, TRUE)
      BY <1>1, <1>15, PumpCases DEF TaskDone
    <2>3. ~Working
      <3>1. \A t \in Tasks : "idle" \notin Answers(t)
        BY AnswerFacts DEF NativeOutcomes
      <3> QED BY <1>1, <2>1, <3>1, MailFacts
    <2>4. ASSUME NEW i \in NativeIds
          PROVE  Places(native, work, admissions', Idle, WorkingAt(phase, inbox'), i)
      BY <1>2, <2>1, <2>3, IdFacts DEF Places
    <2>5. Once(work, admissions')
      BY <1>2, <2>1
    <2> QED BY <1>1, <2>1, <2>2, <2>4, <2>5, PumpPlaced
  <1>16. CASE Retry
    <2>1. UNCHANGED <<nextNative, nativeOrder, admissions, inbox>>
      BY <1>16 DEF Retry
    <2>2. PumpDone(native, work, task, paused, pumpPosted)
      BY <1>1, <1>16, PumpCases DEF Retry
    <2>3. /\ \A i \in NativeIds : Places(native, work, admissions', task, WorkingAt(phase, inbox'), i)
          /\ Once(work, admissions')
      BY <1>2, <2>1 DEF Working
    <2> QED BY <1>1, <2>1, <2>2, <2>3, PumpPlaced
  <1>17. CASE LegacyPump \/ LegacyStep \/ LegacyEnds \/ LegacyWrites
    <2>1. UNCHANGED <<native, work, admissions, task, phase, inbox, nextNative, nativeOrder>>
      BY <1>17 DEF LegacyPump, LegacyStep, LegacyEnds, LegacyWrites, nativeVars
    <2> QED BY <1>3, <2>1 DEF Working, WorkingAt
  <1>18. CASE LegacySucceeds
    <2>1. task \notin NativeIds
      BY <1>18, IdFacts DEF LegacySucceeds, ExclusionInv, MutualExclusion
    <2>2. RefreshIndex(native, ready, TRUE) /\ UNCHANGED <<nextNative, nativeOrder, admissions>>
      BY <1>18 DEF LegacySucceeds
    <2> QED BY <1>1, <1>2, <1>13, <2>1, <2>2, RefreshPlaced
  <1>19. CASE Shutdown
    <2>1. UNCHANGED <<admissions, task, phase, inbox, nextNative, nativeOrder>> /\ work' = <<>>
      BY <1>19 DEF Shutdown, StopNative
    <2>2. native' = [i \in NativeIds |-> IF native[i] = "queued" THEN "cancelled" ELSE native[i]]
      BY <1>19 DEF Shutdown, StopNative
    <2>3. ToSet(work') = {} /\ Len(work') = 0
      BY <2>1 DEF ToSet
    <2>4. ASSUME NEW i \in NativeIds
          PROVE  Places(native', work', admissions, task, Working, i)
      BY <1>2, <2>2, <2>3 DEF Places
    <2>5. Once(work', admissions)
      BY <1>2, <2>3 DEF Once
    <2> QED BY <2>1, <2>4, <2>5 DEF Placed, Places, Once, Working, WorkingAt, ToSet
  <1> QED
    BY <1>4, <1>5, <1>6, <1>7, <1>8, <1>9, <1>10, <1>11, <1>14, <1>15, <1>16, <1>17, <1>18,
       <1>19 DEF RuntimeNext, Deliver, LegacyDone

-----------------------------------------------------------------------------
(***************************************************************************)
(* The shutdown.  Once the server stops no native job waits, and none      *)
(* starts; and halted is set when nothing is left.                         *)
(***************************************************************************)
LEMMA PumpStopped ==
    ASSUME NEW STATE jobs, NEW STATE w, NEW STATE t, NEW STATE isPaused, NEW STATE posted,
           stopped, PumpDone(jobs, w, t, isPaused, posted)
    PROVE  native' = jobs /\ task' = t
  BY DEF PumpDone, PumpRests, PumpDrops, PumpStarts

LEMMA StoppingKept ==
    ASSUME RuntimeTypeOK, Coherent, Stopping, [RuntimeNext]_runtimeVars
    PROVE  Stopping'
  <1> USE DEF recordVars, statusVars, serverVars, workerVars, pumpVars
  <1>1. work \in Seq(Tasks) /\ native \in [NativeIds -> NativeStates]
        /\ task \in Tasks \cup {Idle} /\ InStep
    BY DEF RuntimeTypeOK, Coherent
  <1>2. CASE Shutdown
    <2>1. ASSUME NEW i \in NativeIds PROVE native'[i] # "queued"
      BY <1>2 DEF Shutdown, StopNative
    <2> QED BY <1>2, <2>1 DEF Shutdown, Stopping
  <1>3. CASE Drain
    <2>1. stopped' /\ stopped /\ native' = native
      BY <1>3 DEF Drain, Stopping, vars
    <2> QED BY <1>3, <2>1 DEF Drain, Stopping
  \* Every other step keeps stopped, draining and halted.
  <1>4. ASSUME UNCHANGED <<stopped, draining, halted>>,
               stopped => \A i \in NativeIds : native'[i] = "queued" => native[i] = "queued",
               halted => UNCHANGED <<task, queries>>
        PROVE  Stopping'
    BY <1>4 DEF Stopping
  <1>5. halted => stopped /\ task = Idle /\ inbox = <<>> /\ phase = "idle" /\ queries = 0
    BY <1>1 DEF Stopping, InStep, InStepAt
  <1>6. CASE SubmitNative \/ ReadStarts \/ ReadEnds \/ UNCHANGED runtimeVars
    <2>1. UNCHANGED <<stopped, draining, halted, task>>
      BY <1>6 DEF SubmitNative, ReadStarts, ReadEnds, runtimeVars, nativeVars, vars
    <2>2. stopped => native' = native
      BY <1>6 DEF SubmitNative, ReadStarts, ReadEnds, runtimeVars, nativeVars
    <2>3. queries \in Nat
      BY RuntimeAssumption DEF RuntimeTypeOK
    <2>4. halted => queries' = queries
      BY <1>5, <1>6, <2>3 DEF SubmitNative, ReadStarts, ReadEnds, runtimeVars, nativeVars
    <2> QED BY <1>4, <2>1, <2>2, <2>4
  <1>7. CASE Admit
    <2>1. ~halted /\ UNCHANGED <<stopped, draining, halted>>
      BY <1>7 DEF Admit, queueVars
    <2>2. stopped => native' = native
      BY <1>7 DEF Admit
    <2> QED BY <1>4, <2>1, <2>2
  <1>8. ASSUME NEW i \in NativeIds, CancelNative(i)
        PROVE  Stopping'
    <2>1. \A j \in NativeIds : native'[j] = "queued" => native[j] = "queued"
      BY <1>1, <1>8 DEF CancelNative
    <2> QED BY <1>4, <1>8, <2>1 DEF CancelNative, vars
  <1>9. CASE Perform
    <2>1. ~stopped /\ UNCHANGED <<stopped, draining, halted>>
      BY <1>9 DEF Perform, queueVars
    <2> QED BY <1>4, <1>5, <2>1
  <1>10. CASE Worker
    <2>1. ~halted
      BY <1>5, <1>10 DEF Worker, Execute, Scan, Publish
    <2>2. UNCHANGED <<stopped, draining, halted, native>>
      BY <1>10 DEF Worker, Execute, Scan, Publish, vars
    <2> QED BY <1>4, <2>1, <2>2
  <1>11. CASE Deliver
    <2>1. ~halted
      BY <1>5, <1>11 DEF Deliver, Completed, Indexed, ContextResolved, ContextFailed,
         CatalogAnswered, TaskDone, Receives
    <2>2. UNCHANGED <<stopped, draining, halted>>
      BY <1>11 DEF Deliver, Completed, Indexed, ContextResolved, ContextFailed,
         CatalogAnswered, TaskDone, queueVars, vars
    <2>3. ASSUME stopped, NEW i \in NativeIds, native'[i] = "queued"
          PROVE  native[i] = "queued"
      <3>1. ASSUME NEW outcome \in NativeOutcomes, Completed(outcome)
            PROVE  native[i] = "queued"
        <4>1. native' = [native EXCEPT ![task] = outcome]
          BY <2>3, <3>1 DEF Completed, RefreshIndex
        <4> QED BY <1>1, <2>3, <4>1 DEF NativeOutcomes
      <3>2. CASE Indexed \/ ContextResolved \/ ContextFailed \/ CatalogAnswered
        BY <2>3, <3>2 DEF Indexed, ContextResolved, ContextFailed, CatalogAnswered, RefreshIndex
      <3>3. CASE TaskDone
        <4>1. PumpDone(native, work, Idle, FALSE, TRUE)
          BY <1>1, <3>3, PumpCases DEF TaskDone
        <4> QED BY <2>3, <4>1, PumpStopped
      <3> QED BY <1>11, <3>1, <3>2, <3>3 DEF Deliver
    <2> QED BY <1>4, <2>1, <2>2, <2>3
  <1>12. CASE Retry
    <2>1. UNCHANGED <<stopped, draining, halted, queries>>
      BY <1>12 DEF Retry, queueVars
    <2>2. PumpDone(native, work, task, paused, pumpPosted)
      BY <1>1, <1>12, PumpCases DEF Retry
    <2>3. stopped => native' = native /\ task' = task
      BY <2>2, PumpStopped
    <2> QED BY <1>4, <1>5, <2>1, <2>3
  <1>13. CASE LegacyPump \/ LegacyStep \/ LegacyEnds \/ LegacyWrites
    <2>1. UNCHANGED <<draining, halted, native, task, queries>>
      BY <1>13 DEF LegacyPump, LegacyStep, LegacyEnds, LegacyWrites, nativeVars
    <2>2. stopped' = stopped
      <3>1. CASE LegacyPump
        BY <3>1 DEF LegacyPump, Pump, PumpIdle, PumpStart, PumpSpawnFails
      <3>2. CASE LegacyStep
        BY <3>2 DEF LegacyStep, Submit, Cancel, CancelActive, CancelQueued, ProcessReaped
      <3>3. CASE LegacyEnds \/ LegacyWrites
        BY <3>3 DEF LegacyEnds, LegacyWrites, vars
      <3> QED BY <1>13, <3>1, <3>2, <3>3
    <2> QED BY <1>4, <2>1, <2>2
  <1>14. CASE LegacySucceeds
    <2>1. UNCHANGED <<stopped, draining, halted, queries>>
      BY <1>14 DEF LegacySucceeds
    <2>2. stopped => native' = native /\ task' = task
      BY <1>14 DEF LegacySucceeds, RefreshIndex
    <2> QED BY <1>4, <1>5, <2>1, <2>2
  <1> QED
    BY <1>2, <1>3, <1>6, <1>7, <1>8, <1>9, <1>10, <1>11, <1>12, <1>13, <1>14
       DEF RuntimeNext, LegacyDone

-----------------------------------------------------------------------------
(***************************************************************************)
(* The inductive invariant of the server.                                  *)
(***************************************************************************)
LEMMA RuntimeInitInv == RuntimeInit => RuntimeInv
  <1> SUFFICES ASSUME RuntimeInit PROVE RuntimeInv
    OBVIOUS
  <1>1. RuntimeTypeOK
    <2>1. nextNative \in 1..(MaxNative + 1) /\ queries \in 0..MaxQueries /\ calls \in 0..MaxCalls
      BY RuntimeAssumption DEF RuntimeInit
    <2>2. nativeOrder \in Seq(NativeIds) /\ admissions \in Seq(NativeIds) /\ work \in Seq(Tasks)
      BY DEF RuntimeInit
    <2>3. /\ kind \in [NativeIds -> {"none", "v1", "v2", "plain"}]
          /\ native \in [NativeIds -> NativeStates] /\ verdict \in NativeOutcomes
      BY DEF RuntimeInit, NativeStates, NativeOutcomes
    <2>4. task \in Tasks \cup {Idle}
      BY IdFacts DEF RuntimeInit
    <2> QED BY <2>1, <2>2, <2>3, <2>4 DEF RuntimeTypeOK, RuntimeInit
  <1>2. IInv
    <2>1. TypeOK
      <3>1. nextId \in 1..(MaxJobs + 1)
        BY JobQueueAssumption DEF RuntimeInit
      <3>2. state \in [Ids -> States] /\ reports \in [Ids -> Nat]
        BY DEF RuntimeInit, States
      <3>3. order \in Seq(Ids) /\ pending \in Seq(Ids)
        BY DEF RuntimeInit
      <3> QED BY <3>1, <3>2, <3>3 DEF RuntimeInit, TypeOK, Phases
    <2>2. ToSet(order) = {} /\ ToSet(pending) = {}
      BY DEF RuntimeInit, ToSet
    <2>3. NoOrphan /\ ReportedOnce /\ WakeupPosted
      BY <2>2 DEF RuntimeInit, NoOrphan, ReportedOnce, WakeupPosted, Runnable, Ids, Outcomes, NoJob
    <2>4. Bookkeeping
      BY <2>2, JobQueueAssumption DEF RuntimeInit, Bookkeeping, Increasing, Ids
    <2> QED BY <2>1, <2>3, <2>4 DEF IInv
  <1>3. Coherent
    BY IdFacts DEF RuntimeInit, Coherent, InStep, InStepAt, Unread, NoLostRefresh
  <1>4. Placed
    <2>1. ToSet(work) = {} /\ ToSet(admissions) = {} /\ ToSet(nativeOrder) = {}
          /\ Len(work) = 0 /\ Len(admissions) = 0
      BY DEF RuntimeInit, ToSet
    <2>2. ASSUME NEW i \in NativeIds
          PROVE  Places(native, work, admissions, task, Working, i)
      <3>1. native[i] = "absent" /\ i >= nextNative /\ task # i
        BY IdFacts DEF RuntimeInit, NativeIds
      <3> QED BY <2>1, <3>1 DEF Places
    <2>3. Once(work, admissions)
      BY <2>1 DEF Once
    <2> QED BY <2>2, <2>3 DEF Placed
  <1>5. Stopping
    BY DEF RuntimeInit, Stopping
  <1> QED BY <1>1, <1>2, <1>3, <1>4, <1>5, ExclusionInit DEF RuntimeInv, Coherent

LEMMA RuntimeNextInv == RuntimeInv /\ [RuntimeNext]_runtimeVars => RuntimeInv'
  <1> SUFFICES ASSUME RuntimeInv, [RuntimeNext]_runtimeVars PROVE RuntimeInv'
    OBVIOUS
  <1>1. RuntimeTypeOK /\ IInv /\ ExclusionInv /\ Coherent /\ Placed /\ Stopping
    BY DEF RuntimeInv, Coherent
  <1>2. RuntimeTypeOK' /\ IInv' /\ ExclusionInv' /\ Coherent' /\ Placed' /\ Stopping'
    BY <1>1, TypeKept, QueueKept, ExclusionKept, CoherentKept, PlacedKept, StoppingKept
  <1> QED BY <1>2 DEF RuntimeInv, Coherent

LEMMA RuntimeInvariance == RuntimeSpec => []RuntimeInv
  BY RuntimeInitInv, RuntimeNextInv, PTL DEF RuntimeSpec

(***************************************************************************)
(* The compatibility queue keeps its invariants in the server, where the   *)
(* native runtime pauses it and where its observer asks for refreshes: no  *)
(* job is orphaned, every end is reported once, no wakeup is lost.         *)
(***************************************************************************)
THEOREM QueueInServer == RuntimeSpec => [](NoOrphan /\ ReportedOnce /\ WakeupPosted)
  <1>1. RuntimeInv => NoOrphan /\ ReportedOnce /\ WakeupPosted
    BY DEF RuntimeInv, IInv
  <1> QED BY RuntimeInvariance, <1>1, PTL

(***************************************************************************)
(* No refresh that the end of a job asked for is lost, whatever is         *)
(* submitted, cancelled, evicted and refreshed, although refresh() does    *)
(* nothing while an earlier refresh is pending and the end of a version 2  *)
(* job clears that mark.  The hypothesis leaves out the compatibility jobs *)
(* that succeed without asking for one; with them it is false.             *)
(***************************************************************************)
THEOREM NoRefreshLost ==
    ASSUME ~EveryWriterOwes
    PROVE  RuntimeSpec => []NoLostRefresh
  <1>1. RuntimeInv => NoLostRefresh
    BY DEF RuntimeInv
  <1> QED BY RuntimeInvariance, <1>1, PTL

(***************************************************************************)
(* Every native job that has not ended is waiting where it will be found,  *)
(* or is the worker's task, and its record is retained.                    *)
(***************************************************************************)
THEOREM NativeJobsKept == RuntimeSpec => []NativeNoOrphan
  <1>1. RuntimeInv => NativeNoOrphan
    <2> SUFFICES ASSUME RuntimeInv, NEW i \in NativeIds
                 PROVE  /\ native[i] = "queued" => i \in ToSet(admissions) \cup ToSet(work)
                        /\ native[i] \in {"running", "cancelling"} => i = task
                        /\ Live(i) => i \in ToSet(nativeOrder)
                        /\ task = i /\ inbox # <<>> /\ Head(inbox) \in NativeOutcomes => Live(i)
      BY DEF NativeNoOrphan
    <2>1. Places(native, work, admissions, task, Working, i)
      BY DEF RuntimeInv, Placed
    <2>2. inbox # <<>> /\ Head(inbox) \in NativeOutcomes => Working
      BY DEF Working, WorkingAt, NativeOutcomes
    <2> QED BY <2>1, <2>2 DEF Places, Live
  <1> QED BY RuntimeInvariance, <1>1, PTL

(***************************************************************************)
(* When the io_context stops nothing is left of either queue.              *)
(***************************************************************************)
THEOREM NothingLeftAtHalt == RuntimeSpec => []ShutdownClean
  <1>1. RuntimeInv => ShutdownClean
    <2> SUFFICES ASSUME RuntimeInv, halted
                 PROVE  /\ active = NoJob /\ task = Idle /\ inbox = <<>> /\ queries = 0
                        /\ \A i \in NativeIds : ~Live(i)
                        /\ \A i \in Ids : state[i] \notin {"queued", "running"}
      BY DEF ShutdownClean
    <2>1. stopped /\ task = Idle /\ queries = 0 /\ inbox = <<>>
      BY DEF RuntimeInv, Stopping, InStep, InStepAt
    <2>2. active = NoJob /\ pending = <<>>
      BY <2>1 DEF RuntimeInv, IInv, Bookkeeping
    <2>3. ASSUME NEW i \in NativeIds PROVE ~Live(i)
      BY <2>1, IdFacts DEF RuntimeInv, Stopping, Placed, Places, Live
    <2>4. ASSUME NEW i \in Ids PROVE state[i] \notin {"queued", "running"}
      <3>1. ToSet(pending) = {} /\ i # NoJob
        BY <2>2, JobQueueAssumption DEF ToSet, Ids, NoJob
      <3> QED BY <2>2, <3>1 DEF RuntimeInv, IInv, NoOrphan
    <2> QED BY <2>1, <2>2, <2>3, <2>4
  <1> QED BY RuntimeInvariance, <1>1, PTL

=============================================================================
