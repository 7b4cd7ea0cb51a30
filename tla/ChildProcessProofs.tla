------------------------- MODULE ChildProcessProofs -------------------------
(***************************************************************************)
(* The proofs about the child process of a job, for any number of streams, *)
(* any limit of the output kept and any amount of output: nothing of a     *)
(* command is left when its result is delivered (NothingLeft), a result    *)
(* that claims to be whole is whole (HonestOutput), and the phases that    *)
(* the job queue sees are those of JobProcess, step by step.               *)
(*                                                                         *)
(* The invariant ChildInv adds what the handlers rely on without testing   *)
(* it: exited_ tells exactly that the child was waited for; a group that   *)
(* was sent SIGTERM was cancelled or timed out, so that reaping kills the  *)
(* rest of it; and until the result is delivered a stream is closed only   *)
(* by end of file.                                                         *)
(***************************************************************************)
EXTENDS ChildProcess, SequenceTheorems, TLAPS

-----------------------------------------------------------------------------

TimerStates == {"off", "armed", "due", "both"}

Results == [outcome : {"cancelled", "succeeded", "failed"},
            truncated : BOOLEAN, complete : BOOLEAN]

ChildTypeOK ==
    /\ autoReap \in BOOLEAN /\ exited \in BOOLEAN /\ done \in BOOLEAN
    /\ cancelled \in BOOLEAN /\ timedOut \in BOOLEAN /\ exitOk \in BOOLEAN
    /\ terminated \in BOOLEAN
    /\ child \in {"unborn", "failed", "alive", "zombie", "reaped", "gone"}
    /\ family \in {"none", "group", "escaped"}
    /\ pipe \in [Streams -> {"open", "eof"}]
    /\ sent \in [Streams -> Nat]
    /\ got \in [Streams -> Nat]
    /\ closed \in [Streams -> BOOLEAN]
    /\ truncated \in [Streams -> BOOLEAN]
    /\ timers \in [Timers -> TimerStates]
    /\ results \in Seq(Results)
    /\ strays \in Nat

\* Before start() nothing has happened.
Unborn ==
    child = "unborn" =>
        /\ ~exited /\ ~cancelled /\ ~timedOut /\ ~exitOk /\ ~terminated
        /\ family = "none"
        /\ \A t \in Timers : timers[t] = "off"
        /\ \A s \in Streams : sent[s] = 0 /\ got[s] = 0 /\ ~closed[s]

\* exited_: the child was waited for, or nothing can be waited for.
Reaping ==
    /\ Len(results) = IF done THEN 1 ELSE 0
    /\ done => exited
    /\ exited => child \in {"failed", "reaped", "gone"}
    /\ child \in {"failed", "reaped"} => exited
    /\ child = "gone" => autoReap

\* The drain timer belongs to a child that was waited for.
Draining == timers["drain"] # "off" => exited

\* Who was sent SIGTERM, and what reaping leaves of the group.
Signalled ==
    /\ terminated => cancelled \/ timedOut
    /\ exited /\ terminated /\ ~autoReap => family # "group"

\* Until the result is delivered, a stream is closed by end of file alone.
Streaming ==
    \A s \in Streams :
        /\ got[s] <= sent[s]
        /\ got[s] > Limit => truncated[s]
        /\ ~done /\ closed[s] => pipe[s] = "eof" /\ got[s] = sent[s]

ChildInv ==
    /\ ChildTypeOK /\ Unborn /\ Reaping /\ Draining /\ Signalled /\ Streaming
    /\ NoStray /\ HonestOutput

-----------------------------------------------------------------------------
(* Timers and the end *)

LEMMA TimerFacts ==
    ASSUME NEW x \in TimerStates
    PROVE  Cancelled(x) \in TimerStates /\ Armed(x) \in TimerStates
           /\ Taken(x) \in TimerStates
  BY DEF TimerStates, Cancelled, Armed, Taken

LEMMA KeptFacts ==
    ASSUME NEW s \in Streams, got[s] \in Nat, sent[s] \in Nat, Limit \in Nat,
           got[s] = sent[s], ~(got[s] > Limit)
    PROVE  Kept(s) = sent[s]
  BY DEF Kept

\* A result is one of the records that the queue understands.
LEMMA ResultType == Result \in Results /\ Result' \in Results
  BY DEF Result, Results, Outcome

LEMMA FinishFacts ==
    ASSUME NEW STATE ts, Finish(ts)
    PROVE  /\ done' = (done \/ (exited' /\ \A s \in Streams : closed'[s]))
           /\ done' /\ ~done => results' = Append(results, Result')
           /\ ~(done' /\ ~done) => results' = results
           /\ timers' = ts \/ timers' = [t \in Timers |-> Cancelled(ts[t])]
  BY DEF Finish

LEMMA FinishTyped ==
    ASSUME NEW STATE ts, Finish(ts), ts \in [Timers -> TimerStates],
           results \in Seq(Results), done \in BOOLEAN
    PROVE  /\ timers' \in [Timers -> TimerStates]
           /\ results' \in Seq(Results)
           /\ done' \in BOOLEAN
  <1>1. [t \in Timers |-> Cancelled(ts[t])] \in [Timers -> TimerStates]
    BY TimerFacts
  <1>2. Append(results, Result') \in Seq(Results)
    BY ResultType
  <1> QED BY <1>1, <1>2, FinishFacts

LEMMA TypeKept ==
    ASSUME ChildTypeOK, [ChildNext]_childVars
    PROVE  ChildTypeOK'
  <1> USE DEF ChildTypeOK
  <1>t. \A t \in Timers : timers[t] \in TimerStates
    OBVIOUS
  <1>u. /\ {"poll", "deadline", "kill", "drain"} = Timers
        /\ {"off", "armed", "due", "both"} = TimerStates
    BY DEF Timers, TimerStates
  <1>a. AllClosed \in [Streams -> BOOLEAN]
    BY DEF AllClosed
  <1>b. [s \in Streams |-> truncated[s] \/ ~closed[s]] \in [Streams -> BOOLEAN]
    OBVIOUS
  <1>c. [timers EXCEPT !["deadline"] = Cancelled(@)] \in [Timers -> TimerStates]
    BY TimerFacts, <1>u
  <1>d. \A t \in Timers : [timers EXCEPT ![t] = Taken(@)] \in [Timers -> TimerStates]
    BY TimerFacts
  <1>1. ASSUME SpawnFails PROVE ChildTypeOK'
    BY <1>1, <1>a, FinishTyped
       DEF SpawnFails, requestVars, exitVars
  <1>2. ASSUME StartAlive PROVE ChildTypeOK'
    BY <1>2, <1>u DEF StartAlive, streamVars, finishVars, requestVars, exitVars
  <1>3. ASSUME StartReaped PROVE ChildTypeOK'
    <2>1. sent' \in [Streams -> Nat]
      BY <1>3, ChildProcessAssumption DEF StartReaped
    <2> QED BY <2>1, <1>3, <1>u DEF StartReaped, streamVars, finishVars, requestVars
  <1>4. ASSUME StartLost PROVE ChildTypeOK'
    <2>1. results' \in Seq(Results)
      BY <1>4, ResultType DEF StartLost
    <2>2. sent' \in [Streams -> Nat]
      BY <1>4, ChildProcessAssumption DEF StartLost
    <2> QED BY <2>1, <2>2, <1>4, <1>u, <1>a DEF StartLost, requestVars, exitVars
  <1>5. ASSUME NEW STATE ts, ts \in [Timers -> TimerStates], Terminate(ts)
        PROVE  /\ timers' \in [Timers -> TimerStates] /\ results' \in Seq(Results)
               /\ done' \in BOOLEAN /\ terminated' \in BOOLEAN /\ exited' \in BOOLEAN
               /\ strays' \in Nat
               /\ closed' \in [Streams -> BOOLEAN] /\ truncated' \in [Streams -> BOOLEAN]
    <2>1. [ts EXCEPT !["deadline"] = Cancelled(@)] \in [Timers -> TimerStates]
      BY <1>5, TimerFacts, <1>u
    <2>2. [[ts EXCEPT !["deadline"] = Cancelled(@)] EXCEPT !["kill"] = Armed(@)]
             \in [Timers -> TimerStates]
      BY <2>1, TimerFacts, <1>u
    <2>3. CASE exited
      <3> DEFINE stopped == [ts EXCEPT !["deadline"] = Cancelled(@)]
      <3>1. /\ Finish(stopped) /\ closed' = AllClosed
            /\ UNCHANGED <<terminated, strays, exited, truncated>>
        BY <2>3, <1>5 DEF Terminate
      <3>2. stopped \in [Timers -> TimerStates]
        BY <2>1
      <3> HIDE DEF stopped
      <3>3. timers' \in [Timers -> TimerStates] /\ results' \in Seq(Results) /\ done' \in BOOLEAN
        BY <3>1, <3>2, FinishTyped
      <3> QED BY <3>1, <3>3, <1>a
    <2>4. CASE ~exited
      <3>1. /\ timers' = [[ts EXCEPT !["deadline"] = Cancelled(@)] EXCEPT !["kill"] = Armed(@)]
            /\ terminated' = TRUE /\ Signal
            /\ UNCHANGED <<closed, exited, truncated, done, results>>
        BY <2>4, <1>5 DEF Terminate, finishVars
      <3>2. strays' \in Nat
        BY <3>1 DEF Signal
      <3>3. timers' \in [Timers -> TimerStates]
        BY <3>1, <2>2
      <3> QED BY <3>1, <3>2, <3>3
    <2> QED BY <2>3, <2>4
  <1>6. ASSUME CancelChild PROVE ChildTypeOK'
    BY <1>5, <1>6 DEF CancelChild, kernelVars, exitVars
  <1>7. ASSUME CancelForce PROVE ChildTypeOK'
    <2>1. timers' \in [Timers -> TimerStates] /\ results' \in Seq(Results) /\ done' \in BOOLEAN
      BY <1>7, FinishTyped DEF CancelForce
    <2> QED BY <2>1, <1>7, <1>a, <1>b DEF CancelForce, Signal, exitVars
  <1>8. ASSUME Deadline PROVE ChildTypeOK'
    <2>1. [timers EXCEPT !["deadline"] = Taken(@)] \in [Timers -> TimerStates]
      BY <1>d, <1>u
    <2> QED BY <2>1, <1>8, <1>5 DEF Deadline, kernelVars, exitVars, finishVars
  <1>9. ASSUME KillTimer PROVE ChildTypeOK'
    BY <1>9, <1>d, <1>u
       DEF KillTimer, KillGroup, Signal, streamVars, finishVars, requestVars, exitVars
  <1>10. ASSUME PollReaps PROVE ChildTypeOK'
    <2> DEFINE ts == [timers EXCEPT !["poll"] = Taken(@),
                                    !["deadline"] = Cancelled(@),
                                    !["kill"] = Cancelled(@),
                                    !["drain"] = Armed(@)]
    <2>1. ts \in [Timers -> TimerStates]
      BY TimerFacts, <1>u
    <2>2. Finish(ts)
      BY <1>10 DEF PollReaps
    <2> QED BY <2>1, <2>2, <1>10, FinishTyped
            DEF PollReaps, streamVars, requestVars, exitVars
  <1>11. ASSUME PollLost PROVE ChildTypeOK'
    <2>1. [timers EXCEPT !["poll"] = Taken(@)] \in [Timers -> TimerStates]
      BY <1>d, <1>u
    <2> QED BY <2>1, <1>11, <1>a, FinishTyped
            DEF PollLost, kernelVars, requestVars, exitVars
  <1>12. ASSUME PollWaits PROVE ChildTypeOK'
    <2>1. [timers EXCEPT !["poll"] = Taken(@)] \in [Timers -> TimerStates]
      BY <1>d, <1>u
    <2>2. [timers EXCEPT !["poll"] = Armed(Taken(@))] \in [Timers -> TimerStates]
      BY TimerFacts, <1>u
    <2> QED BY <2>1, <2>2, <1>12
            DEF PollWaits, kernelVars, streamVars, finishVars, requestVars, exitVars
  <1>13. ASSUME DrainTimer PROVE ChildTypeOK'
    <2>1. [timers EXCEPT !["drain"] = Taken(@)] \in [Timers -> TimerStates]
      BY <1>d, <1>u
    <2> QED BY <2>1, <1>13, <1>a, <1>b, FinishTyped
            DEF DrainTimer, kernelVars, requestVars, exitVars, finishVars
  <1>14. ASSUME NEW s \in Streams, ReadData(s) PROVE ChildTypeOK'
    BY <1>14 DEF ReadData, kernelVars, finishVars, requestVars, exitVars
  <1>15. ASSUME NEW s \in Streams, ReadEnd(s) PROVE ChildTypeOK'
    BY <1>15, FinishTyped DEF ReadEnd, kernelVars, requestVars, exitVars
  <1>16. ASSUME NEW s \in Streams, Write(s) PROVE ChildTypeOK'
    BY <1>16 DEF Write, serverVars, streamVars, finishVars, requestVars, exitVars
  <1>17. ASSUME NEW s \in Streams, Hangup(s) PROVE ChildTypeOK'
    BY <1>17 DEF Hangup, serverVars, streamVars, finishVars, requestVars, exitVars
  <1>18. ASSUME NEW t \in Timers, Expire(t) PROVE ChildTypeOK'
    BY <1>18, <1>u
       DEF Expire, kernelVars, serverVars, streamVars, finishVars, requestVars, exitVars
  <1>19. ASSUME Fork \/ Exit \/ FamilyExits PROVE ChildTypeOK'
    BY <1>19 DEF Fork, Exit, FamilyExits, serverVars, streamVars, finishVars,
                 requestVars, exitVars
  <1>20. ASSUME UNCHANGED childVars PROVE ChildTypeOK'
    BY <1>20 DEF childVars
  <1> QED
    BY <1>1, <1>2, <1>3, <1>4, <1>6, <1>7, <1>8, <1>9, <1>10, <1>11, <1>12, <1>13,
       <1>14, <1>15, <1>16, <1>17, <1>18, <1>19, <1>20
       DEF ChildNext, Start, Poll

-----------------------------------------------------------------------------
(* The invariant *)

LEMMA DueFacts ==
    ASSUME NEW t \in Timers, Due(t)
    PROVE  timers[t] # "off"
  BY DEF Due

\* Before start() only start() happens, and afterwards never again.
LEMMA OnlyStart ==
    ASSUME Unborn, child = "unborn", ChildNext
    PROVE  Start
  <1> USE DEF Unborn
  <1>u. {"poll", "deadline", "kill", "drain"} = Timers
    BY DEF Timers
  <1>t. \A t \in Timers : ~Due(t) /\ timers[t] # "armed"
    BY DueFacts
  <1>1. ~CancelChild /\ ~CancelForce
    BY DEF CancelChild, CancelForce
  <1>2. ~Deadline /\ ~KillTimer /\ ~Poll /\ ~DrainTimer
    BY <1>t, <1>u DEF Deadline, KillTimer, Poll, PollReaps, PollLost, PollWaits, DrainTimer
  <1>3. ASSUME NEW s \in Streams
        PROVE  ~ReadData(s) /\ ~ReadEnd(s) /\ ~Write(s) /\ ~Hangup(s)
    BY DEF ReadData, ReadEnd, Write, Hangup
  <1>4. \A t \in Timers : ~Expire(t)
    BY <1>t DEF Expire
  <1>5. ~Fork /\ ~Exit /\ ~FamilyExits
    BY DEF Fork, Exit, FamilyExits
  <1> QED BY <1>1, <1>2, <1>3, <1>4, <1>5 DEF ChildNext

LEMMA UnbornKept ==
    ASSUME ChildTypeOK, Unborn, [ChildNext]_childVars
    PROVE  Unborn'
  <1>1. CASE UNCHANGED childVars
    BY <1>1 DEF Unborn, childVars
  <1>2. CASE ChildNext /\ child = "unborn"
    <2>1. Start
      BY <1>2, OnlyStart
    <2> QED BY <2>1 DEF Unborn, Start, SpawnFails, StartAlive, StartReaped, StartLost
  <1>3. CASE ChildNext /\ child # "unborn"
    <2>1. child' # "unborn"
      BY <1>3 DEF ChildNext, Start, SpawnFails, StartAlive, StartReaped, StartLost,
         CancelChild, CancelForce, Deadline, KillTimer, KillGroup, Poll, PollReaps,
         PollLost, PollWaits, DrainTimer, ReadData, ReadEnd, Write, Hangup, Expire,
         Fork, Exit, FamilyExits, kernelVars
    <2> QED BY <2>1 DEF Unborn
  <1> QED BY <1>1, <1>2, <1>3

(***************************************************************************)
(* What a step does to the kernel's side and to the flags of the handlers, *)
(* as far as Reaping, Signalled and NoStray tell.                          *)
(***************************************************************************)
Flags == Reaping /\ Signalled /\ NoStray

LEMMA DeliveredOnce ==
    ASSUME results \in Seq(Results), Len(results) = IF done THEN 1 ELSE 0,
           done \in BOOLEAN, done => exited, exited => exited',
           NEW STATE ts, Finish(ts)
    PROVE  /\ Len(results') = IF done' THEN 1 ELSE 0
           /\ done' => exited'
           /\ done => done'
  <1>1. Len(Append(results, Result')) = Len(results) + 1
    BY ResultType, AppendProperties
  <1>2. /\ done' = (done \/ (exited' /\ \A s \in Streams : closed'[s]))
        /\ done' /\ ~done => results' = Append(results, Result')
        /\ ~(done' /\ ~done) => results' = results
    BY FinishFacts
  <1> HIDE DEF Result
  <1>3. done' /\ ~done => Len(results') = 1
    BY <1>1, <1>2
  <1> QED BY <1>2, <1>3

LEMMA TerminateFlags ==
    ASSUME ChildTypeOK, Flags, child # "unborn", child' = child, family' = family,
           autoReap' = autoReap, cancelled => cancelled', timedOut => timedOut',
           cancelled' \/ timedOut', NEW STATE ts, Terminate(ts)
    PROVE  Flags'
  <1> USE DEF ChildTypeOK, Flags, Reaping, Signalled, NoStray
  <1>1. CASE exited
    <2> DEFINE stopped == [ts EXCEPT !["deadline"] = Cancelled(@)]
    <2>1. Finish(stopped) /\ UNCHANGED <<terminated, strays, exited>>
      BY <1>1 DEF Terminate
    <2> HIDE DEF stopped
    <2>2. (Len(results') = IF done' THEN 1 ELSE 0) /\ (done' => exited')
      BY <2>1, DeliveredOnce
    <2> QED BY <2>1, <2>2, <1>1
  <1>2. CASE ~exited
    <2>1. terminated' = TRUE /\ Signal /\ UNCHANGED <<exited, done, results>>
      BY <1>2 DEF Terminate, finishVars
    <2>2. ~autoReap => child \notin {"reaped", "gone"}
      BY <1>2
    <2>3. ~autoReap => strays' = strays
      BY <2>1, <2>2 DEF Signal
    <2> QED BY <2>1, <2>3, <1>2
  <1> QED BY <1>1, <1>2

LEMMA FlagsKept ==
    ASSUME ChildTypeOK, Unborn, Flags, [ChildNext]_childVars
    PROVE  Flags'
  <1> USE DEF ChildTypeOK, Flags, Reaping, Signalled, NoStray
  <1>1. ASSUME SpawnFails PROVE Flags'
    <2>1. Finish(timers) /\ exited' /\ child' = "failed"
          /\ UNCHANGED <<terminated, cancelled, timedOut, family, autoReap, strays>>
      BY <1>1 DEF SpawnFails, requestVars, exitVars
    <2>2. (Len(results') = IF done' THEN 1 ELSE 0) /\ (done' => exited')
      BY <2>1, DeliveredOnce
    <2>3. ~terminated
      BY <1>1 DEF SpawnFails, Unborn
    <2> QED BY <2>1, <2>2, <2>3
  <1>2. ASSUME StartAlive PROVE Flags'
    BY <1>2 DEF StartAlive, Unborn, finishVars, requestVars, exitVars
  <1>3. ASSUME StartReaped PROVE Flags'
    BY <1>3 DEF StartReaped, Unborn, finishVars, requestVars
  <1>4. ASSUME StartLost PROVE Flags'
    <2>1. Len(Append(results, Result')) = Len(results) + 1
      BY ResultType, AppendProperties
    <2>2. ~done
      BY <1>4 DEF StartLost, Unborn
    <2> QED BY <2>1, <2>2, <1>4 DEF StartLost, Unborn, requestVars, exitVars
  <1>5. ASSUME CancelChild PROVE Flags'
    <2>1. /\ child # "unborn" /\ child' = child /\ family' = family /\ autoReap' = autoReap
          /\ cancelled' = TRUE /\ timedOut' = timedOut /\ Terminate(timers)
      BY <1>5 DEF CancelChild, kernelVars, exitVars
    <2> QED BY <2>1, TerminateFlags
  <1>6. ASSUME CancelForce PROVE Flags'
    <2>1. Finish(timers) /\ exited'
      BY <1>6 DEF CancelForce
    <2>2. (Len(results') = IF done' THEN 1 ELSE 0) /\ (done' => exited')
      BY <2>1, DeliveredOnce
    <2>3. ~autoReap => strays' = strays
      BY <1>6 DEF CancelForce, Signal
    <2>4. CASE exited
      BY <2>2, <2>3, <2>4, <1>6 DEF CancelForce, exitVars
    <2>5. CASE ~exited
      BY <2>2, <2>3, <2>5, <1>6 DEF CancelForce, exitVars
    <2> QED BY <2>4, <2>5
  <1>7. ASSUME Deadline PROVE Flags'
    <2> DEFINE ts == [timers EXCEPT !["deadline"] = Taken(@)]
    <2>1. child' = child /\ family' = family /\ autoReap' = autoReap /\ cancelled' = cancelled
      BY <1>7 DEF Deadline, kernelVars, exitVars
    <2>2. CASE exited \/ done
      BY <2>1, <2>2, <1>7 DEF Deadline, finishVars
    <2>3. CASE ~exited /\ ~done
      <3>1. timedOut' = TRUE /\ Terminate(ts)
        BY <2>3, <1>7 DEF Deadline
      <3>2. child # "unborn"
        BY <1>7, DueFacts DEF Deadline, Unborn, Timers
      <3> HIDE DEF ts
      <3> QED BY <2>1, <3>1, <3>2, TerminateFlags
    <2> QED BY <2>2, <2>3
  <1>8. ASSUME KillTimer PROVE Flags'
    <2>1. UNCHANGED <<exited, done, results, cancelled, timedOut, terminated, autoReap>>
      BY <1>8 DEF KillTimer, finishVars, requestVars, exitVars
    <2>2. CASE exited \/ done
      BY <2>1, <2>2, <1>8 DEF KillTimer
    <2>3. CASE ~exited /\ ~done
      BY <2>1, <2>3, <1>8 DEF KillTimer, KillGroup, Signal
    <2> QED BY <2>2, <2>3
  <1>9. ASSUME PollReaps PROVE Flags'
    <2> DEFINE ts == [timers EXCEPT !["poll"] = Taken(@),
                                    !["deadline"] = Cancelled(@),
                                    !["kill"] = Cancelled(@),
                                    !["drain"] = Armed(@)]
    <2>1. Finish(ts) /\ exited' /\ child' = "reaped"
          /\ UNCHANGED <<terminated, cancelled, timedOut, autoReap, strays>>
      BY <1>9 DEF PollReaps, requestVars, exitVars
    <2>2. (Len(results') = IF done' THEN 1 ELSE 0) /\ (done' => exited')
      <3> HIDE DEF ts
      <3> QED BY <2>1, DeliveredOnce
    <2>3. terminated => family' # "group"
      BY <1>9 DEF PollReaps
    <2> HIDE DEF ts
    <2> QED BY <2>1, <2>2, <2>3
  <1>10. ASSUME PollLost PROVE Flags'
    <2> DEFINE ts == [timers EXCEPT !["poll"] = Taken(@)]
    <2>1. Finish(ts) /\ exited' /\ child = "gone"
          /\ UNCHANGED <<child, family, terminated, cancelled, timedOut, autoReap, strays>>
      BY <1>10 DEF PollLost, kernelVars, requestVars, exitVars
    <2> HIDE DEF ts
    <2>2. (Len(results') = IF done' THEN 1 ELSE 0) /\ (done' => exited')
      BY <2>1, DeliveredOnce
    <2> QED BY <2>1, <2>2
  <1>11. ASSUME PollWaits PROVE Flags'
    BY <1>11 DEF PollWaits, kernelVars, finishVars, requestVars, exitVars
  <1>12. ASSUME DrainTimer PROVE Flags'
    <2> DEFINE ts == [timers EXCEPT !["drain"] = Taken(@)]
    <2>1. UNCHANGED <<child, family, exited, terminated, cancelled, timedOut, autoReap, strays>>
      BY <1>12 DEF DrainTimer, kernelVars, requestVars, exitVars
    <2>2. UNCHANGED <<done, results>> \/ Finish(ts)
      BY <1>12 DEF DrainTimer, finishVars
    <2> HIDE DEF ts
    <2>3. (Len(results') = IF done' THEN 1 ELSE 0) /\ (done' => exited')
      BY <2>1, <2>2, DeliveredOnce
    <2> QED BY <2>1, <2>3
  <1>13. ASSUME NEW s \in Streams, ReadEnd(s) PROVE Flags'
    <2>1. Finish(timers)
          /\ UNCHANGED <<child, family, exited, terminated, cancelled, timedOut, autoReap, strays>>
      BY <1>13 DEF ReadEnd, kernelVars, requestVars, exitVars
    <2>2. (Len(results') = IF done' THEN 1 ELSE 0) /\ (done' => exited')
      BY <2>1, DeliveredOnce
    <2> QED BY <2>1, <2>2
  <1>14. ASSUME NEW s \in Streams, ReadData(s) \/ Write(s) \/ Hangup(s) PROVE Flags'
    BY <1>14 DEF ReadData, Write, Hangup, kernelVars, serverVars, finishVars,
                 requestVars, exitVars
  <1>15. ASSUME NEW t \in Timers, Expire(t) PROVE Flags'
    BY <1>15 DEF Expire, kernelVars, serverVars, finishVars, requestVars, exitVars
  <1>16. ASSUME Fork \/ Exit \/ FamilyExits PROVE Flags'
    BY <1>16 DEF Fork, Exit, FamilyExits, serverVars, finishVars, requestVars, exitVars
  <1>17. ASSUME UNCHANGED childVars PROVE Flags'
    BY <1>17 DEF childVars
  <1> QED
    BY <1>1, <1>2, <1>3, <1>4, <1>5, <1>6, <1>7, <1>8, <1>9, <1>10, <1>11, <1>12,
       <1>13, <1>14, <1>15, <1>16, <1>17
       DEF ChildNext, Start, Poll

-----------------------------------------------------------------------------
(* The streams and what a result says of them *)

\* exited_ stays, and the timers that the end cancels do not start.
LEMMA FinishTimers ==
    ASSUME NEW STATE ts, Finish(ts), ts \in [Timers -> TimerStates],
           NEW t \in Timers, ts[t] = "off"
    PROVE  timers'[t] = "off"
  BY FinishFacts DEF Cancelled

LEMMA DrainingKept ==
    ASSUME ChildTypeOK, Unborn, Draining, [ChildNext]_childVars
    PROVE  Draining'
  <1> USE DEF ChildTypeOK, Draining
  <1>u. {"poll", "deadline", "kill", "drain"} = Timers
    BY DEF Timers
  <1>t. \A t \in Timers : timers[t] \in TimerStates
    OBVIOUS
  <1>k. \A t \in Timers : [timers EXCEPT ![t] = Taken(@)] \in [Timers -> TimerStates]
    BY TimerFacts
  <1>1. ASSUME CancelChild \/ Deadline PROVE Draining'
    <2>1. ASSUME NEW STATE ts, ts \in [Timers -> TimerStates], ts["drain"] = timers["drain"],
                 Terminate(ts)
          PROVE  exited' = exited /\ (timers'["drain"] # "off" => timers["drain"] # "off" \/ exited)
      <3>1. CASE exited
        BY <3>1, <2>1 DEF Terminate
      <3>2. CASE ~exited
        BY <3>2, <2>1, <1>u DEF Terminate
      <3> QED BY <3>1, <3>2
    <2>2. CASE CancelChild
      BY <2>1, <2>2 DEF CancelChild
    <2>3. CASE Deadline
      <3> DEFINE ts == [timers EXCEPT !["deadline"] = Taken(@)]
      <3>1. ts \in [Timers -> TimerStates] /\ ts["drain"] = timers["drain"]
        BY <1>k, <1>u
      <3>2. (UNCHANGED exited /\ timers' = ts) \/ Terminate(ts)
        BY <2>3 DEF Deadline
      <3> HIDE DEF ts
      <3> QED BY <3>1, <3>2, <2>1
    <2> QED BY <1>1, <2>2, <2>3
  <1>2. ASSUME SpawnFails \/ CancelForce \/ PollReaps \/ PollLost \/ StartReaped \/ StartLost
        PROVE  Draining'
    BY <1>2 DEF SpawnFails, CancelForce, PollReaps, PollLost, StartReaped, StartLost
  <1>3. ASSUME StartAlive PROVE Draining'
    BY <1>3, <1>u DEF StartAlive, Unborn
  <1>4. ASSUME KillTimer \/ PollWaits PROVE Draining'
    BY <1>4, <1>u DEF KillTimer, PollWaits
  <1>5. ASSUME DrainTimer PROVE Draining'
    BY <1>5, DueFacts, <1>u DEF DrainTimer
  <1>6. ASSUME NEW s \in Streams, ReadEnd(s) PROVE Draining'
    <2>1. Finish(timers) /\ exited' = exited
      BY <1>6 DEF ReadEnd
    <2> QED BY <2>1, FinishTimers, <1>u
  <1>7. ASSUME NEW s \in Streams, ReadData(s) \/ Write(s) \/ Hangup(s) PROVE Draining'
    BY <1>7 DEF ReadData, Write, Hangup, serverVars
  <1>8. ASSUME NEW t \in Timers, Expire(t) PROVE Draining'
    BY <1>8, <1>u DEF Expire, serverVars
  <1>9. ASSUME Fork \/ Exit \/ FamilyExits \/ UNCHANGED childVars PROVE Draining'
    BY <1>9 DEF Fork, Exit, FamilyExits, serverVars, childVars
  <1> QED
    BY <1>1, <1>2, <1>3, <1>4, <1>5, <1>6, <1>7, <1>8, <1>9
       DEF ChildNext, Start, Poll

LEMMA StreamingKept ==
    ASSUME ChildTypeOK, Unborn, Reaping, Draining, Streaming, [ChildNext]_childVars
    PROVE  Streaming'
  <1> SUFFICES ASSUME NEW s \in Streams
               PROVE  /\ got'[s] <= sent'[s]
                      /\ got'[s] > Limit => truncated'[s]
                      /\ ~done' /\ closed'[s] => pipe'[s] = "eof" /\ got'[s] = sent'[s]
    BY DEF Streaming
  <1> USE ChildProcessAssumption DEF ChildTypeOK, Reaping
  <1>s. /\ got[s] \in Nat /\ sent[s] \in Nat /\ got[s] <= sent[s]
        /\ got[s] > Limit => truncated[s]
        /\ ~done /\ closed[s] => pipe[s] = "eof" /\ got[s] = sent[s]
    BY DEF Streaming
  <1>a. closed' = AllClosed /\ exited' => \A x \in Streams : closed'[x]
    BY DEF AllClosed
  <1>1. ASSUME SpawnFails PROVE done' /\ UNCHANGED <<got, sent, truncated>>
    BY <1>1, <1>a, FinishFacts DEF SpawnFails
  <1>2. ASSUME StartAlive PROVE UNCHANGED <<got, sent, truncated, pipe, closed, done>>
    BY <1>2 DEF StartAlive, streamVars, finishVars
  <1>3. ASSUME StartReaped \/ StartLost
        PROVE  got'[s] = 0 /\ sent'[s] \in Nat /\ ~closed[s]
               /\ (done' \/ closed' = closed)
    BY <1>3 DEF StartReaped, StartLost, Unborn, streamVars
  <1>4. ASSUME CancelChild \/ Deadline
        PROVE  /\ UNCHANGED <<got, sent, truncated, pipe>>
               /\ done' \/ closed' = closed
               /\ done => done'
    <2>1. ASSUME NEW STATE ts, Terminate(ts)
          PROVE  UNCHANGED truncated /\ (done' \/ closed' = closed) /\ (done => done')
      <3>1. CASE exited
        <4> DEFINE stopped == [ts EXCEPT !["deadline"] = Cancelled(@)]
        <4>1. Finish(stopped) /\ closed' = AllClosed /\ UNCHANGED <<exited, truncated>>
          BY <3>1, <2>1 DEF Terminate
        <4> HIDE DEF stopped
        <4> QED BY <4>1, <3>1, <1>a, FinishFacts
      <3>2. CASE ~exited
        BY <3>2, <2>1 DEF Terminate, finishVars
      <3> QED BY <3>1, <3>2
    <2>2. CASE CancelChild
      BY <2>1, <2>2 DEF CancelChild, kernelVars
    <2>3. CASE Deadline
      <3> DEFINE ts == [timers EXCEPT !["deadline"] = Taken(@)]
      <3>1. UNCHANGED <<got, sent, pipe>>
        BY <2>3 DEF Deadline, kernelVars
      <3>2. UNCHANGED <<closed, truncated, done>> \/ Terminate(ts)
        BY <2>3 DEF Deadline, finishVars
      <3> HIDE DEF ts
      <3> QED BY <3>1, <3>2, <2>1
    <2> QED BY <1>4, <2>2, <2>3
  <1>5. ASSUME CancelForce
        PROVE  /\ UNCHANGED <<got, sent>> /\ done'
               /\ truncated[s] => truncated'[s]
    BY <1>5, <1>a, FinishFacts DEF CancelForce
  <1>6. ASSUME PollReaps
        PROVE  UNCHANGED <<got, sent, truncated, pipe, closed>> /\ (done => done')
    BY <1>6 DEF PollReaps, streamVars
  <1>7. ASSUME PollLost PROVE done' /\ UNCHANGED <<got, sent, truncated>>
    <2> DEFINE ts == [timers EXCEPT !["poll"] = Taken(@)]
    <2>1. Finish(ts) /\ closed' = AllClosed /\ exited' /\ UNCHANGED <<got, sent, truncated>>
      BY <1>7 DEF PollLost, kernelVars
    <2> HIDE DEF ts
    <2> QED BY <2>1, <1>a, FinishFacts
  <1>8. ASSUME KillTimer \/ PollWaits
        PROVE  UNCHANGED <<got, sent, truncated, pipe, closed, done>>
    BY <1>8 DEF KillTimer, PollWaits, kernelVars, streamVars, finishVars
  <1>9. ASSUME DrainTimer
        PROVE  /\ UNCHANGED <<got, sent, pipe>>
               /\ truncated[s] => truncated'[s]
               /\ done' \/ closed' = closed
               /\ done => done'
    <2> DEFINE ts == [timers EXCEPT !["drain"] = Taken(@)]
    <2>1. UNCHANGED <<got, sent, pipe, exited>> /\ exited
      BY <1>9, DueFacts DEF DrainTimer, kernelVars, Draining, Timers
    <2>2. CASE done
      BY <2>1, <2>2, <1>9 DEF DrainTimer, finishVars
    <2>3. CASE ~done
      <3>1. /\ Finish(ts) /\ closed' = AllClosed
            /\ truncated' = [x \in Streams |-> truncated[x] \/ ~closed[x]]
        BY <2>3, <1>9 DEF DrainTimer
      <3> HIDE DEF ts
      <3> QED BY <2>1, <3>1, <1>a, FinishFacts
    <2> QED BY <2>2, <2>3
  <1>10. ASSUME NEW x \in Streams, ReadData(x)
         PROVE  /\ UNCHANGED <<sent, pipe, closed, done>>
                /\ got'[s] \in Nat /\ got'[s] <= sent[s]
                /\ got'[s] = got[s] \/ (~closed[s] /\ got'[s] > got[s])
                /\ got'[s] > Limit => truncated'[s]
    <2>1. UNCHANGED <<sent, pipe, closed, done>> /\ ~closed[x]
      BY <1>10 DEF ReadData, kernelVars, finishVars
    <2>2. PICK n \in (got[x] + 1)..sent[x] :
             /\ got' = [got EXCEPT ![x] = n]
             /\ truncated' = [truncated EXCEPT ![x] = @ \/ n > Limit]
      BY <1>10 DEF ReadData
    <2>3. CASE x = s
      <3>1. n \in Nat /\ n > got[s] /\ n <= sent[s]
        BY <2>2, <2>3, <1>s
      <3>2. got'[s] = n
        BY <2>2, <2>3
      <3>3. n > Limit => truncated'[s]
        BY <2>2, <2>3
      <3> QED BY <2>1, <2>3, <3>1, <3>2, <3>3
    <2>4. CASE x # s
      BY <2>1, <2>2, <2>4, <1>s
    <2> QED BY <2>3, <2>4
  <1>11. ASSUME NEW x \in Streams, ReadEnd(x)
         PROVE  /\ UNCHANGED <<got, sent, pipe, truncated>> /\ (done => done')
                /\ closed'[s] => closed[s] \/ (pipe[s] = "eof" /\ got[s] = sent[s])
    BY <1>11, FinishFacts DEF ReadEnd, kernelVars
  <1>12. ASSUME NEW x \in Streams, Write(x)
         PROVE  /\ UNCHANGED <<got, pipe, truncated, closed, done>>
                /\ sent'[s] = sent[s] \/ (sent'[s] = sent[s] + 1 /\ pipe[s] = "open")
    BY <1>12 DEF Write, serverVars, streamVars, finishVars
  <1>13. ASSUME NEW x \in Streams, Hangup(x)
         PROVE  /\ UNCHANGED <<got, sent, truncated, closed, done>>
                /\ pipe'[s] = pipe[s] \/ pipe'[s] = "eof"
    BY <1>13 DEF Hangup, serverVars, streamVars, finishVars
  <1>14. ASSUME (\E t \in Timers : Expire(t)) \/ Fork \/ Exit \/ FamilyExits \/ UNCHANGED childVars
         PROVE  UNCHANGED <<got, sent, truncated, pipe, closed, done>>
    BY <1>14 DEF Expire, Fork, Exit, FamilyExits, childVars, kernelVars, serverVars,
                 streamVars, finishVars
  <1> QED
    BY <1>s, <1>1, <1>2, <1>3, <1>4, <1>5, <1>6, <1>7, <1>8, <1>9, <1>10, <1>11, <1>12,
       <1>13, <1>14
       DEF ChildNext, Start, Poll

\* A result that is delivered with all streams read to their end is complete.
LEMMA HonestDelivery ==
    ASSUME ChildTypeOK, HonestOutput, autoReap' = autoReap,
           NEW STATE ts, Finish(ts),
           ~autoReap /\ ~done /\ done' /\ ~cancelled' /\ (\A s \in Streams : ~truncated'[s])
             => \A s \in Streams : Kept(s)' = sent'[s]
    PROVE  HonestOutput'
  <1> USE DEF ChildTypeOK
  <1>1. CASE results' = results
    BY <1>1 DEF HonestOutput
  <1>2. CASE results' = Append(results, Result') /\ done' /\ ~done
    <2> SUFFICES ASSUME ~autoReap, NEW k \in 1..Len(results'),
                        results'[k].outcome # "cancelled", ~results'[k].truncated
                 PROVE  results'[k].complete
      BY DEF HonestOutput
    <2>1. /\ Len(results') = Len(results) + 1
          /\ \A i \in 1..Len(results) : results'[i] = results[i]
          /\ results'[Len(results) + 1] = Result'
      BY <1>2, ResultType, AppendProperties
    <2>2. CASE k \in 1..Len(results)
      BY <2>1, <2>2 DEF HonestOutput
    <2>3. CASE k = Len(results) + 1
      <3>1. results'[k] = Result'
        BY <2>1, <2>3
      <3>2. /\ Result'.outcome = Outcome' /\ Result'.truncated = (\E s \in Streams : truncated'[s])
            /\ Result'.complete = (\A s \in Streams : Kept(s)' = sent'[s])
        BY DEF Result
      <3>3. ~cancelled'
        BY <3>1, <3>2 DEF Outcome
      <3> QED BY <3>1, <3>2, <3>3, <1>2
    <2> QED BY <2>1, <2>2, <2>3
  <1> QED BY <1>1, <1>2, FinishFacts

LEMMA KeptAgain ==
    ASSUME NEW s \in Streams, got'[s] \in Nat, sent'[s] \in Nat, got'[s] = sent'[s],
           ~(got'[s] > Limit)
    PROVE  Kept(s)' = sent'[s]
  BY ChildProcessAssumption DEF Kept

LEMMA HonestKept ==
    ASSUME ChildTypeOK, ChildTypeOK', Unborn, Reaping, Draining, Streaming, Streaming',
           HonestOutput, [ChildNext]_childVars
    PROVE  HonestOutput'
  <1> USE ChildProcessAssumption DEF ChildTypeOK
  \* Enough for every handler that delivers: at the end the streams are read.
  <1>d. ASSUME NEW STATE ts, Finish(ts), autoReap' = autoReap,
               ~autoReap /\ ~done /\ done' /\ ~cancelled' /\ (\A s \in Streams : ~truncated'[s])
                 => \A s \in Streams : got'[s] = sent'[s]
        PROVE  HonestOutput'
    <2>1. ASSUME \A s \in Streams : ~truncated'[s], \A s \in Streams : got'[s] = sent'[s]
          PROVE  \A s \in Streams : Kept(s)' = sent'[s]
      BY <2>1, KeptAgain DEF Streaming
    <2> QED BY <1>d, <2>1, HonestDelivery
  <1>e. ASSUME results' = results, autoReap' = autoReap PROVE HonestOutput'
    BY <1>e DEF HonestOutput
  <1>f. ~done /\ (\A s \in Streams : closed[s]) => \A s \in Streams : got[s] = sent[s]
    BY DEF Streaming
  <1>1. ASSUME SpawnFails PROVE HonestOutput'
    <2>1. Finish(timers) /\ autoReap' = autoReap /\ \A s \in Streams : got'[s] = sent'[s]
      BY <1>1 DEF SpawnFails, Unborn, exitVars
    <2> QED BY <2>1, <1>d
  <1>2. ASSUME StartAlive \/ StartReaped PROVE HonestOutput'
    BY <1>2, <1>e DEF StartAlive, StartReaped, finishVars, exitVars
  <1>3. ASSUME StartLost PROVE HonestOutput'
    BY <1>3 DEF StartLost, exitVars, HonestOutput
  <1>4. ASSUME CancelChild PROVE HonestOutput'
    <2>1. cancelled' = TRUE /\ autoReap' = autoReap /\ Terminate(timers)
      BY <1>4 DEF CancelChild, exitVars
    <2> DEFINE stopped == [timers EXCEPT !["deadline"] = Cancelled(@)]
    <2>2. Finish(stopped) \/ results' = results
      BY <2>1 DEF Terminate, finishVars
    <2> HIDE DEF stopped
    <2> QED BY <2>1, <2>2, <1>d, <1>e
  <1>5. ASSUME CancelForce PROVE HonestOutput'
    BY <1>5, <1>d DEF CancelForce, exitVars
  <1>6. ASSUME Deadline PROVE HonestOutput'
    <2>1. autoReap' = autoReap /\ results' = results
      BY <1>6 DEF Deadline, Terminate, exitVars, finishVars
    <2> QED BY <2>1, <1>e
  <1>7. ASSUME KillTimer \/ PollWaits PROVE HonestOutput'
    BY <1>7, <1>e DEF KillTimer, PollWaits, finishVars, exitVars
  <1>8. ASSUME PollReaps PROVE HonestOutput'
    <2> DEFINE ts == [timers EXCEPT !["poll"] = Taken(@),
                                    !["deadline"] = Cancelled(@),
                                    !["kill"] = Cancelled(@),
                                    !["drain"] = Armed(@)]
    <2>1. Finish(ts) /\ UNCHANGED <<autoReap, got, sent, closed>> /\ ~done
      BY <1>8 DEF PollReaps, exitVars, streamVars
    <2> HIDE DEF ts
    <2>2. done' => \A s \in Streams : closed[s]
      BY <2>1, FinishFacts
    <2> QED BY <2>1, <2>2, <1>d, <1>f
  <1>9. ASSUME PollLost PROVE HonestOutput'
    BY <1>9 DEF PollLost, exitVars, Reaping, HonestOutput
  <1>10. ASSUME DrainTimer PROVE HonestOutput'
    <2> DEFINE ts == [timers EXCEPT !["drain"] = Taken(@)]
    <2>1. UNCHANGED <<autoReap, got, sent>>
      BY <1>10 DEF DrainTimer, exitVars, kernelVars
    <2>2. CASE done
      BY <2>1, <2>2, <1>10, <1>e DEF DrainTimer, finishVars
    <2>3. CASE ~done
      <3>1. Finish(ts) /\ truncated' = [s \in Streams |-> truncated[s] \/ ~closed[s]]
        BY <2>3, <1>10 DEF DrainTimer
      <3> HIDE DEF ts
      <3>2. (\A s \in Streams : ~truncated'[s]) => \A s \in Streams : closed[s]
        BY <3>1
      <3> QED BY <2>1, <2>3, <3>1, <3>2, <1>d, <1>f
    <2> QED BY <2>2, <2>3
  <1>11. ASSUME NEW s \in Streams, ReadEnd(s) PROVE HonestOutput'
    <2>1. /\ Finish(timers) /\ UNCHANGED <<autoReap, got, sent>>
          /\ closed' = [closed EXCEPT ![s] = TRUE] /\ got[s] = sent[s]
      BY <1>11 DEF ReadEnd, exitVars, kernelVars
    <2>2. done' /\ ~done => \A x \in Streams : x = s \/ closed[x]
      BY <2>1, FinishFacts
    <2>3. done' /\ ~done => \A x \in Streams : got'[x] = sent'[x]
      BY <2>1, <2>2 DEF Streaming
    <2> QED BY <2>1, <2>3, <1>d
  <1>12. ASSUME NEW s \in Streams, ReadData(s) \/ Write(s) \/ Hangup(s) PROVE HonestOutput'
    BY <1>12, <1>e DEF ReadData, Write, Hangup, serverVars, finishVars, exitVars
  <1>13. ASSUME NEW t \in Timers, Expire(t) PROVE HonestOutput'
    BY <1>13, <1>e DEF Expire, serverVars, finishVars, exitVars
  <1>14. ASSUME Fork \/ FamilyExits \/ UNCHANGED childVars PROVE HonestOutput'
    BY <1>14, <1>e DEF Fork, FamilyExits, serverVars, finishVars, exitVars, childVars
  <1>15. ASSUME Exit PROVE HonestOutput'
    BY <1>15, <1>e DEF Exit, serverVars, finishVars, exitVars
  <1> QED
    BY <1>1, <1>2, <1>3, <1>4, <1>5, <1>6, <1>7, <1>8, <1>9, <1>10, <1>11, <1>12,
       <1>13, <1>14, <1>15
       DEF ChildNext, Start, Poll

-----------------------------------------------------------------------------
(* The theorems *)

LEMMA ChildInvInit == ChildInit => ChildInv
  <1> SUFFICES ASSUME ChildInit PROVE ChildInv
    OBVIOUS
  <1> USE DEF ChildInit
  <1>1. ChildTypeOK
    <2>1. timers \in [Timers -> TimerStates]
      BY DEF TimerStates
    <2>2. results \in Seq(Results)
      OBVIOUS
    <2>3. /\ sent \in [Streams -> Nat] /\ got \in [Streams -> Nat]
          /\ closed \in [Streams -> BOOLEAN] /\ truncated \in [Streams -> BOOLEAN]
          /\ pipe \in [Streams -> {"open", "eof"}]
      OBVIOUS
    <2> QED BY <2>1, <2>2, <2>3 DEF ChildTypeOK
  <1>2. Unborn /\ Draining
    BY DEF Unborn, Draining, Timers
  <1>3. Reaping /\ Signalled /\ NoStray
    BY DEF Reaping, Signalled, NoStray
  <1>4. Streaming
    <2>1. \A s \in Streams : got[s] = 0 /\ sent[s] = 0 /\ ~closed[s]
      OBVIOUS
    <2>2. ~(0 > Limit) /\ 0 <= 0
      BY ChildProcessAssumption
    <2> QED BY <2>1, <2>2 DEF Streaming
  <1>5. HonestOutput
    BY DEF HonestOutput
  <1> QED BY <1>1, <1>2, <1>3, <1>4, <1>5 DEF ChildInv

LEMMA ChildInvNext == ChildInv /\ [ChildNext]_childVars => ChildInv'
  <1> SUFFICES ASSUME ChildInv, [ChildNext]_childVars PROVE ChildInv'
    OBVIOUS
  <1>1. ChildTypeOK' /\ Unborn' /\ Draining'
    BY TypeKept, UnbornKept, DrainingKept DEF ChildInv
  <1>2. Flags'
    BY FlagsKept DEF ChildInv, Flags
  <1>3. Streaming'
    BY StreamingKept DEF ChildInv
  <1>4. HonestOutput'
    BY <1>1, <1>3, HonestKept DEF ChildInv
  <1> QED BY <1>1, <1>2, <1>3, <1>4 DEF ChildInv, Flags

THEOREM ChildInvariant == ChildSpec => []ChildInv
  BY ChildInvInit, ChildInvNext, PTL DEF ChildSpec

(***************************************************************************)
(* When the result is delivered, the child was waited for, the rest of a   *)
(* group that was sent SIGTERM is dead, and no signal was sent to a group  *)
(* that might be somebody else's (NothingLeft).                            *)
(***************************************************************************)
THEOREM NothingIsLeft == ChildSpec => []NothingLeft
  <1>1. ChildInv => NothingLeft
    BY DEF ChildInv, ChildTypeOK, Reaping, Signalled, NothingLeft, NoZombie, GroupKilled
  <1> QED BY <1>1, ChildInvariant, PTL

(***************************************************************************)
(* A result that is neither cancelled nor truncated holds all that the     *)
(* command wrote, for any number of streams and any limit (HonestOutput).  *)
(***************************************************************************)
THEOREM OutputIsHonest == ChildSpec => []HonestOutput
  <1>1. ChildInv => HonestOutput
    BY DEF ChildInv
  <1> QED BY <1>1, ChildInvariant, PTL

-----------------------------------------------------------------------------
(* The phases that the queue sees *)

\* A step of a process that has begun, as far as the phases tell.
Progress ==
    /\ child' # "unborn"
    /\ (cancelled => cancelled') /\ (exited => exited') /\ (done => done')
    /\ (done' <=> done) => results' = results
    /\ ~done /\ done' => results' = Append(results, Result')
    /\ ~done /\ ~done' /\ exited /\ ~cancelled => ~cancelled'

LEMMA FinishProgress ==
    ASSUME ChildTypeOK, child # "unborn", child' # "unborn", (cancelled => cancelled'),
           (exited => exited'), cancelled' = cancelled \/ done' \/ ~exited,
           NEW STATE ts, Finish(ts)
    PROVE  Progress
  BY FinishFacts DEF ChildTypeOK, Progress

LEMMA ProgressStep ==
    ASSUME ChildInv, child # "unborn", ChildNext
    PROVE  Progress
  <1> USE DEF ChildInv, ChildTypeOK
  <1>b. child' # "unborn"
    BY DEF ChildNext, Start, SpawnFails, StartAlive, StartReaped, StartLost,
       CancelChild, CancelForce, Deadline, KillTimer, KillGroup, Poll, PollReaps,
       PollLost, PollWaits, DrainTimer, ReadData, ReadEnd, Write, Hangup, Expire,
       Fork, Exit, FamilyExits, kernelVars
  <1>s. UNCHANGED <<cancelled, exited, done, results>> => Progress
    BY <1>b DEF Progress
  <1>t. ASSUME NEW STATE ts, Terminate(ts), cancelled => cancelled'
        PROVE  Progress
    <2>1. CASE exited
      <3> DEFINE stopped == [ts EXCEPT !["deadline"] = Cancelled(@)]
      <3>1. Finish(stopped) /\ exited' = exited /\ closed' = AllClosed
        BY <2>1, <1>t DEF Terminate
      <3> HIDE DEF stopped
      <3>2. done'
        BY <3>1, <2>1, FinishFacts DEF AllClosed
      <3> QED BY <3>1, <3>2, <1>t, <1>b, FinishProgress
    <2>2. CASE ~exited
      <3>1. UNCHANGED <<exited, done, results>>
        BY <2>2, <1>t DEF Terminate, finishVars
      <3> QED BY <3>1, <2>2, <1>b, <1>t DEF Progress
    <2> QED BY <2>1, <2>2
  <1>1. ASSUME CancelChild PROVE Progress
    BY <1>1, <1>t DEF CancelChild
  <1>2. ASSUME CancelForce PROVE Progress
    <2>1. Finish(timers) /\ exited' = TRUE /\ closed' = AllClosed /\ cancelled' = TRUE
      BY <1>2 DEF CancelForce
    <2>2. done'
      BY <2>1, FinishFacts DEF AllClosed
    <2> QED BY <2>1, <2>2, <1>b, FinishProgress
  <1>3. ASSUME Deadline PROVE Progress
    <2> DEFINE ts == [timers EXCEPT !["deadline"] = Taken(@)]
    <2>1. cancelled' = cancelled
      BY <1>3 DEF Deadline
    <2>2. UNCHANGED <<exited, done, results>> \/ Terminate(ts)
      BY <1>3 DEF Deadline, finishVars
    <2> HIDE DEF ts
    <2> QED BY <2>1, <2>2, <1>s, <1>t
  <1>4. ASSUME KillTimer \/ PollWaits PROVE Progress
    BY <1>4, <1>s DEF KillTimer, PollWaits, finishVars, requestVars
  <1>5. ASSUME PollReaps PROVE Progress
    <2> DEFINE ts == [timers EXCEPT !["poll"] = Taken(@),
                                    !["deadline"] = Cancelled(@),
                                    !["kill"] = Cancelled(@),
                                    !["drain"] = Armed(@)]
    <2>1. Finish(ts) /\ exited' = TRUE /\ cancelled' = cancelled
      BY <1>5 DEF PollReaps, requestVars
    <2> HIDE DEF ts
    <2> QED BY <2>1, <1>b, FinishProgress
  <1>6. ASSUME PollLost PROVE Progress
    <2> DEFINE ts == [timers EXCEPT !["poll"] = Taken(@)]
    <2>1. Finish(ts) /\ exited' = TRUE /\ cancelled' = cancelled
      BY <1>6 DEF PollLost, requestVars
    <2> HIDE DEF ts
    <2> QED BY <2>1, <1>b, FinishProgress
  <1>7. ASSUME DrainTimer PROVE Progress
    <2> DEFINE ts == [timers EXCEPT !["drain"] = Taken(@)]
    <2>1. UNCHANGED <<exited, cancelled>> /\ (UNCHANGED <<done, results>> \/ Finish(ts))
      BY <1>7 DEF DrainTimer, requestVars, finishVars
    <2> HIDE DEF ts
    <2> QED BY <2>1, <1>b, <1>s, FinishProgress
  <1>8. ASSUME NEW s \in Streams, ReadEnd(s) PROVE Progress
    <2>1. Finish(timers) /\ UNCHANGED <<exited, cancelled>>
      BY <1>8 DEF ReadEnd, requestVars
    <2> QED BY <2>1, <1>b, FinishProgress
  <1>9. ASSUME NEW s \in Streams, ReadData(s) \/ Write(s) \/ Hangup(s) PROVE Progress
    BY <1>9, <1>s DEF ReadData, Write, Hangup, serverVars, finishVars, requestVars
  <1>10. ASSUME NEW t \in Timers, Expire(t) PROVE Progress
    BY <1>10, <1>s DEF Expire, serverVars, finishVars, requestVars
  <1>11. ASSUME Fork \/ Exit \/ FamilyExits PROVE Progress
    BY <1>11, <1>s DEF Fork, Exit, FamilyExits, serverVars, finishVars, requestVars
  <1>12. ~Start
    BY DEF Start, SpawnFails, StartAlive, StartReaped, StartLost
  <1> QED
    BY <1>1, <1>2, <1>3, <1>4, <1>5, <1>6, <1>7, <1>8, <1>9, <1>10, <1>11, <1>12
       DEF ChildNext, Poll

Ending == IF done THEN results[1].outcome ELSE "pending"

LEMMA FirstResult ==
    ASSUME Len(results) = 0, results \in Seq(Results), results' = Append(results, Result')
    PROVE  results'[1].outcome = Outcome'
  <1>1. results'[1] = Result'
    BY ResultType, AppendProperties
  <1> QED BY <1>1 DEF Result

LEMMA ProgressMaps ==
    ASSUME ChildInv, child # "unborn", Progress
    PROVE  [Process!ProcessNext]_<<Phase, Ending>>
  <1> USE DEF ChildInv, ChildTypeOK, Reaping, Progress
  <1>1. CASE done
    BY <1>1 DEF Phase, Ending
  <1>2. CASE ~done /\ done'
    <2>1. Ending' = Outcome' /\ Phase' = "ended" /\ Ending = "pending"
      BY <1>2, FirstResult DEF Ending, Phase
    <2>2. Process!Alive
      BY <1>2 DEF Phase, Process!Alive
    <2>3. Outcome' \in (IF Phase = "cancelling" THEN {"cancelled"}
                        ELSE {"succeeded", "failed", "cancelled"})
      BY <1>2 DEF Phase, Outcome
    <2>4. Process!End
      BY <2>1, <2>2, <2>3 DEF Process!End, Ending
    <2> QED BY <2>4 DEF Process!ProcessNext
  <1>3. CASE ~done /\ ~done'
    <2>1. Ending' = Ending
      BY <1>3 DEF Ending
    <2>2. CASE cancelled \/ (~cancelled' /\ exited' = exited)
      BY <1>3, <2>1, <2>2 DEF Phase
    <2>3. CASE ~cancelled /\ cancelled'
      BY <1>3, <2>1, <2>3 DEF Phase, Ending, Process!Request, Process!ProcessNext
    <2>4. CASE ~cancelled /\ ~cancelled' /\ exited' # exited
      BY <1>3, <2>1, <2>4 DEF Phase, Ending, Process!Reaped, Process!ProcessNext
    <2> QED BY <2>2, <2>3, <2>4
  <1> QED BY <1>1, <1>2, <1>3

LEMMA StartMaps ==
    ASSUME ChildInv, Start
    PROVE  Process!Begin
  <1> USE DEF ChildInv, ChildTypeOK, Reaping, Unborn
  <1>1. child = "unborn" /\ ~done /\ Phase = "none" /\ Ending = "pending"
    BY DEF Start, SpawnFails, StartAlive, StartReaped, StartLost, Phase, Ending
  <1>2. ASSUME SpawnFails PROVE Process!Begin
    <2>1. /\ child' = "failed" /\ exited' = TRUE /\ closed' = AllClosed /\ Finish(timers)
          /\ UNCHANGED <<cancelled, timedOut, exitOk>>
      BY <1>2 DEF SpawnFails, requestVars, exitVars
    <2>2. done' /\ results' = Append(results, Result')
      BY <2>1, <1>1, FinishFacts DEF AllClosed
    <2>3. Outcome' = "failed"
      BY <2>1, <1>1 DEF Outcome
    <2> QED BY <2>1, <2>2, <2>3, <1>1, FirstResult DEF Process!Begin, Phase, Ending
  <1>3. ASSUME StartAlive \/ StartReaped PROVE Process!Begin
    BY <1>3, <1>1 DEF StartAlive, StartReaped, Process!Begin, Phase, Ending,
       finishVars, requestVars
  <1>4. ASSUME StartLost PROVE Process!Begin
    <2>1. /\ child' = "gone" /\ done' = TRUE /\ results' = Append(results, Result')
          /\ UNCHANGED <<cancelled, timedOut, exitOk>>
      BY <1>4 DEF StartLost, requestVars, exitVars
    <2>2. Outcome' = "failed"
      BY <2>1, <1>1 DEF Outcome
    <2> QED BY <2>1, <2>2, <1>1, FirstResult DEF Process!Begin, Phase, Ending
  <1> QED BY <1>2, <1>3, <1>4 DEF Start

(***************************************************************************)
(* The child process passes through the phases of JobProcess, ends once    *)
(* and with an outcome that the phase allows: every step of its handlers   *)
(* and of the kernel is one of JobProcess or none (the safety part of      *)
(* ChildImplements, which the job queue relies on).                        *)
(***************************************************************************)
THEOREM PhasesImplemented ==
    ChildSpec => Process!ProcessInit /\ [][Process!ProcessNext]_(Process!processVars)
  <1>1. ChildInit => Process!ProcessInit
    BY DEF ChildInit, Process!ProcessInit, Phase
  <1>2. ChildInv /\ [ChildNext]_childVars => [Process!ProcessNext]_(Process!processVars)
    <2> SUFFICES ASSUME ChildInv, [ChildNext]_childVars
                 PROVE  [Process!ProcessNext]_<<Phase, Ending>>
      BY DEF Process!processVars, Ending
    <2>1. CASE UNCHANGED childVars
      BY <2>1 DEF childVars, Phase, Ending
    <2>2. CASE ChildNext /\ child = "unborn"
      <3>1. Start
        BY <2>2, OnlyStart DEF ChildInv
      <3> QED BY <3>1, StartMaps DEF Process!ProcessNext
    <2>3. CASE ChildNext /\ child # "unborn"
      BY <2>3, ProgressStep, ProgressMaps
    <2> QED BY <2>1, <2>2, <2>3
  <1> QED BY <1>1, <1>2, ChildInvariant, PTL DEF ChildSpec

=============================================================================
