---------------------------- MODULE ServerProofs ----------------------------
(***************************************************************************)
(* The proofs about the server process and its log: there is one server,   *)
(* and its launcher and its PID file tell the truth about it               *)
(* (OneHonestServer of Daemon), for any number of invocations and of       *)
(* kills; and no log record disappears without being counted (LogAccounts  *)
(* of EventLog), for any queue limit and any number of records.            *)
(*                                                                         *)
(* DaemonInv adds who holds the lock: exactly the processes that are alive *)
(* and past it, all of one invocation; a daemon's launcher never serves    *)
(* itself, and it hands the PID file to its child.  LogInv adds where a    *)
(* record is that is not in the file yet: held by the worker, in the       *)
(* queue, in the count that the worker took or in the next one.            *)
(***************************************************************************)
EXTENDS Daemon, EventLog, FiniteSetTheorems, SequenceTheorems, TLAPS

-----------------------------------------------------------------------------
(* The daemon *)

Stages == Active \cup Gone \cup {"none", "waiting"}

DaemonTypeOK ==
    /\ stage \in [Processes -> Stages]
    /\ daemon \in [Launches -> BOOLEAN]

\* The lock is held by those who are alive and past it, all of one invocation.
HoldersAlive == \A p \in Processes : p \in holders <=> stage[p] \in Active \cup {"waiting"}
OneInvocation == \A p, q \in Processes : p \in holders /\ q \in holders => p[1] = q[1]

\* What launcher and child may be doing, depending on the invocation.
Roles ==
    \A l \in Launches :
        /\ stage[Launcher(l)] \in {"none", "locked"} => stage[Child(l)] = "none"
        /\ ~daemon[l] => stage[Child(l)] = "none" /\ stage[Launcher(l)] # "waiting"
        /\ daemon[l] => stage[Launcher(l)] \notin {"detaching", "setup", "serving"}
        /\ stage[Child(l)] \notin {"locked", "waiting"}

\* A launcher that waits leaves the PID file to its child.
HandedOver == \A l \in Launches : stage[Launcher(l)] = "waiting" => Launcher(l) \notin owners

FileNamesServer == \A p \in Processes : stage[p] \in {"setup", "serving"} => pidFile = p

LaunchersHonest ==
    \A l \in Launches :
        daemon[l] =>
            /\ stage[Launcher(l)] = "ended" => l \in told
            /\ stage[Launcher(l)] = "failed" => stage[Child(l)] \in Gone \cup {"none"}

DaemonInv ==
    /\ DaemonTypeOK
    /\ HoldersAlive
    /\ OneInvocation
    /\ Roles
    /\ HandedOver
    /\ FileNamesServer
    /\ LaunchersHonest

-----------------------------------------------------------------------------

\* Every process is the launcher or the child of its invocation, never both.
LEMMA EitherName ==
    \A p \in Processes : p[1] \in Launches /\ (p = Launcher(p[1]) \/ p = Child(p[1]))
  BY DEF Launcher, Child, Processes

LEMMA ProcessNames ==
    /\ \A l \in Launches : Launcher(l) \in Processes /\ Launcher(l)[1] = l
    /\ \A l \in Launches : Child(l) \in Processes /\ Child(l)[1] = l
    /\ \A l, m \in Launches : Launcher(l) # Child(m)
    /\ \A l, m \in Launches : Launcher(l) = Launcher(m) => l = m
    /\ \A l, m \in Launches : Child(l) = Child(m) => l = m
  BY DEF Launcher, Child, Processes

LEMMA DaemonInitInv == DaemonInit => DaemonInv
  <1> SUFFICES ASSUME DaemonInit PROVE DaemonInv
    OBVIOUS
  <1>1. \A p \in Processes : stage[p] = "none"
    BY DEF DaemonInit
  <1>2. DaemonTypeOK
    BY DEF DaemonInit, DaemonTypeOK, Stages
  <1> QED
    BY <1>1, <1>2, ProcessNames
       DEF DaemonInit, DaemonInv, HoldersAlive, OneInvocation, Roles, HandedOver,
           FileNamesServer, LaunchersHonest, Active, Gone

\* A process that is past the lock ends, by return or by a kill.
LEMMA EndInv ==
    ASSUME DaemonInv,
           NEW p \in Processes, stage[p] \in Active \cup {"waiting"},
           NEW as \in Gone,
           stage' = [stage EXCEPT ![p] = as],
           holders' = holders \ {p}, owners' = owners \ {p},
           p \notin owners => pidFile' = pidFile,
           UNCHANGED <<daemon, told>>,
           as = "ended" /\ daemon[p[1]] /\ p = Launcher(p[1]) => p[1] \in told,
           as = "failed" /\ daemon[p[1]] /\ p = Launcher(p[1]) =>
               stage[Child(p[1])] \in Gone \cup {"none"}
    PROVE  DaemonInv'
  <1> USE ProcessNames
  <1>1. DaemonTypeOK /\ HoldersAlive /\ OneInvocation /\ Roles /\ HandedOver
        /\ FileNamesServer /\ LaunchersHonest
    BY DEF DaemonInv
  <1>2. p \in holders
    BY <1>1 DEF HoldersAlive
  <1>3. as \in Gone /\ as \notin {"none", "waiting", "locked", "detaching", "setup", "serving"}
        /\ as \notin Active
    BY DEF Gone, Active
  <1>4. \A q \in Processes : stage'[q] = IF q = p THEN as ELSE stage[q]
    BY <1>1, <1>3 DEF DaemonTypeOK
  <1>5. DaemonTypeOK'
    BY <1>1, <1>3 DEF DaemonTypeOK, Stages
  <1>6. HoldersAlive' /\ OneInvocation'
    <2>1. ASSUME NEW q \in Processes
          PROVE  q \in holders' <=> stage'[q] \in Active \cup {"waiting"}
      <3>1. CASE q = p
        BY <1>3, <1>4, <3>1, ZenonT(60)
      <3>2. CASE q # p
        BY <1>1, <1>4, <3>2 DEF HoldersAlive
      <3> QED BY <3>1, <3>2
    <2> QED BY <1>1, <2>1 DEF HoldersAlive, OneInvocation
  <1>7. Roles'
    <2> SUFFICES ASSUME NEW l \in Launches
                 PROVE  /\ stage'[Launcher(l)] \in {"none", "locked"} => stage'[Child(l)] = "none"
                        /\ ~daemon[l] => stage'[Child(l)] = "none" /\ stage'[Launcher(l)] # "waiting"
                        /\ daemon[l] => stage'[Launcher(l)] \notin {"detaching", "setup", "serving"}
                        /\ stage'[Child(l)] \notin {"locked", "waiting"}
      BY DEF Roles
    <2>1. /\ stage'[Launcher(l)] = IF Launcher(l) = p THEN as ELSE stage[Launcher(l)]
          /\ stage'[Child(l)] = IF Child(l) = p THEN as ELSE stage[Child(l)]
      BY <1>4
    <2>2. Launcher(l) # Child(l)
      OBVIOUS
    <2>3. stage[Child(l)] = "none" => Child(l) # p
      BY DEF Active
    <2>4. CASE p = Launcher(l)
      BY <1>1, <1>3, <2>1, <2>2, <2>4 DEF Roles, Active
    <2>5. CASE p # Launcher(l)
      <3>1. stage'[Launcher(l)] = stage[Launcher(l)]
        BY <2>1, <2>5
      <3>2. CASE p = Child(l)
        <4>1. stage'[Child(l)] = as /\ stage[Child(l)] # "none"
          BY <2>1, <2>3, <3>2
        <4> QED BY <1>1, <1>3, <3>1, <4>1 DEF Roles
      <3>3. CASE p # Child(l)
        BY <1>1, <2>1, <3>1, <3>3 DEF Roles
      <3> QED BY <3>2, <3>3
    <2> QED BY <2>4, <2>5
  <1>8. HandedOver'
    BY <1>1, <1>3, <1>4 DEF HandedOver
  <1>9. FileNamesServer'
    <2> SUFFICES ASSUME NEW q \in Processes, stage'[q] \in {"setup", "serving"}
                 PROVE  pidFile' = q
      BY DEF FileNamesServer
    <2>1. q # p /\ stage[q] \in {"setup", "serving"} /\ pidFile = q /\ q \in holders
      <3>1. q # p
        BY <1>3, <1>4
      <3>2. stage[q] \in {"setup", "serving"}
        BY <1>4, <3>1
      <3> QED BY <1>1, <3>1, <3>2 DEF FileNamesServer, HoldersAlive, Active
    <2>2. q[1] = p[1]
      BY <1>1, <1>2, <2>1 DEF OneInvocation
    <2>3. q[1] \in Launches /\ (q = Launcher(q[1]) \/ q = Child(q[1]))
                            /\ (p = Launcher(q[1]) \/ p = Child(q[1]))
      BY <2>2, EitherName
    <2>4. q # Launcher(q[1])
      <3> SUFFICES ASSUME q = Launcher(q[1]) PROVE FALSE
        OBVIOUS
      <3>1. ~daemon[q[1]] /\ p = Child(q[1])
        BY <1>1, <2>1, <2>3 DEF Roles
      <3> QED BY <1>1, <2>3, <3>1 DEF Roles, Active
    <2>5. p \notin owners
      <3>1. p = Launcher(q[1]) /\ q = Child(q[1])
        BY <2>1, <2>3, <2>4
      <3>2. stage[p] = "waiting"
        BY <1>1, <2>1, <2>3, <3>1 DEF Roles, Active
      <3> QED BY <1>1, <2>3, <3>1, <3>2 DEF HandedOver
    <2> QED BY <2>1, <2>5
  <1>10. LaunchersHonest'
    <2> SUFFICES ASSUME NEW l \in Launches, daemon[l]
                 PROVE  /\ stage'[Launcher(l)] = "ended" => l \in told
                        /\ stage'[Launcher(l)] = "failed" => stage'[Child(l)] \in Gone \cup {"none"}
      BY DEF LaunchersHonest
    <2>1. /\ stage'[Launcher(l)] = IF Launcher(l) = p THEN as ELSE stage[Launcher(l)]
          /\ stage'[Child(l)] = IF Child(l) = p THEN as ELSE stage[Child(l)]
      BY <1>4
    <2>2. CASE p = Launcher(l)
      <3>1. p[1] = l /\ Child(l) # p
        BY <2>2
      <3>2. stage'[Launcher(l)] = as /\ stage'[Child(l)] = stage[Child(l)]
        BY <2>1, <2>2, <3>1
      <3>3. p = Launcher(p[1]) /\ daemon[p[1]]
        BY <2>2, <3>1
      <3>4. /\ as = "ended" => l \in told
            /\ as = "failed" => stage[Child(l)] \in Gone \cup {"none"}
        BY <3>1, <3>3
      <3> QED BY <3>2, <3>4
    <2>3. CASE p # Launcher(l)
      <3>1. /\ stage'[Launcher(l)] = stage[Launcher(l)]
            /\ stage'[Child(l)] \in Gone \/ stage'[Child(l)] = stage[Child(l)]
        BY <1>3, <2>1, <2>3
      <3>2. /\ stage[Launcher(l)] = "ended" => l \in told
            /\ stage[Launcher(l)] = "failed" => stage[Child(l)] \in Gone \cup {"none"}
        BY <1>1 DEF LaunchersHonest
      <3> QED BY <3>1, <3>2
    <2> QED BY <2>2, <2>3
  <1> QED BY <1>5, <1>6, <1>7, <1>8, <1>9, <1>10 DEF DaemonInv

LEMMA LeaveInv ==
    ASSUME DaemonInv,
           NEW p \in Processes, stage[p] \in Active \cup {"waiting"},
           NEW as \in {"ended", "failed"}, Leave(p, as),
           UNCHANGED <<daemon, told>>,
           as = "ended" /\ daemon[p[1]] /\ p = Launcher(p[1]) => p[1] \in told,
           as = "failed" /\ daemon[p[1]] /\ p = Launcher(p[1]) =>
               stage[Child(p[1])] \in Gone \cup {"none"}
    PROVE  DaemonInv'
  BY EndInv DEF Leave, Gone

LEMMA StartInv ==
    ASSUME DaemonInv, NEW l \in Launches, Start(l)
    PROVE  DaemonInv'
  <1> USE ProcessNames
  <1>1. DaemonTypeOK /\ HoldersAlive /\ OneInvocation /\ Roles /\ HandedOver
        /\ FileNamesServer /\ LaunchersHonest
    BY DEF DaemonInv
  <1> DEFINE p == Launcher(l)
  <1>2. PICK as \in {"locked", "failed"} :
            /\ stage' = [stage EXCEPT ![p] = as]
            /\ as = "locked" => holders = {} /\ holders' = {p} /\ owners' = {p}
            /\ as = "failed" => holders' = holders /\ owners' = owners
    BY DEF Start
  <1>3. stage[p] = "none" /\ stage[Child(l)] = "none" /\ UNCHANGED <<daemon, pidFile, told>>
    BY <1>1 DEF Start, Roles
  <1>4. \A q \in Processes : stage'[q] = IF q = p THEN as ELSE stage[q]
    BY <1>1, <1>2 DEF DaemonTypeOK
  <1>5. \A m \in Launches :
            /\ stage'[Launcher(m)] = IF m = l THEN as ELSE stage[Launcher(m)]
            /\ stage'[Child(m)] = stage[Child(m)]
    BY <1>4
  <1>6. p \in Processes /\ p \notin holders
    BY <1>1, <1>3 DEF HoldersAlive, Active
  <1> HIDE DEF p
  <1>7. DaemonTypeOK'
    BY <1>1, <1>2, <1>3 DEF DaemonTypeOK, Stages, Active, Gone
  <1>8. ASSUME as = "locked" PROVE HoldersAlive' /\ OneInvocation'
    <2>1. holders' = {p} /\ \A q \in Processes : stage[q] \notin Active \cup {"waiting"}
      BY <1>1, <1>2, <1>8 DEF HoldersAlive
    <2>2. HoldersAlive'
      BY <1>4, <1>8, <2>1 DEF HoldersAlive, Active
    <2>3. OneInvocation'
      BY <2>1 DEF OneInvocation
    <2> QED BY <2>2, <2>3
  <1>9. ASSUME as = "failed" PROVE HoldersAlive' /\ OneInvocation'
    <2>1. holders' = holders
      BY <1>2, <1>9
    <2>2. HoldersAlive'
      BY <1>1, <1>4, <1>6, <1>9, <2>1 DEF HoldersAlive, Active
    <2>3. OneInvocation'
      BY <1>1, <2>1 DEF OneInvocation
    <2> QED BY <2>2, <2>3
  <1>10. Roles' /\ HandedOver'
    <2>1. Roles'
      BY <1>1, <1>3, <1>5 DEF Roles
    <2>2. \A m \in Launches : stage'[Launcher(m)] = "waiting" => stage[Launcher(m)] = "waiting"
      BY <1>5
    <2>3. as = "locked" => \A m \in Launches : stage[Launcher(m)] # "waiting"
      BY <1>1, <1>2 DEF HoldersAlive
    <2> QED BY <1>1, <1>2, <2>1, <2>2, <2>3 DEF HandedOver
  <1>11. FileNamesServer'
    BY <1>1, <1>3, <1>4 DEF FileNamesServer
  <1>12. LaunchersHonest'
    BY <1>1, <1>3, <1>5 DEF LaunchersHonest, Gone
  <1> QED BY <1>2, <1>7, <1>8, <1>9, <1>10, <1>11, <1>12 DEF DaemonInv

LEMMA ForkInv ==
    ASSUME DaemonInv, NEW l \in Launches, Fork(l)
    PROVE  DaemonInv'
  <1> USE ProcessNames
  <1>1. DaemonTypeOK /\ HoldersAlive /\ OneInvocation /\ Roles /\ HandedOver
        /\ FileNamesServer /\ LaunchersHonest
    BY DEF DaemonInv
  <1>2. stage[Launcher(l)] = "locked" /\ daemon[l] /\ stage[Child(l)] = "none"
        /\ UNCHANGED <<daemon, told>>
    BY <1>1 DEF Fork, Roles
  <1>3. CASE Leave(Launcher(l), "failed")
    BY <1>2, <1>3, LeaveInv DEF Active
  <1>4. CASE /\ stage' = [stage EXCEPT ![Launcher(l)] = "waiting", ![Child(l)] = "detaching"]
             /\ holders' = holders \cup {Child(l)}
             /\ owners' = {Child(l)}
             /\ UNCHANGED pidFile
    <2>1. \A q \in Processes : stage'[q] = IF q = Launcher(l) THEN "waiting"
                                           ELSE IF q = Child(l) THEN "detaching" ELSE stage[q]
      BY <1>1, <1>4 DEF DaemonTypeOK
    <2>2. \A m \in Launches :
              /\ stage'[Launcher(m)] = IF m = l THEN "waiting" ELSE stage[Launcher(m)]
              /\ stage'[Child(m)] = IF m = l THEN "detaching" ELSE stage[Child(m)]
      BY <2>1
    <2>3. Launcher(l) \in holders /\ \A q \in holders' \cap Processes : q[1] = l
      BY <1>1, <1>2, <1>4 DEF HoldersAlive, OneInvocation, Active
    <2>4. DaemonTypeOK'
      BY <1>1, <1>2, <1>4 DEF DaemonTypeOK, Stages, Active
    <2>5. HoldersAlive'
      <3> SUFFICES ASSUME NEW q \in Processes
                   PROVE  q \in holders' <=> stage'[q] \in Active \cup {"waiting"}
        BY DEF HoldersAlive
      <3>1. CASE q = Child(l)
        BY <1>4, <2>1, <3>1 DEF Active
      <3>2. CASE q = Launcher(l)
        BY <1>4, <2>1, <2>3, <3>2
      <3>3. CASE q # Child(l) /\ q # Launcher(l)
        BY <1>1, <1>4, <2>1, <3>3 DEF HoldersAlive
      <3> QED BY <3>1, <3>2, <3>3
    <2>6. OneInvocation'
      BY <2>3 DEF OneInvocation
    <2>10. Roles'
      BY <1>1, <1>2, <2>2 DEF Roles
    <2>7. HandedOver'
      BY <1>4 DEF HandedOver
    <2>8. FileNamesServer'
      BY <1>1, <1>4, <2>1 DEF FileNamesServer
    <2>9. LaunchersHonest'
      BY <1>1, <1>2, <2>2 DEF LaunchersHonest
    <2> QED BY <2>4, <2>5, <2>6, <2>7, <2>8, <2>9, <2>10 DEF DaemonInv
  <1> QED BY <1>3, <1>4 DEF Fork, Inherits

\* The steps of a process that is past the lock and does not leave.
LEMMA AdvanceInv ==
    ASSUME DaemonInv, NEW p \in Processes, NEW as \in {"setup", "serving"},
           stage[p] \in {"locked", "detaching", "setup"},
           stage[p] = "locked" => ~daemon[p[1]],
           stage' = [stage EXCEPT ![p] = as],
           pidFile' = p \/ (stage[p] = "setup" /\ pidFile' = pidFile),
           told \subseteq told',
           UNCHANGED <<daemon, holders, owners>>
    PROVE  DaemonInv'
  <1> USE ProcessNames
  <1>1. DaemonTypeOK /\ HoldersAlive /\ OneInvocation /\ Roles /\ HandedOver
        /\ FileNamesServer /\ LaunchersHonest
    BY DEF DaemonInv
  <1>2. p \in holders /\ p[1] \in Launches
    BY <1>1, EitherName DEF HoldersAlive, Active
  <1>3. \A q \in Processes : stage'[q] = IF q = p THEN as ELSE stage[q]
    BY <1>1 DEF DaemonTypeOK
  <1>4. p = Child(p[1]) \/ (p = Launcher(p[1]) /\ ~daemon[p[1]])
    BY <1>1, <1>2, EitherName DEF Roles
  <1>5. DaemonTypeOK'
    BY <1>1 DEF DaemonTypeOK, Stages, Active
  <1>6. HoldersAlive'
    <2> SUFFICES ASSUME NEW q \in Processes
                 PROVE  q \in holders <=> stage'[q] \in Active \cup {"waiting"}
      BY DEF HoldersAlive
    <2>1. CASE q = p
      BY <1>2, <1>3, <2>1 DEF Active
    <2>2. CASE q # p
      BY <1>1, <1>3, <2>2 DEF HoldersAlive
    <2> QED BY <2>1, <2>2
  <1>7. OneInvocation'
    BY <1>1 DEF OneInvocation
  <1>8. Roles' /\ LaunchersHonest' /\ HandedOver'
    <2> SUFFICES ASSUME NEW l \in Launches
                 PROVE  /\ stage'[Launcher(l)] \in {"none", "locked"} => stage'[Child(l)] = "none"
                        /\ ~daemon[l] => stage'[Child(l)] = "none" /\ stage'[Launcher(l)] # "waiting"
                        /\ daemon[l] => stage'[Launcher(l)] \notin {"detaching", "setup", "serving"}
                        /\ stage'[Child(l)] \notin {"locked", "waiting"}
                        /\ daemon[l] =>
                              /\ stage'[Launcher(l)] = "ended" => l \in told'
                              /\ stage'[Launcher(l)] = "failed" => stage'[Child(l)] \in Gone \cup {"none"}
                        /\ stage'[Launcher(l)] = "waiting" => Launcher(l) \notin owners
      BY DEF Roles, LaunchersHonest, HandedOver
    <2>1. /\ stage'[Launcher(l)] = IF Launcher(l) = p THEN as ELSE stage[Launcher(l)]
          /\ stage'[Child(l)] = IF Child(l) = p THEN as ELSE stage[Child(l)]
      BY <1>3
    <2>2. CASE p = Launcher(l)
      <3>1. ~daemon[l] /\ Child(l) # p
        BY <1>4, <2>2
      <3>2. stage[Child(l)] = "none"
        BY <1>1, <3>1 DEF Roles
      <3> QED BY <2>1, <2>2, <3>1, <3>2
    <2>3. CASE p = Child(l)
      <3>1. stage'[Child(l)] = as /\ stage'[Launcher(l)] = stage[Launcher(l)]
        BY <2>1, <2>3
      <3>2. /\ stage[Launcher(l)] \notin {"none", "locked"} /\ daemon[l]
            /\ stage[Launcher(l)] # "failed"
            /\ stage[Launcher(l)] = "ended" => l \in told
        BY <1>1, <2>3 DEF Roles, LaunchersHonest, Gone
      <3> QED BY <1>1, <3>1, <3>2 DEF Roles, HandedOver
    <2>4. CASE p # Launcher(l) /\ p # Child(l)
      <3>1. stage'[Child(l)] = stage[Child(l)] /\ stage'[Launcher(l)] = stage[Launcher(l)]
        BY <2>1, <2>4
      <3> QED BY <1>1, <3>1 DEF Roles, HandedOver, LaunchersHonest
    <2> QED BY <2>2, <2>3, <2>4
  <1>9. FileNamesServer'
    <2> SUFFICES ASSUME NEW q \in Processes, stage'[q] \in {"setup", "serving"}
                 PROVE  pidFile' = q
      BY DEF FileNamesServer
    <2>1. CASE q = p
      BY <1>1, <2>1 DEF FileNamesServer
    <2>2. CASE q # p
      <3>1. stage[q] \in {"setup", "serving"} /\ q \in holders
        BY <1>1, <1>3, <2>2 DEF HoldersAlive, Active
      <3>2. q[1] = p[1]
        BY <1>1, <1>2, <3>1 DEF OneInvocation
      <3>3. stage[Child(p[1])] # "none" /\ stage[Launcher(p[1])] \in {"locked", "detaching", "setup", "serving"}
        BY <1>4, <2>2, <3>1, <3>2, EitherName
      <3>4. daemon[p[1]] /\ stage[Launcher(p[1])] \notin {"locked", "detaching", "setup", "serving"}
        BY <1>1, <1>2, <3>3 DEF Roles
      <3> QED BY <3>3, <3>4
    <2> QED BY <2>1, <2>2
  <1> QED BY <1>5, <1>6, <1>7, <1>8, <1>9 DEF DaemonInv

LEMMA ProcessInv ==
    ASSUME DaemonInv, NEW p \in Processes,
           WritePid(p) \/ Ready(p) \/ StopServer(p) \/ Kill(p)
    PROVE  DaemonInv'
  <1>1. Roles /\ p[1] \in Launches /\ (p = Launcher(p[1]) \/ p = Child(p[1]))
    BY EitherName DEF DaemonInv
  <1>2. stage[p] \in {"detaching", "setup", "serving"} /\ daemon[p[1]] => p # Launcher(p[1])
    BY <1>1 DEF Roles
  <1>3. CASE WritePid(p)
    <2>1. stage[p] \in {"locked", "detaching"} /\ (stage[p] = "locked" => ~daemon[p[1]])
          /\ UNCHANGED <<daemon, told>>
      BY <1>3 DEF WritePid
    <2>2. daemon[p[1]] => stage[p] = "detaching"
      BY <1>3 DEF WritePid
    <2>3. CASE /\ stage' = [stage EXCEPT ![p] = "setup"]
               /\ pidFile' = p
               /\ UNCHANGED <<holders, owners>>
      <3>1. "setup" \in {"setup", "serving"} /\ stage[p] \in {"locked", "detaching", "setup"}
            /\ told \subseteq told' /\ UNCHANGED <<daemon, holders, owners>>
        BY <2>1, <2>3
      <3> QED BY <2>1, <2>3, <3>1, AdvanceInv
    <2>4. CASE Leave(p, "failed")
      <3>1. daemon[p[1]] => p # Launcher(p[1])
        BY <1>2, <2>2
      <3> QED BY <1>3, <2>1, <2>4, <3>1, LeaveInv DEF WritePid, Active
    <2> QED BY <1>3, <2>3, <2>4 DEF WritePid
  <1>4. CASE Ready(p)
    <2>1. stage[p] = "setup" /\ UNCHANGED daemon
      BY <1>4 DEF Ready
    <2>2. CASE /\ stage' = [stage EXCEPT ![p] = "serving"]
               /\ told' = IF daemon[p[1]] THEN told \cup {p[1]} ELSE told
               /\ UNCHANGED <<pidFile, holders, owners>>
      BY <2>1, <2>2, AdvanceInv
    <2>3. CASE Leave(p, "failed") /\ UNCHANGED told
      BY <1>2, <2>1, <2>3, LeaveInv DEF Active
    <2> QED BY <1>4, <2>2, <2>3 DEF Ready
  <1>5. CASE StopServer(p)
    <2>1. stage[p] = "serving" /\ Leave(p, "ended") /\ UNCHANGED <<daemon, told>>
      BY <1>5 DEF StopServer
    <2>2. ~(daemon[p[1]] /\ p = Launcher(p[1]))
      BY <1>2, <2>1
    <2>3. stage[p] \in Active \cup {"waiting"}
      BY <2>1 DEF Active
    <2>4. "ended" \in {"ended", "failed"} /\ "ended" # "failed"
      OBVIOUS
    <2> QED BY <2>1, <2>2, <2>3, <2>4, LeaveInv
  <1>6. CASE Kill(p)
    <2>1. /\ stage[p] \in Active \cup {"waiting"}
          /\ stage' = [stage EXCEPT ![p] = "killed"]
          /\ holders' = holders \ {p} /\ owners' = owners \ {p}
          /\ UNCHANGED <<daemon, pidFile, told>>
      BY <1>6 DEF Kill
    <2>2. "killed" \in Gone /\ "killed" # "ended" /\ "killed" # "failed"
      BY DEF Gone
    <2> QED BY <2>1, <2>2, EndInv
  <1> QED BY <1>3, <1>4, <1>5, <1>6

LEMMA HearInv ==
    ASSUME DaemonInv, NEW l \in Launches, Hear(l)
    PROVE  DaemonInv'
  <1>1. /\ stage[Launcher(l)] \in Active \cup {"waiting"} /\ l \in told
        /\ Leave(Launcher(l), "ended") /\ UNCHANGED <<daemon, told>>
    BY DEF Hear
  <1>2. Launcher(l) \in Processes /\ Launcher(l)[1] = l
    BY ProcessNames
  <1>3. "ended" \in {"ended", "failed"} /\ "ended" # "failed"
    OBVIOUS
  <1> QED BY <1>1, <1>2, <1>3, LeaveInv

LEMMA GiveUpInv ==
    ASSUME DaemonInv, NEW l \in Launches, GiveUp(l)
    PROVE  DaemonInv'
  <1> USE ProcessNames
  <1>1. DaemonTypeOK /\ HoldersAlive /\ OneInvocation /\ Roles /\ HandedOver
        /\ FileNamesServer /\ LaunchersHonest
    BY DEF DaemonInv
  <1>2. PICK as \in Gone : stage' = [stage EXCEPT ![Launcher(l)] = "failed", ![Child(l)] = as]
    <2>1. CASE stage[Child(l)] \in Gone
      <3>1. stage' = [stage EXCEPT ![Launcher(l)] = "failed", ![Child(l)] = stage[Child(l)]]
        BY <1>1, <2>1 DEF GiveUp, DaemonTypeOK
      <3> QED BY <2>1, <3>1
    <2>2. CASE stage[Child(l)] \notin Gone
      <3>1. stage' = [stage EXCEPT ![Launcher(l)] = "failed", ![Child(l)] = "killed"]
        BY <1>1, <2>2 DEF GiveUp, DaemonTypeOK
      <3> QED BY <3>1 DEF Gone
    <2> QED BY <2>1, <2>2
  <1>3. /\ holders' = holders \ {Launcher(l), Child(l)}
        /\ owners' = owners \ {Launcher(l), Child(l)}
        /\ stage[Launcher(l)] = "waiting"
        /\ UNCHANGED <<daemon, told>>
    BY DEF GiveUp
  <1>4. pidFile' = pidFile
    BY <1>1, <1>3 DEF GiveUp, HandedOver
  <1>5. \A q \in Processes : stage'[q] = IF q = Launcher(l) THEN "failed"
                                         ELSE IF q = Child(l) THEN as ELSE stage[q]
    BY <1>1, <1>2 DEF DaemonTypeOK
  <1>6. \A m \in Launches :
            /\ stage'[Launcher(m)] = IF m = l THEN "failed" ELSE stage[Launcher(m)]
            /\ stage'[Child(m)] = IF m = l THEN as ELSE stage[Child(m)]
    BY <1>5
  <1>7. as \notin Active \cup {"waiting", "none"} /\ "failed" \notin Active
    BY DEF Gone, Active
  <1>8. DaemonTypeOK'
    <2>1. as \in Stages /\ "failed" \in Stages
      BY DEF Stages, Gone
    <2> QED BY <1>1, <1>2, <1>3, <2>1 DEF DaemonTypeOK
  <1>9. HoldersAlive'
    <2> SUFFICES ASSUME NEW q \in Processes
                 PROVE  q \in holders' <=> stage'[q] \in Active \cup {"waiting"}
      BY DEF HoldersAlive
    <2>1. CASE q \in {Launcher(l), Child(l)}
      BY <1>3, <1>5, <1>7, <2>1
    <2>2. CASE q \notin {Launcher(l), Child(l)}
      BY <1>1, <1>3, <1>5, <2>2 DEF HoldersAlive
    <2> QED BY <2>1, <2>2
  <1>10. OneInvocation' /\ HandedOver'
    BY <1>1, <1>3, <1>6 DEF OneInvocation, HandedOver
  <1>11. Roles'
    <2>1. daemon[l]
      BY <1>1, <1>3 DEF Roles
    <2> QED BY <1>1, <1>3, <1>6, <1>7, <2>1, ZenonT(60) DEF Roles, Active
  <1>12. FileNamesServer'
    <2> SUFFICES ASSUME NEW q \in Processes, stage'[q] \in {"setup", "serving"}
                 PROVE  pidFile' = q
      BY DEF FileNamesServer
    <2>1. stage[q] \in {"setup", "serving"}
      BY <1>5, <1>7 DEF Active
    <2> QED BY <1>1, <1>4, <2>1 DEF FileNamesServer
  <1>13. LaunchersHonest'
    BY <1>1, <1>3, <1>6 DEF LaunchersHonest
  <1> QED BY <1>8, <1>9, <1>10, <1>11, <1>12, <1>13 DEF DaemonInv

-----------------------------------------------------------------------------

LEMMA DaemonNextInv == DaemonInv /\ [DaemonNext]_daemonVars => DaemonInv'
  <1> SUFFICES ASSUME DaemonInv, [DaemonNext]_daemonVars PROVE DaemonInv'
    OBVIOUS
  <1>1. CASE \E l \in Launches : Start(l) \/ Fork(l) \/ Hear(l) \/ GiveUp(l)
    BY <1>1, StartInv, ForkInv, HearInv, GiveUpInv
  <1>2. CASE \E p \in Processes : WritePid(p) \/ Ready(p) \/ StopServer(p) \/ Kill(p)
    BY <1>2, ProcessInv
  <1>3. CASE UNCHANGED daemonVars
    BY <1>3 DEF daemonVars, DaemonInv, DaemonTypeOK, HoldersAlive, OneInvocation, Roles,
                HandedOver, FileNamesServer, LaunchersHonest
  <1> QED BY <1>1, <1>2, <1>3 DEF DaemonNext

LEMMA DaemonInvHonest == DaemonInv => OneHonestServer
  <1> SUFFICES ASSUME DaemonInv PROVE OneHonestServer
    OBVIOUS
  <1>1. \A p, q \in Processes : stage[p] \in Active /\ stage[q] \in Active => p[1] = q[1]
    BY DEF DaemonInv, HoldersAlive, OneInvocation
  <1>2. \A p \in Processes : stage[p] = "serving" => pidFile = p
    BY DEF DaemonInv, FileNamesServer
  <1>3. \A l \in {m \in Launches : daemon[m]} :
            /\ stage[Launcher(l)] = "ended" => l \in told
            /\ stage[Launcher(l)] = "failed" => stage[Child(l)] \in Gone \cup {"none"}
    BY DEF DaemonInv, LaunchersHonest
  <1> QED BY <1>1, <1>2, <1>3 DEF OneHonestServer

(***************************************************************************)
(* Of all invocations that use one configuration, the processes of one at  *)
(* most are past the lock, the PID file names the process that serves, and *)
(* a launcher that returned success or failure told the truth about its    *)
(* daemon (daemon/Lock.cpp, Detach.cpp, Readiness.cpp).                    *)
(***************************************************************************)
THEOREM OneServer == DaemonSpec => []OneHonestServer
  BY DaemonInitInv, DaemonNextInv, DaemonInvHonest, PTL DEF DaemonSpec

-----------------------------------------------------------------------------
(* The log *)

LogLines == [record : Nat] \cup [dropped : Nat, of : SUBSET Nat]

LogTypeOK ==
    /\ records \in Seq(Nat) /\ dropped \in Nat /\ stopping \in BOOLEAN
    /\ worker \in [step : {"wait", "report", "emit", "ended"}, dropped : Nat,
                   of : SUBSET Nat, value : Nat \cup {None}]
    /\ sink \in BOOLEAN /\ lines \in Seq(LogLines)
    /\ offered \in Nat /\ lost \subseteq 1..offered /\ uncounted \subseteq lost

\* What the worker holds, what waits in the queue, and what was dropped and is
\* in no report yet.
Held == IF worker.step \in {"report", "emit"} /\ worker.value # None THEN {worker.value} ELSE {}
Queued == {records[k] : k \in DOMAIN records}
Taken == IF worker.step = "report" THEN worker.of ELSE {}

InOrder ==
    /\ \A j, k \in DOMAIN records : j < k => records[j] < records[k]
    /\ \A v \in Held, q \in Queued : v < q
    /\ \A n \in Numbers, q \in Held \cup Queued : n < q
    /\ \A i, j \in RecordLines : i < j => lines[i].record < lines[j].record

\* Every record that was not lost is in one of the three places.
Accounted ==
    /\ Numbers \cup Held \cup Queued \subseteq (1..offered) \ lost
    /\ sink => (1..offered) \ lost \subseteq Numbers \cup Held \cup Queued

\* Every record that was lost is counted once.
Counted ==
    /\ IsFiniteSet(uncounted) /\ dropped = Cardinality(uncounted)
    /\ IsFiniteSet(Taken) /\ Taken \subseteq lost /\ Taken \cap uncounted = {}
    /\ worker.step = "report" => worker.dropped = Cardinality(worker.of)
    /\ \A i \in Reports : /\ lines[i].dropped = Cardinality(lines[i].of)
                          /\ lines[i].of \subseteq lost \ (Taken \cup uncounted)
    /\ \A i, j \in Reports : i # j => lines[i].of \cap lines[j].of = {}
    /\ sink => lost = Told \cup Taken \cup uncounted

EndedLast == worker.step = "ended" => stopping /\ records = <<>> /\ uncounted = {}

LogInv == LogTypeOK /\ InOrder /\ Accounted /\ Counted /\ EndedLast

LEMMA LineKinds ==
    ASSUME NEW l \in LogLines
    PROVE  /\ "dropped" \notin DOMAIN l <=> l \in [record : Nat]
           /\ "dropped" \in DOMAIN l <=> l \in [dropped : Nat, of : SUBSET Nat]
  BY DEF LogLines

LEMMA RecordWritten ==
    ASSUME LogTypeOK, NEW n \in Nat, lines' = Append(lines, [record |-> n])
    PROVE  /\ lines' \in Seq(LogLines)
           /\ Numbers' = Numbers \cup {n}
           /\ RecordLines' = RecordLines \cup {Len(lines) + 1}
           /\ Len(lines) \in Nat /\ DOMAIN lines = 1..Len(lines)
           /\ lines'[Len(lines) + 1].record = n
           /\ \A i \in DOMAIN lines : lines'[i] = lines[i]
           /\ Reports' = Reports
           /\ Told' = Told
  <1>1. lines \in Seq(LogLines) /\ [record |-> n] \in LogLines
    BY DEF LogTypeOK, LogLines
  <1>2. /\ lines' \in Seq(LogLines)
        /\ Len(lines) \in Nat /\ DOMAIN lines = 1..Len(lines)
        /\ DOMAIN lines' = DOMAIN lines \cup {Len(lines) + 1}
        /\ lines'[Len(lines) + 1] = [record |-> n]
        /\ \A i \in DOMAIN lines : lines'[i] = lines[i]
    BY <1>1
  <1>3. "dropped" \notin DOMAIN lines'[Len(lines) + 1] /\ lines'[Len(lines) + 1].record = n
    BY <1>2
  <1>4. Reports' = Reports
    BY <1>2, <1>3 DEF Reports
  <1>5. RecordLines' = RecordLines \cup {Len(lines) + 1}
    BY <1>2, <1>3, <1>4 DEF RecordLines, Reports
  <1>6. Numbers' = Numbers \cup {n}
    BY <1>2, <1>3, <1>5 DEF Numbers, RecordLines
  <1>7. Told' = Told
    BY <1>2, <1>4 DEF Told, Reports
  <1> QED BY <1>2, <1>3, <1>4, <1>5, <1>6, <1>7

LEMMA ReportWritten ==
    ASSUME LogTypeOK, NEW n \in Nat, NEW S \in SUBSET Nat,
           lines' = Append(lines, [dropped |-> n, of |-> S])
    PROVE  /\ lines' \in Seq(LogLines)
           /\ Numbers' = Numbers /\ RecordLines' = RecordLines
           /\ DOMAIN lines = 1..Len(lines) /\ Len(lines) + 1 \notin DOMAIN lines
           /\ \A i \in DOMAIN lines : lines'[i] = lines[i]
           /\ lines'[Len(lines) + 1] = [dropped |-> n, of |-> S]
           /\ Reports' = Reports \cup {Len(lines) + 1}
           /\ Told' = Told \cup S
  <1>1. lines \in Seq(LogLines) /\ [dropped |-> n, of |-> S] \in LogLines
    BY DEF LogTypeOK, LogLines
  <1>2. /\ lines' \in Seq(LogLines)
        /\ Len(lines) \in Nat /\ DOMAIN lines = 1..Len(lines)
        /\ DOMAIN lines' = DOMAIN lines \cup {Len(lines) + 1}
        /\ lines'[Len(lines) + 1] = [dropped |-> n, of |-> S]
        /\ \A i \in DOMAIN lines : lines'[i] = lines[i]
    BY <1>1
  <1>3. "dropped" \in DOMAIN lines'[Len(lines) + 1] /\ lines'[Len(lines) + 1].of = S
    BY <1>2
  <1>4. Reports' = Reports \cup {Len(lines) + 1}
    BY <1>2, <1>3 DEF Reports
  <1>5. RecordLines' = RecordLines
    BY <1>2, <1>3, <1>4 DEF RecordLines, Reports
  <1>6. Numbers' = Numbers
    BY <1>2, <1>3, <1>5 DEF Numbers, RecordLines
  <1>7. Told' = Told \cup S
    BY <1>2, <1>3, <1>4 DEF Told, Reports
  <1> QED BY <1>2, <1>3, <1>4, <1>5, <1>6, <1>7

-----------------------------------------------------------------------------

LEMMA LogInitInv == LogInit => LogInv
  <1> SUFFICES ASSUME LogInit PROVE LogInv
    OBVIOUS
  <1>1. records = <<>> /\ lines = <<>> /\ lost = {} /\ uncounted = {} /\ offered = 0 /\ dropped = 0
        /\ worker = [step |-> "wait", dropped |-> 0, of |-> {}, value |-> None]
    BY DEF LogInit
  <1>2. LogTypeOK
    <2>1. worker \in [step : {"wait", "report", "emit", "ended"}, dropped : Nat,
                      of : SUBSET Nat, value : Nat \cup {None}]
      BY <1>1
    <2>2. <<>> \in Seq(Nat) /\ <<>> \in Seq(LogLines)
      OBVIOUS
    <2>3. stopping = FALSE /\ sink = TRUE
      BY DEF LogInit
    <2> QED BY <1>1, <2>1, <2>2, <2>3 DEF LogTypeOK
  <1>3. Held = {} /\ Queued = {} /\ Taken = {} /\ Numbers = {} /\ Told = {} /\ Reports = {} /\ RecordLines = {}
    BY <1>1 DEF Held, Queued, Taken, Numbers, Told, Reports, RecordLines
  <1>4. InOrder /\ Accounted
    BY <1>1, <1>3 DEF InOrder, Accounted
  <1>5. Counted
    BY <1>1, <1>3, FS_EmptySet DEF Counted
  <1> QED BY <1>1, <1>2, <1>4, <1>5 DEF LogInv, EndedLast

\* What stays as it is when the lines and what the worker has taken do not change.
LEMMA WriteInv ==
    ASSUME LogInv, Write
    PROVE  LogInv'
  <1>1. LogTypeOK /\ InOrder /\ Accounted /\ Counted /\ EndedLast
    BY DEF LogInv
  <1>2. /\ ~stopping /\ offered' = offered + 1
        /\ UNCHANGED <<stopping, worker, sink, lines>>
    BY DEF Write
  <1>3. /\ Held' = Held /\ Taken' = Taken /\ Numbers' = Numbers /\ Told' = Told
        /\ Reports' = Reports /\ RecordLines' = RecordLines
    BY <1>2 DEF Held, Taken, Numbers, Told, Reports, RecordLines
  <1>4. offered \in Nat /\ offered + 1 \notin 1..offered /\ 1..(offered + 1) = (1..offered) \cup {offered + 1}
        /\ lost \subseteq 1..offered /\ uncounted \subseteq lost
    <2>1. offered \in Nat /\ lost \subseteq 1..offered /\ uncounted \subseteq lost
      BY <1>1 DEF LogTypeOK
    <2>2. offered + 1 \notin 1..offered
      BY <2>1
    <2>3. 1..(offered + 1) = (1..offered) \cup {offered + 1}
      BY <2>1
    <2> QED BY <2>1, <2>2, <2>3
  <1>5. EndedLast'
    BY <1>1, <1>2 DEF EndedLast
  <1>6. CASE Queue
    <2>1. records' = Append(records, offered + 1) /\ UNCHANGED <<dropped, lost, uncounted>>
      BY <1>6 DEF Queue
    <2>2. /\ records' \in Seq(Nat) /\ DOMAIN records' = DOMAIN records \cup {Len(records) + 1}
          /\ DOMAIN records = 1..Len(records) /\ Len(records) \in Nat
          /\ records'[Len(records) + 1] = offered + 1
          /\ \A k \in DOMAIN records : records'[k] = records[k]
      BY <1>1, <1>4, <2>1 DEF LogTypeOK
    <2>3. Queued' = Queued \cup {offered + 1}
      BY <2>2 DEF Queued
    <2>4. \A n \in Numbers \cup Held \cup Queued : n \in Nat /\ n < offered + 1
      BY <1>1, <1>4 DEF Accounted
    <2>5. LogTypeOK'
      BY <1>1, <1>2, <1>4, <2>1, <2>2 DEF LogTypeOK
    <2>6. InOrder'
      <3>1. \A j, k \in DOMAIN records' : j < k => records'[j] < records'[k]
        <4> SUFFICES ASSUME NEW j \in DOMAIN records', NEW k \in DOMAIN records', j < k
                     PROVE  records'[j] < records'[k]
          OBVIOUS
        <4>1. j \in DOMAIN records
          BY <2>2
        <4>2. CASE k \in DOMAIN records
          BY <1>1, <2>2, <4>1, <4>2 DEF InOrder
        <4>3. CASE k = Len(records) + 1
          BY <2>2, <2>4, <4>1, <4>3 DEF Queued
        <4> QED BY <2>2, <4>2, <4>3
      <3> QED BY <1>1, <1>2, <1>3, <2>3, <2>4, <3>1 DEF InOrder
    <2>7. Accounted'
      BY <1>1, <1>2, <1>3, <1>4, <2>1, <2>3 DEF Accounted
    <2>8. Counted'
      BY <1>1, <1>2, <1>3, <2>1 DEF Counted
    <2> QED BY <1>5, <2>5, <2>6, <2>7, <2>8 DEF LogInv
  <1>7. CASE Drop
    <2>1. /\ dropped' = dropped + 1 /\ lost' = lost \cup {offered + 1}
          /\ uncounted' = uncounted \cup {offered + 1} /\ UNCHANGED records
      BY <1>7 DEF Drop
    <2>2. LogTypeOK'
      BY <1>1, <1>2, <1>4, <2>1 DEF LogTypeOK
    <2>3. Queued' = Queued
      BY <2>1 DEF Queued
    <2>4. InOrder'
      BY <1>1, <1>2, <1>3, <2>1, <2>3 DEF InOrder
    <2>5. Accounted'
      BY <1>1, <1>2, <1>3, <1>4, <2>1, <2>3 DEF Accounted
    <2>6. IsFiniteSet(uncounted') /\ dropped' = Cardinality(uncounted')
      BY <1>1, <1>4, <2>1, FS_AddElement DEF Counted
    <2>7. Counted'
      BY <1>1, <1>2, <1>3, <1>4, <2>1, <2>6 DEF Counted
    <2> QED BY <1>5, <2>2, <2>4, <2>5, <2>7 DEF LogInv
  <1> QED BY <1>6, <1>7 DEF Write

LEMMA TakeInv ==
    ASSUME LogInv, Take
    PROVE  LogInv'
  <1>1. LogTypeOK /\ InOrder /\ Accounted /\ Counted /\ EndedLast
    BY DEF LogInv
  <1>2. /\ worker.step = "wait" /\ dropped' = 0 /\ uncounted' = {}
        /\ records' = IF records = <<>> THEN records ELSE Tail(records)
        /\ UNCHANGED <<stopping, sink, lines, offered, lost>>
    BY DEF Take
  <1>3. Numbers' = Numbers /\ Told' = Told /\ Reports' = Reports /\ RecordLines' = RecordLines
    BY <1>2 DEF Numbers, Told, Reports, RecordLines
  <1>4. Held = {} /\ Taken = {}
    BY <1>2 DEF Held, Taken
  <1>5. IsFiniteSet({}) /\ Cardinality({}) = 0
    BY FS_EmptySet
  <1>6. CASE MayEnd
    <2>1. worker' = [worker EXCEPT !.step = "ended"] /\ records = <<>> /\ records' = records
          /\ dropped = 0 /\ stopping
      BY <1>2, <1>6 DEF Take, MayEnd
    <2>2. worker' \in [step : {"wait", "report", "emit", "ended"}, dropped : Nat,
                       of : SUBSET Nat, value : Nat \cup {None}] /\ worker'.step = "ended"
      BY <1>1, <2>1 DEF LogTypeOK
    <2>3. uncounted = {}
      BY <1>1, <2>1, FS_EmptySet DEF Counted
    <2>4. LogTypeOK'
      BY <1>1, <1>2, <2>1, <2>2 DEF LogTypeOK
    <2>5. Held' = {} /\ Taken' = {} /\ Queued' = Queued
      BY <2>1, <2>2 DEF Held, Taken, Queued
    <2>6. InOrder'
      BY <1>1, <1>2, <1>3, <1>4, <2>1, <2>5 DEF InOrder
    <2>7. Accounted'
      BY <1>1, <1>2, <1>3, <1>4, <2>5 DEF Accounted
    <2>8. Counted'
      BY <1>1, <1>2, <1>3, <1>4, <1>5, <2>1, <2>2, <2>3, <2>5 DEF Counted
    <2> QED BY <1>2, <2>1, <2>4, <2>6, <2>7, <2>8 DEF LogInv, EndedLast
  <1>7. CASE ~MayEnd
    <2> DEFINE v == IF records = <<>> THEN None ELSE Head(records)
    <2>1. worker' = [step |-> "report", dropped |-> dropped, of |-> uncounted, value |-> v]
      BY <1>2, <1>7 DEF Take
    <2>2. /\ records \in Seq(Nat) /\ Len(records) \in Nat
          /\ records # <<>> => Head(records) = records[1] /\ 1 \in DOMAIN records
      BY <1>1 DEF LogTypeOK
    <2>3. v \in Nat \cup {None}
      BY <2>2
    <2>4. records # <<>> =>
              /\ records' \in Seq(Nat) /\ v = records[1] /\ v # None
              /\ DOMAIN records' = 1..(Len(records) - 1)
              /\ \A k \in DOMAIN records' : k + 1 \in DOMAIN records /\ records'[k] = records[k + 1]
      BY <1>2, <2>2, NoneIsNoRecord
    <2>5. LogTypeOK'
      BY <1>1, <1>2, <2>1, <2>3, <2>4 DEF LogTypeOK
    <2>6. Held' = IF records = <<>> THEN {} ELSE {records[1]}
      BY <2>1, <2>4 DEF Held
    <2>7. Held' \cup Queued' = Queued
      <3>1. CASE records = <<>>
        BY <1>2, <2>6, <3>1 DEF Queued
      <3>2. CASE records # <<>>
        <4>1. DOMAIN records = 1..Len(records) /\ Len(records) # 0
          BY <2>2, <3>2
        <4>2. \A k \in DOMAIN records : k = 1 \/ (k - 1 \in DOMAIN records' /\ records'[k - 1] = records[k])
          BY <2>2, <2>4, <3>2, <4>1
        <4> QED BY <2>2, <2>4, <2>6, <3>2, <4>2 DEF Queued
      <3> QED BY <3>1, <3>2
    <2>8. InOrder'
      <3>1. \A j, k \in DOMAIN records' : j < k => records'[j] < records'[k]
        BY <1>1, <1>2, <2>2, <2>4 DEF InOrder
      <3>2. \A a \in Held', q \in Queued' : a < q
        BY <1>1, <1>2, <2>2, <2>4, <2>6 DEF InOrder, Queued
      <3>3. \A n \in Numbers', q \in Held' \cup Queued' : n < q
        BY <1>1, <1>3, <2>7 DEF InOrder
      <3>4. \A i, j \in RecordLines' : i < j => lines'[i].record < lines'[j].record
        BY <1>1, <1>2, <1>3 DEF InOrder
      <3> QED BY <3>1, <3>2, <3>3, <3>4 DEF InOrder
    <2>9. Accounted'
      <3>1. Numbers' \cup Held' \cup Queued' = Numbers \cup Held \cup Queued
        BY <1>3, <1>4, <2>7
      <3> QED BY <1>1, <1>2, <3>1 DEF Accounted
    <2>10. Taken' = uncounted
      BY <2>1 DEF Taken
    <2>11. Counted'
      BY <1>1, <1>2, <1>3, <1>4, <1>5, <2>1, <2>10 DEF Counted, LogTypeOK
    <2> QED BY <2>1, <2>5, <2>8, <2>9, <2>11 DEF LogInv, EndedLast
  <1> QED BY <1>6, <1>7

\* Steps of the worker that write a line or none, and then hold nothing.
LEMMA EmitRecordInv ==
    ASSUME LogInv, EmitRecord
    PROVE  LogInv'
  <1>1. LogTypeOK /\ InOrder /\ Accounted /\ Counted /\ EndedLast
    BY DEF LogInv
  <1>2. /\ worker.step = "emit" /\ worker' = [worker EXCEPT !.step = "wait"]
        /\ UNCHANGED <<records, dropped, stopping, offered, lost, uncounted>>
    BY DEF EmitRecord
  <1>3. worker' \in [step : {"wait", "report", "emit", "ended"}, dropped : Nat,
                     of : SUBSET Nat, value : Nat \cup {None}] /\ worker'.step = "wait"
    BY <1>1, <1>2 DEF LogTypeOK
  <1>4. Held' = {} /\ Taken' = {} /\ Taken = {} /\ Queued' = Queued
    BY <1>2, <1>3 DEF Held, Taken, Queued
  <1>5. EndedLast'
    BY <1>3 DEF EndedLast
  <1>6. CASE UNCHANGED lines /\ ((sink' = sink /\ worker.value = None) \/ ~sink')
             /\ sink' \in BOOLEAN
    <2>1. Numbers' = Numbers /\ Told' = Told /\ Reports' = Reports /\ RecordLines' = RecordLines
      BY <1>6 DEF Numbers, Told, Reports, RecordLines
    <2>2. LogTypeOK'
      BY <1>1, <1>2, <1>3, <1>6 DEF LogTypeOK
    <2>3. InOrder'
      BY <1>1, <1>2, <1>4, <1>6, <2>1 DEF InOrder
    <2>4. sink' => sink /\ Held = {}
      BY <1>6 DEF Held
    <2>5. Accounted'
      BY <1>1, <1>2, <1>4, <2>1, <2>4 DEF Accounted
    <2>6. Counted'
      BY <1>1, <1>2, <1>3, <1>4, <1>6, <2>1, <2>4 DEF Counted
    <2> QED BY <1>5, <2>2, <2>3, <2>5, <2>6 DEF LogInv
  <1>7. CASE /\ lines' = Append(lines, [record |-> worker.value]) /\ worker.value # None
             /\ sink' = sink
    <2>1. worker.value \in Nat /\ Held = {worker.value}
      BY <1>1, <1>2, <1>7 DEF LogTypeOK, Held
    <2>2. /\ lines' \in Seq(LogLines)
          /\ Numbers' = Numbers \cup {worker.value}
          /\ RecordLines' = RecordLines \cup {Len(lines) + 1}
          /\ Len(lines) \in Nat /\ DOMAIN lines = 1..Len(lines)
          /\ lines'[Len(lines) + 1].record = worker.value
          /\ \A i \in DOMAIN lines : lines'[i] = lines[i]
          /\ Reports' = Reports
          /\ Told' = Told
      BY <1>1, <1>7, <2>1, RecordWritten
    <2>3. LogTypeOK'
      BY <1>1, <1>2, <1>3, <1>7, <2>2 DEF LogTypeOK
    <2>4. InOrder'
      <3>1. \A i, j \in RecordLines' : i < j => lines'[i].record < lines'[j].record
        <4> SUFFICES ASSUME NEW i \in RecordLines', NEW j \in RecordLines', i < j
                     PROVE  lines'[i].record < lines'[j].record
          OBVIOUS
        <4>1. RecordLines \subseteq DOMAIN lines
          BY DEF RecordLines
        <4>2. i \in RecordLines /\ i \in DOMAIN lines
          BY <2>2, <4>1
        <4>3. CASE j \in RecordLines
          BY <1>1, <2>2, <4>1, <4>2, <4>3 DEF InOrder
        <4>4. CASE j = Len(lines) + 1
          <5>1. lines[i].record \in Numbers
            BY <4>2 DEF Numbers
          <5> QED BY <1>1, <2>1, <2>2, <4>2, <4>4, <5>1 DEF InOrder
        <4> QED BY <2>2, <4>3, <4>4
      <3>2. \A n \in Numbers', q \in Queued' : n < q
        BY <1>1, <1>4, <2>1, <2>2 DEF InOrder
      <3> QED BY <1>1, <1>2, <1>4, <3>1, <3>2 DEF InOrder
    <2>5. Accounted'
      <3>1. Numbers' \cup Held' \cup Queued' = Numbers \cup Held \cup Queued
        BY <1>4, <2>1, <2>2
      <3> QED BY <1>1, <1>2, <1>7, <3>1 DEF Accounted
    <2>6. Counted'
      <3>1. Reports \subseteq DOMAIN lines
        BY DEF Reports
      <3> QED BY <1>1, <1>2, <1>3, <1>4, <1>7, <2>2, <3>1 DEF Counted
    <2> QED BY <1>5, <2>3, <2>4, <2>5, <2>6 DEF LogInv
  <1> QED BY <1>1, <1>6, <1>7 DEF EmitRecord, Emit, LogTypeOK

LEMMA ReportInv ==
    ASSUME LogInv, Report
    PROVE  LogInv'
  <1>1. LogTypeOK /\ InOrder /\ Accounted /\ Counted /\ EndedLast
    BY DEF LogInv
  <1>2. /\ worker.step = "report" /\ worker' = [worker EXCEPT !.step = "emit"]
        /\ UNCHANGED <<records, dropped, stopping, offered, lost, uncounted>>
    BY DEF Report
  <1>3. /\ worker' \in [step : {"wait", "report", "emit", "ended"}, dropped : Nat,
                         of : SUBSET Nat, value : Nat \cup {None}]
        /\ worker'.step = "emit" /\ worker'.value = worker.value
        /\ worker.dropped \in Nat /\ worker.of \in SUBSET Nat
    BY <1>1, <1>2 DEF LogTypeOK
  <1>4. Held' = Held /\ Taken' = {} /\ Taken = worker.of /\ Queued' = Queued
    BY <1>2, <1>3 DEF Held, Taken, Queued
  <1>5. EndedLast'
    BY <1>3 DEF EndedLast
  <1>6. CASE UNCHANGED lines /\ ((sink' = sink /\ worker.dropped = 0) \/ ~sink')
             /\ sink' \in BOOLEAN
    <2>1. Numbers' = Numbers /\ Told' = Told /\ Reports' = Reports /\ RecordLines' = RecordLines
      BY <1>6 DEF Numbers, Told, Reports, RecordLines
    <2>2. LogTypeOK'
      BY <1>1, <1>2, <1>3, <1>6 DEF LogTypeOK
    <2>3. InOrder'
      BY <1>1, <1>2, <1>4, <1>6, <2>1 DEF InOrder
    <2>4. sink' => sink /\ Taken = {}
      BY <1>1, <1>2, <1>4, <1>6, FS_EmptySet DEF Counted
    <2>5. Accounted'
      BY <1>1, <1>2, <1>4, <2>1, <2>4 DEF Accounted
    <2>6. Counted'
      BY <1>1, <1>2, <1>3, <1>4, <1>6, <2>1, <2>4, FS_EmptySet DEF Counted
    <2> QED BY <1>5, <2>2, <2>3, <2>5, <2>6 DEF LogInv
  <1>7. CASE /\ lines' = Append(lines, [dropped |-> worker.dropped, of |-> worker.of])
             /\ sink' = sink
    <2>1. /\ lines' \in Seq(LogLines)
          /\ Numbers' = Numbers /\ RecordLines' = RecordLines
          /\ DOMAIN lines = 1..Len(lines) /\ Len(lines) + 1 \notin DOMAIN lines
          /\ \A i \in DOMAIN lines : lines'[i] = lines[i]
          /\ lines'[Len(lines) + 1] = [dropped |-> worker.dropped, of |-> worker.of]
          /\ Reports' = Reports \cup {Len(lines) + 1}
          /\ Told' = Told \cup worker.of
      BY <1>1, <1>3, <1>7, ReportWritten
    <2>2. LogTypeOK'
      BY <1>1, <1>2, <1>3, <1>7, <2>1 DEF LogTypeOK
    <2>3. InOrder'
      <3>1. RecordLines \subseteq DOMAIN lines
        BY DEF RecordLines
      <3> QED BY <1>1, <1>2, <1>4, <2>1, <3>1 DEF InOrder
    <2>4. Accounted'
      BY <1>1, <1>2, <1>4, <1>7, <2>1 DEF Accounted
    <2>5. Counted'
      <3>1. Reports \subseteq DOMAIN lines /\ Len(lines) + 1 \notin Reports
        BY <2>1 DEF Reports
      <3>2. \A i \in Reports' : /\ lines'[i].dropped = Cardinality(lines'[i].of)
                                /\ lines'[i].of \subseteq lost' \ (Taken' \cup uncounted')
        BY <1>1, <1>2, <1>4, <2>1, <3>1 DEF Counted
      <3>3. \A i, j \in Reports' : i # j => lines'[i].of \cap lines'[j].of = {}
        BY <1>1, <1>4, <2>1, <3>1 DEF Counted
      <3>4. sink' => lost' = Told' \cup Taken' \cup uncounted'
        BY <1>1, <1>2, <1>4, <1>7, <2>1 DEF Counted
      <3> QED BY <1>1, <1>2, <1>3, <1>4, <3>2, <3>3, <3>4, FS_EmptySet DEF Counted
    <2> QED BY <1>5, <2>2, <2>3, <2>4, <2>5 DEF LogInv
  <1> QED BY <1>1, <1>6, <1>7 DEF Report, Emit, LogTypeOK

-----------------------------------------------------------------------------

LEMMA LogNextInv == LogInv /\ [LogNext]_logVars => LogInv'
  <1> SUFFICES ASSUME LogInv, [LogNext]_logVars PROVE LogInv'
    OBVIOUS
  <1>1. CASE Destroy \/ UNCHANGED logVars
    <2>1. /\ UNCHANGED <<records, dropped, worker, sink, lines, offered, lost, uncounted>>
          /\ stopping => stopping'
          /\ stopping' \in BOOLEAN
      BY <1>1 DEF Destroy, logVars, LogInv, LogTypeOK
    <2>2. /\ Held' = Held /\ Queued' = Queued /\ Taken' = Taken /\ Numbers' = Numbers /\ Told' = Told
          /\ Reports' = Reports /\ RecordLines' = RecordLines
      BY <2>1 DEF Held, Queued, Taken, Numbers, Told, Reports, RecordLines
    <2>3. LogTypeOK' /\ EndedLast'
      BY <2>1 DEF LogInv, LogTypeOK, EndedLast
    <2>4. InOrder' /\ Accounted' /\ Counted'
      BY <2>1, <2>2 DEF LogInv, InOrder, Accounted, Counted
    <2> QED BY <2>3, <2>4 DEF LogInv
  <1> QED BY <1>1, WriteInv, TakeInv, ReportInv, EmitRecordInv DEF LogNext

LEMMA LogInvAccounts == LogInv => LogAccounts
  <1> SUFFICES ASSUME LogInv PROVE LogAccounts
    OBVIOUS
  <1>1. /\ \A i, j \in RecordLines : i < j => lines[i].record < lines[j].record
        /\ \A i \in Reports : lines[i].dropped = Cardinality(lines[i].of) /\ lines[i].of \subseteq lost
        /\ \A i, j \in Reports : i # j => lines[i].of \cap lines[j].of = {}
    BY DEF LogInv, InOrder, Counted
  <1>2. worker.step = "ended" /\ sink => Numbers = (1..offered) \ lost /\ Told = lost
    <2> SUFFICES ASSUME worker.step = "ended", sink
                 PROVE  Numbers = (1..offered) \ lost /\ Told = lost
      OBVIOUS
    <2>1. Held = {} /\ Taken = {} /\ uncounted = {} /\ Queued = {}
      BY DEF Held, Taken, Queued, LogInv, EndedLast
    <2> QED BY <2>1 DEF LogInv, Accounted, Counted
  <1> QED BY <1>1, <1>2 DEF LogAccounts

(***************************************************************************)
(* Whatever limit the queue has and however threads, worker and a failing  *)
(* file interleave, no record disappears without being counted, and none   *)
(* is written twice or out of order (logging/Logger.cpp, Worker.cpp).      *)
(***************************************************************************)
THEOREM LogIsComplete == LogSpec => []LogAccounts
  BY LogInitInv, LogNextInv, LogInvAccounts, PTL DEF LogSpec

=============================================================================
