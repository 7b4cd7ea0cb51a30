------------------------------- MODULE Daemon -------------------------------
(***************************************************************************)
(* The life of server processes that use one configuration.  The lock on   *)
(* the PID file belongs to an open file that a forked child shares with    *)
(* its parent: it is free when both have closed it.  A launched daemon     *)
(* tells its parent through a pipe when it serves; the parent waits for    *)
(* that, for its end, or for sixty seconds.                                *)
(***************************************************************************)
EXTENDS NoValue
LOCAL INSTANCE Naturals
LOCAL INSTANCE FiniteSets

CONSTANTS
    Launches,       \* invocations of the serve command
    MaxKills        \* bound on processes killed from outside

VARIABLES
    stage,          \* per process: where it is in its life
    daemon,         \* per invocation: was --daemon given?
    holders,        \* processes with the lock of the PID file open
    owners,         \* processes that empty the PID file when they leave
    pidFile,        \* the process that the PID file names, or None
    told,           \* invocations whose daemon wrote to the pipe
    kills

daemonVars == <<stage, daemon, holders, owners, pidFile, told, kills>>

Launcher(l) == <<l, "launcher">>
Child(l) == <<l, "child">>
Processes == Launches \X {"launcher", "child"}
Gone == {"ended", "failed", "killed"}
Active == {"locked", "detaching", "setup", "serving"}

DaemonInit ==
    /\ stage = [p \in Processes |-> "none"]
    /\ daemon \in [Launches -> BOOLEAN]
    /\ holders = {} /\ owners = {} /\ pidFile = None /\ told = {} /\ kills = 0

\* The end of a process by return: the owner empties the file first.
Leave(p, as) ==
    /\ stage' = [stage EXCEPT ![p] = as]
    /\ pidFile' = IF p \in owners THEN None ELSE pidFile
    /\ holders' = holders \ {p}
    /\ owners' = owners \ {p}

Start(l) ==
    /\ stage[Launcher(l)] = "none"
    /\ IF holders = {}
       THEN /\ stage' = [stage EXCEPT ![Launcher(l)] = "locked"]
            /\ holders' = {Launcher(l)} /\ owners' = {Launcher(l)}
       ELSE /\ stage' = [stage EXCEPT ![Launcher(l)] = "failed"]
            /\ UNCHANGED <<holders, owners>>
    /\ UNCHANGED <<daemon, pidFile, told, kills>>

\* Mutant of Inherits: launcher and child both feel responsible for the file.
InheritsBoth(l) == owners \cup {Child(l)}
Inherits(l) == {Child(l)}
Fork(l) ==
    /\ stage[Launcher(l)] = "locked" /\ daemon[l]
    /\ \/ /\ stage' = [stage EXCEPT ![Launcher(l)] = "waiting", ![Child(l)] = "detaching"]
          /\ holders' = holders \cup {Child(l)}
          /\ owners' = Inherits(l)
          /\ UNCHANGED pidFile
       \/ Leave(Launcher(l), "failed")
    /\ UNCHANGED <<daemon, told, kills>>

\* The server itself, or its detached child, writes its id into the file.
WritePid(p) ==
    /\ stage[p] = IF daemon[p[1]] THEN "detaching" ELSE "locked"
    /\ \/ /\ stage' = [stage EXCEPT ![p] = "setup"]
          /\ pidFile' = p
          /\ UNCHANGED <<holders, owners>>
       \/ Leave(p, "failed")
    /\ UNCHANGED <<daemon, told, kills>>

\* Listener, watcher and settings are in place, and the parent is told; with
\* nobody at the other end of the pipe the daemon gives up.
Ready(p) ==
    /\ stage[p] = "setup"
    /\ \/ /\ daemon[p[1]] => stage[Launcher(p[1])] = "waiting"
          /\ stage' = [stage EXCEPT ![p] = "serving"]
          /\ told' = IF daemon[p[1]] THEN told \cup {p[1]} ELSE told
          /\ UNCHANGED <<pidFile, holders, owners>>
       \/ Leave(p, "failed") /\ UNCHANGED told
    /\ UNCHANGED <<daemon, kills>>

StopServer(p) ==
    /\ stage[p] = "serving"
    /\ Leave(p, "ended")
    /\ UNCHANGED <<daemon, told, kills>>

-----------------------------------------------------------------------------
(* The launcher waits *)

Hear(l) ==
    /\ stage[Launcher(l)] = "waiting" /\ l \in told
    /\ Leave(Launcher(l), "ended")
    /\ UNCHANGED <<daemon, told, kills>>

\* After the time, or when the pipe is closed without a word, the child is
\* killed and waited for.
GiveUp(l) ==
    /\ stage[Launcher(l)] = "waiting"
    /\ stage' = [stage EXCEPT ![Launcher(l)] = "failed",
                              ![Child(l)] = IF @ \in Gone THEN @ ELSE "killed"]
    /\ holders' = holders \ {Launcher(l), Child(l)}
    /\ owners' = owners \ {Launcher(l), Child(l)}
    /\ pidFile' = IF Launcher(l) \in owners THEN None ELSE pidFile
    /\ UNCHANGED <<daemon, told, kills>>

\* A kill from outside closes the files and empties nothing.
Kill(p) ==
    /\ kills < MaxKills /\ kills' = kills + 1
    /\ stage[p] \in Active \cup {"waiting"}
    /\ stage' = [stage EXCEPT ![p] = "killed"]
    /\ holders' = holders \ {p}
    /\ owners' = owners \ {p}
    /\ UNCHANGED <<daemon, pidFile, told>>

DaemonNext ==
    \/ \E l \in Launches : Start(l) \/ Fork(l) \/ Hear(l) \/ GiveUp(l)
    \/ \E p \in Processes : WritePid(p) \/ Ready(p) \/ StopServer(p) \/ Kill(p)

DaemonSpec == DaemonInit /\ [][DaemonNext]_daemonVars

-----------------------------------------------------------------------------
(* One server at a time: processes of two invocations are never both past   *)
(* the lock, the PID file names the one that serves, and a launcher that    *)
(* reports success or failure has told the truth about its daemon.          *)
OneHonestServer ==
    /\ \A p, q \in Processes : stage[p] \in Active /\ stage[q] \in Active => p[1] = q[1]
    /\ \A p \in Processes : stage[p] = "serving" => pidFile = p
    /\ \A l \in {m \in Launches : daemon[m]} :
        /\ stage[Launcher(l)] = "ended" => l \in told
        /\ stage[Launcher(l)] = "failed" => stage[Child(l)] \in Gone \cup {"none"}
=============================================================================
