------------------------------ MODULE Watcher ------------------------------
(***************************************************************************)
(* The repository watcher (apis/watch: Watcher::Impl, update, the          *)
(* checkpoint of Snapshot) and what it watches.                            *)
(*                                                                         *)
(* The io_context thread reads inotify records, arms a debounce timer and  *)
(* a recovery timer, and runs one cycle at a time: an import job, then an  *)
(* extraction job.  A scanner thread reads the catalog, the clone and its  *)
(* compilation database, and posts what it found.  A fingerprint of the    *)
(* inputs of the last successful cycle is kept on disk, so that a restart  *)
(* can skip the first cycle.  Editors, git and the catalog's other users   *)
(* change all of this at any time.                                         *)
(*                                                                         *)
(* Abstractions: one clone with one directory, which holds a source and a  *)
(* compilation database; a content is a number that an edit makes larger;  *)
(* the facts and the imported commands are the contents they were made     *)
(* from.  The queue of jobs is JobQueue: here a job is refused, fails or   *)
(* succeeds.  Warnings, ignore rules and control files are left out.       *)
(***************************************************************************)
EXTENDS Naturals, Sequences

CONSTANTS
    MaxBuffered,  \* events kept in pendingEvents (4096)
    Disturbed,    \* the clone may change between its scan and its watch
    MaxEdits,     \* edits of a behaviour (bound of the model)
    MaxMoves,     \* changes of the registration or of the directory, and
                  \* calls of reconcile (bound of the model)
    MaxFaults,    \* operations that fail (bound of the model)
    MaxHalts      \* stops of the watcher (bound of the model)

ASSUME WatcherAssumption ==
    /\ MaxBuffered \in Nat \ {0}
    /\ Disturbed \in BOOLEAN
    /\ MaxEdits \in Nat
    /\ MaxMoves \in Nat
    /\ MaxFaults \in Nat
    /\ MaxHalts \in Nat

VARIABLES
    disk,         \* the content of the two files
    root,         \* the clone: "unregistered", or registered and its
                  \* directory "present" or "missing"
    facts,        \* the contents that the facts, and the stored commands,
                  \* were made from
    saved,        \* the signature in the checkpoint file, or NoSnapshot
    leftover,     \* jobs of an earlier watcher that the queue still holds
    boot,         \* "off"; "discovered": start() has scanned; "on": running
    attached,     \* watches holds the directory
    kernel,       \* the inotify records that wait to be read
    dirty,        \* dirty
    debounce,     \* the debounce timer is armed
    pendingEvents,\* pendingEvents.size()
    needsScan,    \* needsScan
    scan,         \* what the scanner thread does, or has posted
    snapshot,     \* snapshot
    active,       \* active
    job,          \* the job of the cycle that the queue holds
    planned,      \* the compilation database that the plan was built from
    checkpointPending, \* checkpointPending
    resumed,      \* resumed
    failed,       \* error is not empty
    spent         \* counters of the bounds

diskVars == <<disk, root, facts, saved, leftover>>

eventVars == <<dirty, debounce, pendingEvents, needsScan>>

watchVars == <<attached, kernel>>

cycleVars == <<active, job, planned, checkpointPending, resumed, failed>>

watcherVars == <<diskVars, boot, watchVars, eventVars, scan, snapshot, cycleVars, spent>>

Files == {"source", "database"}

Nothing == 0

Records == {"saved", "ignored", "overflow"}

\* A value that no scan of the clone has.
NoSnapshot == [registered |-> FALSE, noticed |-> TRUE, compiled |-> Nothing,
               source |-> Nothing, database |-> Nothing]

NoScan == [step |-> "idle", force |-> FALSE, changes |-> FALSE, found |-> FALSE,
           refresh |-> FALSE, seen |-> NoSnapshot, outcome |-> "ok"]

Running == boot = "on"

Scanning == scan.step # "idle"

Registered == root # "unregistered"

Spend(counter, max) ==
    /\ spent[counter] < max
    /\ spent' = [spent EXCEPT ![counter] = @ + 1]

\* An operation fails: at most MaxFaults times.
Fault == Spend("faults", MaxFaults)

-----------------------------------------------------------------------------

Init ==
    /\ disk = [f \in Files |-> 1]
    /\ root \in {"unregistered", "present", "missing"}
    /\ facts = [f \in Files |-> Nothing]
    /\ saved = NoSnapshot /\ leftover = <<>>
    /\ boot = "off"
    /\ attached = FALSE /\ kernel = {}
    /\ dirty = FALSE /\ debounce = FALSE /\ pendingEvents = 0 /\ needsScan = FALSE
    /\ scan = NoScan /\ snapshot = NoSnapshot
    /\ active = FALSE /\ job = "none" /\ planned = Nothing
    /\ checkpointPending = FALSE /\ resumed = FALSE /\ failed = FALSE
    /\ spent = [c \in {"edits", "moves", "faults", "halts"} |-> 0]

-----------------------------------------------------------------------------
\* The world outside.

\* The kernel still reports what happens in the directory.
Alive == attached /\ "ignored" \notin kernel

\* A scan has read the clone, and its directory is not yet watched.
Unattached ==
    \/ boot = "discovered"
    \/ scan.step \in {"plan", "posted"} /\ scan.found /\ ~Alive

(***************************************************************************)
(* A file is saved.  The record may find the kernel's queue full; without  *)
(* a watch there is no record.                                             *)
(***************************************************************************)
Edit(f) ==
    /\ Disturbed \/ ~Unattached
    /\ spent.edits < MaxEdits
    /\ disk' = [disk EXCEPT ![f] = @ + 1]
    /\ \/ /\ kernel' = IF Alive THEN kernel \cup {"saved"} ELSE kernel
          /\ spent' = [spent EXCEPT !.edits = @ + 1]
       \/ /\ Alive /\ spent.faults < MaxFaults
          /\ kernel' = kernel \cup {"overflow"}
          /\ spent' = [spent EXCEPT !.edits = @ + 1, !.faults = @ + 1]
    /\ UNCHANGED <<root, leftover, facts, saved, boot, attached, eventVars, scan,
                   snapshot, cycleVars>>

(***************************************************************************)
(* The registration changes, or the directory goes or comes back.  With    *)
(* the directory goes its watch, and the kernel says so.                   *)
(***************************************************************************)
Move ==
    /\ Disturbed \/ ~Unattached
    /\ Spend("moves", MaxMoves)
    /\ root' \in {"unregistered", "present", "missing"} \ {root}
    /\ kernel' = IF Alive /\ root' = "missing" THEN kernel \cup {"ignored"} ELSE kernel
    /\ UNCHANGED <<disk, leftover, facts, saved, boot, attached, eventVars, scan,
                   snapshot, cycleVars>>

-----------------------------------------------------------------------------
\* Start and stop.

\* What discover finds for a catalog that was read as registered, compiled.
Discovered(registered, compiled) ==
    LET there == registered /\ root # "missing"
    IN  [registered |-> registered,
         noticed |-> registered /\ ~there,
         compiled |-> compiled,
         source |-> IF there THEN disk.source ELSE Nothing,
         database |-> IF there THEN disk.database ELSE Nothing]

\* The scan lists the directory; and the directory is still there.
Wanted(seen) == seen.registered /\ ~seen.noticed

Attachable(seen) == Wanted(seen) /\ root # "missing"

\* restored(): the signature matches, and what it stands for is indexed.
Restored(seen) ==
    /\ ~seen.noticed
    /\ saved = seen
    /\ Attachable(seen) => facts.source # Nothing

(***************************************************************************)
(* start(): the clone is scanned, then its directory is watched, then the  *)
(* checkpoint is compared; a scan follows unless the checkpoint matches.   *)
(***************************************************************************)
StartDiscovers ==
    /\ boot = "off"
    /\ boot' = "discovered"
    /\ snapshot' = Discovered(Registered, facts.database)
    /\ UNCHANGED <<diskVars, watchVars, eventVars, scan, cycleVars, spent>>

(***************************************************************************)
(* applyScan: a directory that has gone is skipped and asks for a scan.    *)
(* Of an old watch that is gone, the records are read in vain.             *)
(***************************************************************************)
Attach(seen) ==
    /\ attached' = Attachable(seen)
    /\ kernel' = IF Attachable(seen) /\ Alive THEN kernel ELSE kernel \cap {"overflow"}

\* Mutant of SkippedWatch: a directory that has gone is forgotten.
SkippedNever(seen) == FALSE

SkippedWatch(seen) == Wanted(seen) /\ ~Attachable(seen)

StartWatches ==
    /\ boot = "discovered"
    /\ boot' = "on"
    /\ Attach(snapshot)
    /\ resumed' = Restored(snapshot)
    /\ needsScan' = FALSE
    /\ scan' = IF ~Restored(snapshot) /\ snapshot.registered
               THEN [NoScan EXCEPT !.step = "catalog", !.force = TRUE]
               ELSE NoScan
    /\ UNCHANGED <<diskVars, dirty, debounce, pendingEvents, snapshot, active, job,
                   planned, checkpointPending, failed, spent>>

(***************************************************************************)
(* stop() and a new watcher: after a failed read, with new settings, or in *)
(* a new process.  A scan under way posts in vain; disk and checkpoint     *)
(* outlive the watcher, and so does its job, unless the process ends.      *)
(***************************************************************************)
Halt ==
    /\ boot # "off"
    /\ Spend("halts", MaxHalts)
    /\ boot' = "off"
    /\ \/ leftover' = <<>>
       \/ /\ job \in {"import", "extract"}
          /\ leftover' = Append(leftover, [job |-> job, planned |-> planned])
       \/ job \notin {"import", "extract"} /\ UNCHANGED leftover
    /\ attached' = FALSE /\ kernel' = {}
    /\ dirty' = FALSE /\ debounce' = FALSE /\ pendingEvents' = 0 /\ needsScan' = FALSE
    /\ scan' = NoScan /\ snapshot' = NoSnapshot
    /\ active' = FALSE /\ job' = "none" /\ planned' = Nothing
    /\ checkpointPending' = FALSE /\ resumed' = FALSE /\ failed' = FALSE
    /\ UNCHANGED <<disk, root, facts, saved>>

-----------------------------------------------------------------------------
\* Events and timers.

\* changed(): the debounce timer starts anew.
Changed == dirty' = TRUE /\ debounce' = TRUE

\* Mutant of Buffer: a full buffer is emptied, and no scan is asked for.
BufferForgets ==
    /\ pendingEvents' = IF pendingEvents >= MaxBuffered THEN 0 ELSE pendingEvents + 1
    /\ UNCHANGED needsScan

\* An event is kept; in place of too many, a full scan is asked for.
Buffer ==
    \/ /\ pendingEvents < MaxBuffered
       /\ pendingEvents' = pendingEvents + 1
       /\ UNCHANGED needsScan
    \/ /\ pendingEvents >= MaxBuffered
       /\ pendingEvents' = 0
       /\ needsScan' = TRUE

(***************************************************************************)
(* event(), for one record of the batch that was read.  The watch of a     *)
(* directory that has gone says so in its last records.                    *)
(***************************************************************************)
Consume ==
    /\ Running
    /\ \E record \in kernel :
         /\ record = "ignored" => "saved" \notin kernel
         /\ kernel' = kernel \ {record}
         /\ \/ record = "saved" /\ Buffer /\ UNCHANGED attached
            \/ /\ record = "ignored"
               /\ attached' = FALSE /\ needsScan' = TRUE
               /\ UNCHANGED pendingEvents
            \/ /\ record = "overflow"
               /\ needsScan' = TRUE
               /\ UNCHANGED <<attached, pendingEvents>>
    /\ Changed
    /\ UNCHANGED <<diskVars, boot, scan, snapshot, cycleVars, spent>>

\* reconcile(), after a request has changed the catalog.
Reconcile ==
    /\ Running
    /\ Spend("moves", MaxMoves)
    /\ needsScan' = TRUE
    /\ Changed
    /\ UNCHANGED <<diskVars, boot, watchVars, pendingEvents, scan, snapshot, cycleVars>>

\* scan(): the events and the request so far go to the scanner thread.
BeginScan(force) ==
    /\ scan' = [NoScan EXCEPT !.step = "catalog", !.force = force,
                              !.changes = pendingEvents # 0]
    /\ dirty' = FALSE
    /\ needsScan' = FALSE
    /\ pendingEvents' = 0

CanScan == Running /\ ~active /\ ~Scanning

\* The debounce timer calls refresh().
DebounceFires ==
    /\ debounce
    /\ debounce' = FALSE
    /\ \/ CanScan /\ dirty /\ BeginScan(needsScan)
       \/ ~(CanScan /\ dirty) /\ UNCHANGED <<dirty, needsScan, pendingEvents, scan>>
    /\ UNCHANGED <<diskVars, boot, watchVars, snapshot, cycleVars, spent>>

\* poll(), every second.
Poll ==
    /\ CanScan
    /\ ~dirty \/ needsScan
    /\ BeginScan(needsScan)
    /\ UNCHANGED <<diskVars, boot, watchVars, debounce, snapshot, cycleVars, spent>>

-----------------------------------------------------------------------------
\* The scanner thread: update().

ScannerKeeps == UNCHANGED <<diskVars, boot, watchVars, eventVars, snapshot, active, job,
                            checkpointPending, resumed, failed>>

\* readCatalog and acceptedEvents; nothing to do ends the scan here.
ScanCatalog ==
    /\ scan.step = "catalog"
    /\ ScannerKeeps
    /\ UNCHANGED planned
    /\ \/ /\ Fault
          /\ scan' = [scan EXCEPT !.step = "posted", !.outcome = "error"]
       \/ LET changed == \/ snapshot.registered # Registered
                         \/ snapshot.compiled # facts.database
              accepted == scan.changes /\ root = "present"
              refresh == scan.force \/ accepted \/ (changed /\ Registered)
              seen == [NoSnapshot EXCEPT !.registered = Registered,
                                         !.compiled = facts.database]
          IN  /\ UNCHANGED spent
              /\ \/ /\ ~refresh /\ ~changed /\ ~snapshot.noticed
                    /\ scan' = [scan EXCEPT !.step = "posted", !.seen = snapshot]
                 \/ /\ refresh \/ changed \/ snapshot.noticed
                    /\ scan' = [scan EXCEPT !.step = "discover", !.seen = seen,
                                            !.refresh = refresh]

\* discover; a notice that has gone asks for a refresh, too.
ScanDiscovers ==
    /\ scan.step = "discover"
    /\ ScannerKeeps
    /\ UNCHANGED planned
    /\ \/ /\ Fault
          /\ scan' = [scan EXCEPT !.step = "posted", !.outcome = "error"]
       \/ LET seen == Discovered(scan.seen.registered, scan.seen.compiled)
              recovered == snapshot.noticed /\ ~seen.noticed
          IN  /\ UNCHANGED spent
              /\ scan' = [scan EXCEPT !.step = IF scan.refresh \/ recovered
                                               THEN "plan" ELSE "posted",
                                      !.refresh = scan.refresh \/ recovered,
                                      !.found = TRUE, !.seen = seen]

\* buildPlan: no command for a clone that is not there.
ScanPlans ==
    /\ scan.step = "plan"
    /\ ScannerKeeps
    /\ \/ /\ Fault
          /\ scan' = [scan EXCEPT !.step = "posted", !.outcome = "noplan"]
          /\ UNCHANGED planned
       \/ /\ scan' = [scan EXCEPT !.step = "posted"]
          /\ planned' = IF scan.seen.registered /\ root # "missing"
                        THEN disk.database ELSE Nothing
          /\ UNCHANGED spent

-----------------------------------------------------------------------------
\* The cycle.

(***************************************************************************)
(* finished(success), in a handler that leaves needsScan at force: success *)
(* scans again before anything is remembered; after a failure the changes  *)
(* in the meantime (missed) are scanned when the debounce timer fires.     *)
(***************************************************************************)
Finished(success, force, missed) ==
    /\ active' = FALSE
    /\ job' = "none"
    /\ checkpointPending' = success
    /\ \/ success /\ BeginScan(force) /\ UNCHANGED debounce
       \/ /\ ~success
          /\ needsScan' = force
          /\ dirty' = missed
          /\ debounce' = (debounce \/ missed)
          /\ scan' = NoScan
          /\ UNCHANGED pendingEvents

(***************************************************************************)
(* nextCommand(): the queue accepts the command or is full.                *)
(***************************************************************************)
Submit(command, force) ==
    \/ /\ active' = TRUE
       /\ job' = command
       /\ checkpointPending' = FALSE
       /\ failed' = FALSE
       /\ needsScan' = force
       /\ scan' = NoScan
       /\ UNCHANGED <<dirty, debounce, pendingEvents, spent>>
    \/ /\ Fault
       /\ failed' = TRUE
       /\ Finished(FALSE, force, dirty)

\* The scan failed, or a directory could not be watched.
ScanFails ==
    /\ scan' = NoScan
    /\ failed' = TRUE
    /\ needsScan' = TRUE
    /\ checkpointPending' = FALSE
    /\ UNCHANGED <<diskVars, watchVars, dirty, debounce, pendingEvents, snapshot, active,
                   job, planned, resumed>>

\* No plan: the change is not tried again by itself.
PlanFails ==
    /\ scan' = NoScan
    /\ failed' = TRUE
    /\ checkpointPending' = FALSE
    /\ needsScan' = (needsScan \/ SkippedWatch(scan.seen))
    /\ debounce' = (debounce \/ dirty)
    /\ UNCHANGED <<diskVars, dirty, pendingEvents, active, job, planned, resumed,
                   spent>>

\* The checkpoint cannot be removed: no cycle starts on top of it.
ForgetFails ==
    /\ Fault
    /\ scan' = NoScan
    /\ failed' = TRUE
    /\ checkpointPending' = FALSE
    /\ needsScan' = TRUE
    /\ UNCHANGED <<diskVars, dirty, debounce, pendingEvents, active, job, planned,
                   resumed>>

\* Mutant of CycleStarts: the checkpoint survives the start of a cycle.
CycleStartsUnforgotten ==
    LET force == needsScan \/ SkippedWatch(scan.seen)
    IN  /\ resumed' = FALSE
        /\ \/ /\ planned # Nothing
              /\ Submit("import", force)
           \/ /\ planned = Nothing
              /\ failed' = FALSE
              /\ Finished(TRUE, force, dirty)
              /\ UNCHANGED spent
        /\ UNCHANGED <<disk, root, leftover, facts, saved, planned>>

\* The checkpoint is removed, and the first command of the plan starts.
CycleStarts ==
    LET force == needsScan \/ SkippedWatch(scan.seen)
    IN  /\ saved' = NoSnapshot
        /\ resumed' = FALSE
        /\ \/ /\ planned # Nothing
              /\ Submit("import", force)
           \/ /\ planned = Nothing
              /\ failed' = FALSE
              /\ Finished(TRUE, force, dirty)
              /\ UNCHANGED spent
        /\ UNCHANGED <<disk, root, leftover, facts, planned>>

\* Mutant of NothingToDo: a change during the scan starts no timer.
NothingToDoQuietly ==
    LET force == needsScan \/ (scan.found /\ SkippedWatch(scan.seen))
        remembers == ~dirty /\ checkpointPending /\ ~force /\ pendingEvents = 0
    IN  /\ scan' = NoScan
        /\ needsScan' = force
        /\ checkpointPending' = (checkpointPending /\ ~remembers)
        /\ saved' = IF remembers /\ ~scan.seen.noticed THEN scan.seen ELSE saved
        /\ UNCHANGED <<disk, root, leftover, facts, dirty, debounce, pendingEvents, active, job,
                       planned, resumed, failed, spent>>

(***************************************************************************)
(* Nothing to refresh: a change in the meantime starts the debounce timer; *)
(* without one, the checkpoint that waits for this scan is written, unless *)
(* that fails.                                                             *)
(***************************************************************************)
NothingToDo ==
    LET force == needsScan \/ (scan.found /\ SkippedWatch(scan.seen))
        remembers == ~dirty /\ checkpointPending /\ ~force /\ pendingEvents = 0
    IN  /\ scan' = NoScan
        /\ needsScan' = force
        /\ debounce' = (debounce \/ dirty)
        /\ checkpointPending' = (checkpointPending /\ ~remembers)
        /\ \/ /\ saved' = IF remembers /\ ~scan.seen.noticed THEN scan.seen ELSE saved
              /\ UNCHANGED spent
           \/ /\ remembers /\ Fault
              /\ UNCHANGED saved
        /\ UNCHANGED <<disk, root, leftover, facts, dirty, pendingEvents, active, job, planned,
                       resumed, failed>>

\* scanned(), of what the scanner thread has posted.
Scanned ==
    /\ Running
    /\ scan.step = "posted"
    /\ UNCHANGED boot
    /\ \/ scan.outcome = "error" /\ ScanFails /\ UNCHANGED spent
       \/ /\ scan.outcome # "error" /\ scan.found /\ Attachable(scan.seen)
          /\ ScanFails /\ Fault
       \/ /\ scan.outcome # "error"
          /\ IF scan.found THEN Attach(scan.seen) ELSE UNCHANGED watchVars
          /\ snapshot' = scan.seen
          /\ \/ scan.refresh /\ scan.outcome = "noplan" /\ PlanFails
             \/ scan.refresh /\ scan.outcome = "ok" /\ ForgetFails
             \/ scan.refresh /\ scan.outcome = "ok" /\ CycleStarts
             \/ ~scan.refresh /\ NothingToDo

-----------------------------------------------------------------------------
\* The jobs of the cycle.

\* The child process of a job reads its input and stores what it made of it.
Processed(command, database) ==
    \/ command = "import" /\ facts' = [facts EXCEPT !.database = database]
    \/ command = "extract" /\ facts' = [facts EXCEPT !.source = disk.source]

\* The queue runs one job at a time, in order.
JobWorks ==
    /\ leftover = <<>>
    /\ Processed(job, planned)
    /\ job' = IF job = "import" THEN "imported" ELSE "extracted"
    /\ UNCHANGED <<disk, root, leftover, saved, boot, watchVars, eventVars, scan, snapshot,
                   active, planned, checkpointPending, resumed, failed, spent>>

\* A job whose watcher is gone: its callback finds nobody.
LeftoverEnds ==
    /\ leftover # <<>>
    /\ leftover' = Tail(leftover)
    /\ \/ /\ Processed(Head(leftover).job, Head(leftover).planned)
          /\ UNCHANGED spent
       \/ /\ Fault
          /\ facts' \in {facts, [facts EXCEPT !.source = Nothing]}
    /\ UNCHANGED <<disk, root, saved, boot, watchVars, eventVars, scan, snapshot,
                   cycleVars>>

\* The completion callback; a job that fails may have spoiled the facts.
JobEnds ==
    /\ Running
    /\ job # "none"
    /\ \/ /\ job = "imported"
          /\ Submit("extract", needsScan)
          /\ UNCHANGED facts
       \/ /\ job = "extracted"
          /\ Finished(TRUE, needsScan, dirty)
          /\ UNCHANGED <<facts, failed, spent>>
       \/ /\ Fault
          /\ failed' = TRUE
          /\ Finished(FALSE, needsScan, dirty)
          /\ facts' \in {facts, [facts EXCEPT !.source = Nothing]}
    /\ UNCHANGED <<disk, root, leftover, saved, boot, watchVars, snapshot, planned,
                   resumed>>

-----------------------------------------------------------------------------

World == Move \/ \E f \in Files : Edit(f)

Start == StartDiscovers \/ StartWatches

Scanner == ScanCatalog \/ ScanDiscovers \/ ScanPlans

Job == JobWorks \/ LeftoverEnds \/ JobEnds

Next ==
    \/ World
    \/ Start
    \/ Halt
    \/ Consume
    \/ Reconcile
    \/ DebounceFires
    \/ Poll
    \/ Scanner
    \/ Scanned
    \/ Job

Spec == Init /\ [][Next]_watcherVars

(***************************************************************************)
(* Fairness: the io_context runs every handler whose timer, descriptor or  *)
(* post is due, the scanner thread runs, and a job ends (EveryJobEnds of   *)
(* JobQueue).  Edits, moves, requests and stops may or may not come.       *)
(***************************************************************************)
FairSpec ==
    /\ Spec
    /\ WF_watcherVars(Start)
    /\ WF_watcherVars(Consume)
    /\ WF_watcherVars(DebounceFires)
    /\ WF_watcherVars(Poll)
    /\ WF_watcherVars(Scanner)
    /\ WF_watcherVars(Scanned)
    /\ WF_watcherVars(Job)

-----------------------------------------------------------------------------

(***************************************************************************)
(* The watcher is never blind: the directory of a registered clone that    *)
(* the last scan found is watched, or another scan is to come.             *)
(***************************************************************************)
NeverBlind ==
    Running /\ Wanted(snapshot) => attached \/ needsScan \/ Scanning

(***************************************************************************)
(* When /watch reports neither work nor an error and the kernel has        *)
(* nothing to tell, the facts are those of the clone as it is now.         *)
(***************************************************************************)
Settled ==
    /\ Running
    /\ ~dirty /\ ~Scanning /\ ~active /\ ~needsScan /\ ~failed
    /\ kernel = {}
    /\ ~snapshot.noticed
    /\ snapshot.registered = Registered
    /\ snapshot.compiled = facts.database

SettledIsCurrent == Settled /\ root = "present" => facts = disk

(***************************************************************************)
(* The checkpoint never vouches for facts that are not there: while it     *)
(* matches the clone, so do the facts, whatever was interrupted, failed or *)
(* was edited since it was written.                                        *)
(***************************************************************************)
CheckpointHonest ==
    root = "present" /\ saved # NoSnapshot
        /\ saved = Discovered(TRUE, facts.database) => facts = disk

(***************************************************************************)
(* Once the world is quiet and the watcher stays up, it catches up with    *)
(* the clone, or tells why it does not.                                    *)
(***************************************************************************)
CatchesUp ==
    <>[]Running => []<>(facts = disk \/ failed \/ root # "present")

(***************************************************************************)
(* A start that reuses the checkpoint (resumed) does not miss a change:    *)
(* "Changed source/header contents, links, settings or catalog state       *)
(* trigger a new reconciliation."                                          *)
(***************************************************************************)
ResumedIsCurrent == Settled /\ resumed /\ root = "present" => facts = disk

=============================================================================
