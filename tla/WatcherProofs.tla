---------------------------- MODULE WatcherProofs ----------------------------
(***************************************************************************)
(* The proofs about the repository watcher, for any number of edits,       *)
(* moves, faults and stops and any size of the event buffer: it is never   *)
(* blind (NeverBlind), what it reports as settled is current               *)
(* (SettledIsCurrent), and its checkpoint never vouches for facts that are *)
(* not there (CheckpointHonest).  All three need the clone to stay as it   *)
(* is between a scan and the watch that the scan asks for (~Disturbed):    *)
(* the runs watcher_blind and watcher_resume show what happens otherwise.  *)
(*                                                                         *)
(* The argument is about the content of the files, which only grows.  A    *)
(* snapshot is Fresh while no file was edited since it was taken.  Noted:  *)
(* if the last snapshot is not fresh any more, somebody still owes a scan: *)
(* a record in the kernel, a buffered event, needsScan, or the scan under  *)
(* way.  Done: if it is fresh, then its cycle has left the facts of these  *)
(* contents, or a cycle is to come.  Vouched: the same of the snapshot     *)
(* that the checkpoint holds.                                              *)
(***************************************************************************)
EXTENDS Watcher, SequenceTheorems, TLAPS

-----------------------------------------------------------------------------
(* The invariant *)

SnapshotRecords == [registered : BOOLEAN, noticed : BOOLEAN, compiled : Nat,
                    source : Nat, database : Nat]

ScanRecords ==
    [step : {"idle", "catalog", "discover", "plan", "posted"}, force : BOOLEAN,
     changes : BOOLEAN, found : BOOLEAN, refresh : BOOLEAN, seen : SnapshotRecords,
     outcome : {"ok", "noplan", "error"}]

LeftoverJobs == [job : {"import", "extract"}, planned : Nat]

Counters == {"edits", "moves", "faults", "halts"}

\* The clone, the database and what an earlier watcher left.
DiskTypeOK ==
    /\ disk \in [Files -> Nat \ {0}]
    /\ root \in {"unregistered", "present", "missing"}
    /\ facts \in [Files -> Nat]
    /\ saved \in SnapshotRecords
    /\ leftover \in Seq(LeftoverJobs)

\* The watcher, its scanner and its cycle.
ImplTypeOK ==
    /\ boot \in {"off", "discovered", "on"}
    /\ attached \in BOOLEAN
    /\ kernel \subseteq Records
    /\ dirty \in BOOLEAN /\ debounce \in BOOLEAN /\ needsScan \in BOOLEAN
    /\ pendingEvents \in Nat
    /\ scan \in ScanRecords
    /\ snapshot \in SnapshotRecords
    /\ active \in BOOLEAN /\ checkpointPending \in BOOLEAN
    /\ resumed \in BOOLEAN /\ failed \in BOOLEAN
    /\ job \in {"none", "import", "imported", "extract", "extracted"}
    /\ planned \in Nat
    /\ spent \in [Counters -> Nat]

WatcherTypeOK == DiskTypeOK /\ ImplTypeOK

\* No file was edited since the snapshot was taken.
Fresh(x) == x.source = disk.source /\ x.database = disk.database

\* A snapshot shows earlier contents, and none of a directory that was away.
Past(x) ==
    /\ x.source <= disk.source /\ x.database <= disk.database
    /\ x.noticed => x.source = Nothing

Pasts == Past(saved) /\ Past(snapshot) /\ Past(scan.seen)

AtRest ==
    /\ ~Scanning /\ ~active /\ ~attached /\ kernel = {}
    /\ ~needsScan /\ pendingEvents = 0 /\ ~dirty /\ ~checkpointPending /\ ~failed

\* What excludes what: a scan, a cycle, a checkpoint to write, an error.
Turns ==
    /\ boot # "on" => AtRest
    /\ active <=> job # "none"
    /\ Scanning => ~active
    /\ active => ~failed
    /\ checkpointPending => ~active /\ ~failed
    /\ pendingEvents # 0 => dirty
    /\ Alive => root # "missing"

\* What the scanner thread has found out at each step.
ScanShape ==
    \/ scan = NoScan
    \/ scan.step = "catalog" /\ ~scan.found /\ scan.outcome = "ok" /\ ~scan.refresh
    \/ /\ scan.step = "discover" /\ ~scan.found /\ scan.outcome = "ok"
       /\ ~scan.refresh => ~scan.seen.registered \/ snapshot.noticed
    \/ scan.step = "plan" /\ scan.found /\ scan.refresh /\ scan.outcome = "ok"
    \/ /\ scan.step = "posted"
       /\ \/ scan.outcome = "error"
          \/ scan.outcome = "noplan" /\ scan.found /\ scan.refresh
          \/ scan.outcome = "ok" /\ scan.found /\ (scan.refresh \/ ~Wanted(scan.seen))
          \/ scan.outcome = "ok" /\ ~scan.found /\ ~scan.refresh /\ scan.seen = snapshot

\* The scan under way will look at the clone again, or fail and be repeated.
WillFind ==
    \/ scan.step = "catalog" /\ scan.force
    \/ scan.step \in {"discover", "plan"}
    \/ scan.step = "posted" /\ (scan.found \/ scan.outcome = "error")

\* The scan under way will start a cycle, or fail.
WillRefresh ==
    \/ scan.step = "catalog" /\ scan.force
    \/ scan.step \in {"discover", "plan", "posted"} /\ scan.refresh
    \/ scan.step = "posted" /\ scan.outcome = "error"

Seeing == Running /\ Wanted(snapshot) => attached \/ needsScan \/ WillFind

\* Between the two halves of start() nothing happens to the clone.
JustFound ==
    boot = "discovered" /\ Wanted(snapshot) => Fresh(snapshot) /\ root # "missing"

\* Of an edit since the scan read the clone, the watcher has been told.
Announced ==
    scan.step \in {"plan", "posted"} /\ scan.found /\ Wanted(scan.seen) =>
        \/ Fresh(scan.seen)
        \/ Alive /\ kernel # {}
        \/ pendingEvents # 0 \/ needsScan \/ root = "missing"

\* Of an edit since the last scan, too; and it will be looked at.
Noted ==
    Running /\ Wanted(snapshot) =>
        \/ Fresh(snapshot)
        \/ needsScan \/ pendingEvents # 0 \/ kernel # {}
        \/ WillFind \/ (scan.step = "catalog" /\ scan.changes)

\* The commands of the plan are those of the directory that the scan found.
Planned ==
    scan.step = "posted" /\ scan.refresh /\ scan.outcome = "ok" /\ Wanted(scan.seen) =>
        IF planned = Nothing THEN root = "missing"
        ELSE Fresh(scan.seen) => planned = disk.database

\* What the jobs of the cycle have left in the facts.
InCycle ==
    active =>
        /\ Wanted(snapshot) /\ Fresh(snapshot) => planned = disk.database
        /\ job # "import" => leftover = <<>> /\ facts.database = planned
        /\ job = "extracted" /\ Wanted(snapshot) /\ Fresh(snapshot)
             => facts.source = disk.source

\* A cycle that went well leaves the facts of its snapshot.
Done ==
    Running /\ Wanted(snapshot) /\ Fresh(snapshot) /\ ~active /\ ~failed =>
        (facts = disk /\ leftover = <<>>) \/ WillRefresh

\* The checkpoint stands for facts that nothing changes while it is there.
Vouched == saved.registered /\ Fresh(saved) => facts = disk /\ leftover = <<>> /\ ~active

\* All but the types and the contents.
Guarded ==
    /\ Turns /\ ScanShape
    /\ Seeing /\ JustFound /\ Announced /\ Noted
    /\ Planned /\ InCycle /\ Done /\ Vouched

WatcherInv == WatcherTypeOK /\ Pasts /\ Guarded

-----------------------------------------------------------------------------
(* The states that the actions start from *)

LEMMA FileNames == Files = {"source", "database"} /\ "source" \in Files /\ "database" \in Files
  BY DEF Files

LEMMA NoneTyped == NoSnapshot \in SnapshotRecords /\ NoScan \in ScanRecords
  BY DEF NoSnapshot, NoScan, SnapshotRecords, ScanRecords, Nothing

LEMMA WatcherInvInit == Init => WatcherInv
  <1> SUFFICES ASSUME Init PROVE WatcherInv
    OBVIOUS
  <1> USE DEF Init
  <1>1. DiskTypeOK
    BY NoneTyped DEF DiskTypeOK, Nothing
  <1>2. ImplTypeOK
    BY NoneTyped DEF ImplTypeOK, Nothing, Records, Counters
  <1>3. Pasts
    BY FileNames DEF Pasts, Past, NoSnapshot, NoScan, Nothing
  <1>4. Turns /\ ScanShape
    BY DEF Turns, AtRest, Scanning, NoScan, Alive, ScanShape
  <1>5. Seeing /\ JustFound /\ Announced /\ Noted /\ Planned /\ InCycle /\ Done
    BY DEF Seeing, JustFound, Announced, Noted, Planned, InCycle, Done, Running,
       NoScan
  <1>6. Vouched
    BY DEF Vouched, NoSnapshot
  <1> QED BY <1>1, <1>2, <1>3, <1>4, <1>5, <1>6 DEF WatcherInv, WatcherTypeOK, Guarded

-----------------------------------------------------------------------------
(* Types *)

LEMMA SpendTyped ==
    ASSUME spent \in [Counters -> Nat], NEW c \in Counters, NEW max, Spend(c, max)
    PROVE  spent' \in [Counters -> Nat]
  BY DEF Spend

LEMMA FaultTyped ==
    ASSUME spent \in [Counters -> Nat], Fault
    PROVE  spent' \in [Counters -> Nat]
  BY SpendTyped DEF Fault, Counters

LEMMA DiscoveredTyped ==
    ASSUME DiskTypeOK, NEW r \in BOOLEAN, NEW c \in Nat
    PROVE  Discovered(r, c) \in SnapshotRecords
  <1>1. disk.source \in Nat /\ disk.database \in Nat
    BY FileNames DEF DiskTypeOK
  <1> QED BY <1>1 DEF Discovered, SnapshotRecords, Nothing

LEMMA ScanTyped ==
    ASSUME NEW f \in BOOLEAN, NEW b \in BOOLEAN
    PROVE  [NoScan EXCEPT !.step = "catalog", !.force = f, !.changes = b] \in ScanRecords
  BY NoneTyped DEF ScanRecords

LEMMA BeginScanTyped ==
    ASSUME ImplTypeOK, NEW f, f \in BOOLEAN, BeginScan(f)
    PROVE  /\ scan' \in ScanRecords /\ dirty' \in BOOLEAN /\ needsScan' \in BOOLEAN
           /\ pendingEvents' \in Nat
  BY ScanTyped DEF BeginScan, ImplTypeOK

LEMMA Counted ==
    ASSUME NEW s \in [Counters -> Nat]
    PROVE  /\ [s EXCEPT !.edits = @ + 1] \in [Counters -> Nat]
           /\ [s EXCEPT !.edits = @ + 1, !.faults = @ + 1] \in [Counters -> Nat]
  <1>1. /\ "edits" \in Counters /\ s["edits"] \in Nat
        /\ "faults" \in Counters /\ s["faults"] \in Nat
    BY DEF Counters
  <1>2. [s EXCEPT !["edits"] = @ + 1] \in [Counters -> Nat]
    BY <1>1
  <1>3. [s EXCEPT !["edits"] = @ + 1, !["faults"] = @ + 1] \in [Counters -> Nat]
    BY <1>1
  <1> QED BY <1>2, <1>3

LEMMA AppendJob ==
    ASSUME NEW q \in Seq(LeftoverJobs), NEW j \in {"import", "extract"}, NEW p \in Nat
    PROVE  Append(q, [job |-> j, planned |-> p]) \in Seq(LeftoverJobs)
  <1>1. [job |-> j, planned |-> p] \in LeftoverJobs
    BY DEF LeftoverJobs
  <1> QED BY <1>1, AppendProperties

LEMMA WorldTyped ==
    ASSUME WatcherTypeOK, World
    PROVE  WatcherTypeOK'
  <1> USE DEF WatcherTypeOK, DiskTypeOK, ImplTypeOK
  <1>1. ASSUME Move PROVE WatcherTypeOK'
    <2>1. spent' \in [Counters -> Nat]
      BY <1>1, SpendTyped DEF Move, Counters
    <2>2. kernel' \subseteq Records
      BY <1>1 DEF Move, Records
    <2> QED BY <2>1, <2>2, <1>1 DEF Move, eventVars, cycleVars
  <1>2. ASSUME NEW f \in Files, Edit(f) PROVE WatcherTypeOK'
    <2>1. spent' \in [Counters -> Nat]
      <3>1. \/ spent' = [spent EXCEPT !.edits = @ + 1]
            \/ spent' = [spent EXCEPT !.edits = @ + 1, !.faults = @ + 1]
        BY <1>2 DEF Edit
      <3>2. /\ [spent EXCEPT !.edits = @ + 1] \in [Counters -> Nat]
            /\ [spent EXCEPT !.edits = @ + 1, !.faults = @ + 1] \in [Counters -> Nat]
        <4> HIDE DEF DiskTypeOK
        <4>1. spent \in [Counters -> Nat]
          OBVIOUS
        <4> QED BY ONLY <4>1, Counted
      <3> QED BY <3>1, <3>2
    <2>2. kernel' \subseteq Records
      BY <1>2 DEF Edit, Records
    <2>3. disk' \in [Files -> Nat \ {0}]
      BY <1>2 DEF Edit
    <2> QED BY <2>1, <2>2, <2>3, <1>2 DEF Edit, eventVars, cycleVars
  <1> QED BY <1>1, <1>2 DEF World

LEMMA StartTyped ==
    ASSUME WatcherTypeOK, StartDiscovers \/ StartWatches \/ Halt
    PROVE  WatcherTypeOK'
  <1> USE DEF WatcherTypeOK, DiskTypeOK, ImplTypeOK
  <1>1. ASSUME StartDiscovers PROVE WatcherTypeOK'
    <2>1. snapshot' \in SnapshotRecords
      BY <1>1, DiscoveredTyped, FileNames DEF StartDiscovers, Registered
    <2> QED BY <2>1, <1>1 DEF StartDiscovers, diskVars, watchVars, eventVars, cycleVars
  <1>2. ASSUME StartWatches PROVE WatcherTypeOK'
    <2>1. [NoScan EXCEPT !.step = "catalog", !.force = TRUE] \in ScanRecords
      BY NoneTyped DEF ScanRecords
    <2>2. snapshot.registered \in BOOLEAN /\ snapshot.noticed \in BOOLEAN
      BY DEF SnapshotRecords
    <2>3. attached' \in BOOLEAN /\ kernel' \subseteq Records
      BY <1>2, <2>2 DEF StartWatches, Attach, Attachable, Wanted
    <2>4. resumed' \in BOOLEAN /\ scan' \in ScanRecords
      BY <1>2, <2>1, NoneTyped DEF StartWatches, Restored
    <2> QED BY <2>3, <2>4, <1>2 DEF StartWatches, diskVars
  <1>3. ASSUME Halt PROVE WatcherTypeOK'
    <2>1. spent' \in [Counters -> Nat]
      BY <1>3, SpendTyped DEF Halt, Counters
    <2>2. leftover' \in Seq(LeftoverJobs)
      <3>2. \/ leftover' = <<>> \/ leftover' = leftover
            \/ /\ job \in {"import", "extract"}
               /\ leftover' = Append(leftover, [job |-> job, planned |-> planned])
        BY <1>3 DEF Halt
      <3>3. \A j \in {"import", "extract"} :
               Append(leftover, [job |-> j, planned |-> planned]) \in Seq(LeftoverJobs)
        BY AppendJob
      <3>4. <<>> \in Seq(LeftoverJobs)
        OBVIOUS
      <3> QED BY <3>2, <3>3, <3>4
    <2> QED BY <2>1, <2>2, <1>3, NoneTyped DEF Halt, Nothing
  <1> QED BY <1>1, <1>2, <1>3

LEMMA EventsTyped ==
    ASSUME WatcherTypeOK, Consume \/ Reconcile \/ DebounceFires \/ Poll
    PROVE  WatcherTypeOK'
  <1> USE DEF WatcherTypeOK, DiskTypeOK, ImplTypeOK
  <1>1. ASSUME Consume PROVE WatcherTypeOK'
    <2>1. kernel' \subseteq Records
      BY <1>1 DEF Consume
    <2>2. /\ attached' \in BOOLEAN /\ needsScan' \in BOOLEAN /\ pendingEvents' \in Nat
          /\ dirty' \in BOOLEAN /\ debounce' \in BOOLEAN
      <3>1. (Buffer /\ UNCHANGED attached)
            \/ (attached' = FALSE /\ needsScan' = TRUE /\ UNCHANGED pendingEvents)
            \/ (needsScan' = TRUE /\ UNCHANGED <<attached, pendingEvents>>)
        BY <1>1 DEF Consume
      <3>2. ASSUME Buffer PROVE needsScan' \in BOOLEAN /\ pendingEvents' \in Nat
        <4>1. pendingEvents' = pendingEvents + 1 \/ pendingEvents' = 0
          BY <3>2 DEF Buffer
        <4>2. needsScan' = needsScan \/ needsScan' = TRUE
          BY <3>2 DEF Buffer
        <4>3. needsScan' \in BOOLEAN
          BY <4>2
        <4>4. pendingEvents' \in Nat
          BY <4>1
        <4> QED BY <4>3, <4>4
      <3>3. dirty' = TRUE /\ debounce' = TRUE
        BY <1>1 DEF Consume, Changed
      <3> QED BY <3>1, <3>2, <3>3
    <2> QED BY <2>1, <2>2, <1>1 DEF Consume, diskVars, cycleVars
  <1>2. ASSUME Reconcile PROVE WatcherTypeOK'
    <2>1. spent' \in [Counters -> Nat]
      BY <1>2, SpendTyped DEF Reconcile, Counters
    <2> QED BY <2>1, <1>2 DEF Reconcile, Changed, diskVars, watchVars, cycleVars
  <1>3. ASSUME DebounceFires PROVE WatcherTypeOK'
    <2>1. /\ scan' \in ScanRecords /\ dirty' \in BOOLEAN /\ needsScan' \in BOOLEAN
          /\ pendingEvents' \in Nat
      BY <1>3, BeginScanTyped DEF DebounceFires
    <2> QED BY <2>1, <1>3 DEF DebounceFires, diskVars, watchVars, cycleVars
  <1>4. ASSUME Poll PROVE WatcherTypeOK'
    <2>1. /\ scan' \in ScanRecords /\ dirty' \in BOOLEAN /\ needsScan' \in BOOLEAN
          /\ pendingEvents' \in Nat
      BY <1>4, BeginScanTyped DEF Poll
    <2> QED BY <2>1, <1>4 DEF Poll, diskVars, watchVars, cycleVars
  <1> QED BY <1>1, <1>2, <1>3, <1>4

LEMMA ScannerTyped ==
    ASSUME WatcherTypeOK, Scanner
    PROVE  WatcherTypeOK'
  <1> USE DEF WatcherTypeOK, DiskTypeOK, ImplTypeOK
  <1>1. ASSUME ScannerKeeps, scan' \in ScanRecords, planned' \in Nat,
               spent' \in [Counters -> Nat]
        PROVE  WatcherTypeOK'
    BY <1>1 DEF ScannerKeeps, diskVars, watchVars, eventVars
  <1>2. ASSUME NEW o \in {"error", "noplan"}
        PROVE  [scan EXCEPT !.step = "posted", !.outcome = o] \in ScanRecords
    BY DEF ScanRecords
  <1>3. ASSUME ScanCatalog PROVE WatcherTypeOK'
    <2>1. [NoSnapshot EXCEPT !.registered = Registered, !.compiled = facts.database]
            \in SnapshotRecords
      BY NoneTyped, FileNames DEF SnapshotRecords, Registered
    <2>2. scan.force \in BOOLEAN /\ scan.changes \in BOOLEAN /\ Registered \in BOOLEAN
      BY DEF ScanRecords, Registered
    <2>3. scan' \in ScanRecords
      BY <1>3, <1>2, <2>1, <2>2 DEF ScanCatalog, ScanRecords
    <2>4. spent' \in [Counters -> Nat]
      BY <1>3, FaultTyped DEF ScanCatalog
    <2> QED BY <1>1, <1>3, <2>3, <2>4 DEF ScanCatalog
  <1>4. ASSUME ScanDiscovers PROVE WatcherTypeOK'
    <2>1. scan.seen.registered \in BOOLEAN /\ scan.seen.compiled \in Nat
      BY DEF ScanRecords, SnapshotRecords
    <2>2. Discovered(scan.seen.registered, scan.seen.compiled) \in SnapshotRecords
      BY <2>1, DiscoveredTyped
    <2>3. scan' \in ScanRecords
      BY <1>4, <1>2, <2>2, ZenonT(60) DEF ScanDiscovers, ScanRecords, SnapshotRecords
    <2>4. spent' \in [Counters -> Nat]
      BY <1>4, FaultTyped DEF ScanDiscovers
    <2> QED BY <1>1, <1>4, <2>3, <2>4 DEF ScanDiscovers
  <1>5. ASSUME ScanPlans PROVE WatcherTypeOK'
    <2>1. scan' \in ScanRecords
      BY <1>5, <1>2 DEF ScanPlans, ScanRecords
    <2>2. spent' \in [Counters -> Nat]
      BY <1>5, FaultTyped DEF ScanPlans
    <2>3. planned' \in Nat
      BY <1>5, FileNames DEF ScanPlans, Nothing
    <2> QED BY <1>1, <1>5, <2>1, <2>2, <2>3 DEF ScanPlans
  <1> QED BY <1>3, <1>4, <1>5 DEF Scanner

LEMMA FinishedTyped ==
    ASSUME ImplTypeOK, NEW success \in BOOLEAN, NEW STATE force, force \in BOOLEAN,
           Finished(success, force, dirty)
    PROVE  /\ active' = FALSE /\ job' = "none" /\ checkpointPending' \in BOOLEAN
           /\ scan' \in ScanRecords /\ dirty' \in BOOLEAN /\ debounce' \in BOOLEAN
           /\ needsScan' \in BOOLEAN /\ pendingEvents' \in Nat
  BY BeginScanTyped, NoneTyped DEF ImplTypeOK, Finished

LEMMA SubmitTyped ==
    ASSUME ImplTypeOK, NEW c \in {"import", "extract"}, NEW STATE force, force \in BOOLEAN,
           Submit(c, force)
    PROVE  /\ active' \in BOOLEAN /\ checkpointPending' \in BOOLEAN /\ failed' \in BOOLEAN
           /\ job' \in {"none", "import", "imported", "extract", "extracted"}
           /\ scan' \in ScanRecords /\ dirty' \in BOOLEAN /\ debounce' \in BOOLEAN
           /\ needsScan' \in BOOLEAN /\ pendingEvents' \in Nat /\ spent' \in [Counters -> Nat]
  <1>1. CASE Fault /\ failed' = TRUE /\ Finished(FALSE, force, dirty)
    BY <1>1, FinishedTyped, FaultTyped DEF ImplTypeOK
  <1>2. CASE ~(Fault /\ failed' = TRUE /\ Finished(FALSE, force, dirty))
    BY <1>2, NoneTyped DEF ImplTypeOK, Submit
  <1> QED BY <1>1, <1>2

LEMMA JobTyped ==
    ASSUME WatcherTypeOK, Job
    PROVE  WatcherTypeOK'
  <1> USE DEF WatcherTypeOK, DiskTypeOK, ImplTypeOK
  <1>1. ASSUME JobWorks PROVE WatcherTypeOK'
    <2>1. facts' \in [Files -> Nat]
      BY <1>1, FileNames DEF JobWorks, Processed
    <2> QED BY <2>1, <1>1 DEF JobWorks, watchVars, eventVars
  <1>2. ASSUME LeftoverEnds PROVE WatcherTypeOK'
    <2>1. Head(leftover) \in LeftoverJobs /\ Tail(leftover) \in Seq(LeftoverJobs)
      BY <1>2 DEF LeftoverEnds
    <2>2. facts' \in [Files -> Nat]
      <3>1. Head(leftover).planned \in Nat
        BY <2>1 DEF LeftoverJobs
      <3>2. [facts EXCEPT !.source = Nothing] \in [Files -> Nat]
        BY FileNames DEF Nothing
      <3>3. CASE Processed(Head(leftover).job, Head(leftover).planned)
        BY <3>1, <3>3, FileNames DEF Processed
      <3>4. CASE facts' \in {facts, [facts EXCEPT !.source = Nothing]}
        BY <3>2, <3>4
      <3> QED BY <3>3, <3>4, <1>2 DEF LeftoverEnds
    <2>3. spent' \in [Counters -> Nat]
      BY <1>2, FaultTyped DEF LeftoverEnds
    <2> QED BY <2>1, <2>2, <2>3, <1>2 DEF LeftoverEnds, watchVars, eventVars, cycleVars
  <1>3. ASSUME JobEnds PROVE WatcherTypeOK'
    <2>1. facts' \in [Files -> Nat]
      <3>1. [facts EXCEPT !.source = Nothing] \in [Files -> Nat]
        BY FileNames DEF Nothing
      <3> QED BY <3>1, <1>3 DEF JobEnds
    <2>2. /\ active' \in BOOLEAN /\ checkpointPending' \in BOOLEAN /\ failed' \in BOOLEAN
          /\ job' \in {"none", "import", "imported", "extract", "extracted"}
          /\ scan' \in ScanRecords /\ dirty' \in BOOLEAN /\ debounce' \in BOOLEAN
          /\ needsScan' \in BOOLEAN /\ pendingEvents' \in Nat /\ spent' \in [Counters -> Nat]
      <3>1. CASE Submit("extract", needsScan)
        BY <3>1, SubmitTyped
      <3>2. CASE Finished(TRUE, needsScan, dirty) /\ UNCHANGED <<failed, spent>>
        BY <3>2, FinishedTyped
      <3>3. CASE Fault /\ failed' = TRUE /\ Finished(FALSE, needsScan, dirty)
        BY <3>3, FinishedTyped, FaultTyped
      <3> QED BY <3>1, <3>2, <3>3, <1>3 DEF JobEnds
    <2> QED BY <2>1, <2>2, <1>3 DEF JobEnds, watchVars
  <1> QED BY <1>1, <1>2, <1>3 DEF Job

-----------------------------------------------------------------------------
(* What scanned() does, in three parts: the watches and the snapshot, and  *)
(* one of five ways to go on.                                              *)

ScanForce == needsScan \/ (scan.found /\ SkippedWatch(scan.seen))

Failing ==
    /\ scan' = NoScan /\ failed' = TRUE /\ needsScan' = TRUE /\ checkpointPending' = FALSE
    /\ UNCHANGED <<saved, watchVars, dirty, debounce, pendingEvents, snapshot, active, job,
                   resumed>>

Adopting ==
    /\ scan.outcome # "error"
    /\ IF scan.found THEN Attach(scan.seen) ELSE UNCHANGED watchVars
    /\ snapshot' = scan.seen

GivingUp ==
    /\ scan.refresh
    /\ scan' = NoScan /\ failed' = TRUE /\ checkpointPending' = FALSE
    /\ needsScan' = TRUE \/ needsScan' = (needsScan \/ SkippedWatch(scan.seen))
    /\ debounce' \in {debounce, debounce \/ dirty}
    /\ UNCHANGED <<saved, dirty, pendingEvents, active, job, resumed>>

Starting ==
    /\ scan.refresh /\ scan.outcome = "ok" /\ planned # Nothing
    /\ saved' = NoSnapshot /\ resumed' = FALSE
    /\ active' = TRUE /\ job' = "import" /\ checkpointPending' = FALSE /\ failed' = FALSE
    /\ needsScan' = (needsScan \/ SkippedWatch(scan.seen)) /\ scan' = NoScan
    /\ UNCHANGED <<dirty, debounce, pendingEvents>>

Refused ==
    /\ scan.refresh /\ scan.outcome = "ok"
    /\ saved' = NoSnapshot /\ resumed' = FALSE
    /\ active' = FALSE /\ job' = "none" /\ checkpointPending' = FALSE /\ failed' = TRUE
    /\ needsScan' = (needsScan \/ SkippedWatch(scan.seen)) /\ scan' = NoScan
    /\ dirty' = dirty /\ debounce' = (debounce \/ dirty) /\ UNCHANGED pendingEvents

Empty ==
    /\ scan.refresh /\ scan.outcome = "ok" /\ planned = Nothing
    /\ saved' = NoSnapshot /\ resumed' = FALSE
    /\ active' = FALSE /\ job' = "none" /\ checkpointPending' = TRUE /\ failed' = FALSE
    /\ BeginScan(needsScan \/ SkippedWatch(scan.seen)) /\ UNCHANGED debounce

Resting ==
    /\ ~scan.refresh
    /\ scan' = NoScan /\ needsScan' = ScanForce
    /\ debounce' = (debounce \/ dirty)
    /\ \/ saved' = saved
       \/ /\ ~dirty /\ checkpointPending /\ ~ScanForce /\ pendingEvents = 0
          /\ ~scan.seen.noticed /\ saved' = scan.seen
    /\ checkpointPending' \in {checkpointPending, FALSE}
    /\ UNCHANGED <<dirty, pendingEvents, active, job, resumed, failed>>

LEMMA ScannedCases ==
    ASSUME WatcherTypeOK, Scanned
    PROVE  /\ Running /\ scan.step = "posted"
           /\ UNCHANGED <<boot, disk, root, leftover, facts, planned>>
           /\ UNCHANGED spent \/ Fault
           /\ Failing \/ (Adopting /\ (GivingUp \/ Starting \/ Refused \/ Empty \/ Resting))
  <1>1. CASE ScanFails /\ (UNCHANGED spent \/ Fault)
    BY <1>1 DEF Scanned, ScanFails, Failing, diskVars
  <1>2. CASE Adopting /\ scan.refresh /\ PlanFails
    BY <1>2 DEF Scanned, PlanFails, GivingUp, diskVars
  <1>3. CASE Adopting /\ scan.refresh /\ ForgetFails
    BY <1>3 DEF Scanned, ForgetFails, GivingUp, diskVars
  <1>4. CASE Adopting /\ scan.refresh /\ scan.outcome = "ok" /\ CycleStarts
    <2> DEFINE force == needsScan \/ SkippedWatch(scan.seen)
    <2>1. /\ saved' = NoSnapshot /\ resumed' = FALSE
          /\ UNCHANGED <<disk, root, leftover, facts, planned>>
          /\ \/ planned # Nothing /\ Submit("import", force)
             \/ planned = Nothing /\ failed' = FALSE /\ Finished(TRUE, force, dirty) /\ UNCHANGED spent
      BY <1>4 DEF CycleStarts
    <2>2. CASE planned # Nothing
      <3>1. Submit("import", force)
        BY <2>1, <2>2
      <3> QED BY <3>1, <2>1, <2>2, <1>4 DEF Scanned, Submit, Finished, Starting, Refused
    <2>3. CASE planned = Nothing
      <3>1. failed' = FALSE /\ Finished(TRUE, force, dirty) /\ UNCHANGED spent
        BY <2>1, <2>3
      <3> QED BY <3>1, <2>1, <2>3, <1>4 DEF Scanned, Finished, Empty
    <2> QED BY <2>2, <2>3
  <1>5. CASE Adopting /\ ~scan.refresh /\ NothingToDo
    BY <1>5 DEF Scanned, NothingToDo, Resting, ScanForce
  <1> QED BY <1>1, <1>2, <1>3, <1>4, <1>5 DEF Scanned, Adopting

LEMMA AttachTyped ==
    ASSUME ImplTypeOK, NEW STATE seen, seen \in SnapshotRecords, Attach(seen)
    PROVE  attached' \in BOOLEAN /\ kernel' \subseteq Records
  <1>1. seen.registered \in BOOLEAN /\ seen.noticed \in BOOLEAN
    BY DEF SnapshotRecords
  <1> QED BY <1>1 DEF Attach, Attachable, Wanted, ImplTypeOK

LEMMA ScannedTyped ==
    ASSUME WatcherTypeOK, Scanned
    PROVE  WatcherTypeOK'
  <1> USE DEF WatcherTypeOK
  <1>1. UNCHANGED <<boot, disk, root, leftover, facts, planned>>
    BY ScannedCases
  <1>2. spent' \in [Counters -> Nat]
    BY ScannedCases, FaultTyped DEF ImplTypeOK
  <1>3. scan.seen \in SnapshotRecords /\ scan.found \in BOOLEAN /\ scan.refresh \in BOOLEAN
    BY DEF ImplTypeOK, ScanRecords
  <1>4. scan.seen.registered \in BOOLEAN /\ scan.seen.noticed \in BOOLEAN
    BY <1>3 DEF SnapshotRecords
  <1>5. SkippedWatch(scan.seen) \in BOOLEAN
    BY DEF SkippedWatch
  <1>6. CASE Failing
    BY <1>1, <1>2, <1>6, NoneTyped DEF DiskTypeOK, ImplTypeOK, Failing, watchVars
  <1>7. CASE Adopting /\ (GivingUp \/ Starting \/ Refused \/ Empty \/ Resting)
    <2>1. attached' \in BOOLEAN /\ kernel' \subseteq Records /\ snapshot' \in SnapshotRecords
      BY <1>3, <1>7, AttachTyped DEF Adopting, ImplTypeOK, watchVars
    <2>2. CASE GivingUp
      BY <1>1, <1>2, <1>5, <2>1, <2>2, NoneTyped, ZenonT(60) DEF DiskTypeOK, ImplTypeOK, GivingUp
    <2>3. CASE Starting \/ Refused
      BY <1>1, <1>2, <1>5, <2>1, <2>3, NoneTyped DEF DiskTypeOK, ImplTypeOK, Starting, Refused
    <2>4. CASE Empty
      <3>1. /\ scan' \in ScanRecords /\ dirty' \in BOOLEAN /\ needsScan' \in BOOLEAN
            /\ pendingEvents' \in Nat
        BY <1>5, <2>4, BeginScanTyped DEF Empty
      <3> QED BY <1>1, <1>2, <2>1, <2>4, <3>1, NoneTyped DEF DiskTypeOK, ImplTypeOK, Empty
    <2>5. CASE Resting
      BY <1>1, <1>2, <1>3, <1>5, <2>1, <2>5, NoneTyped, ZenonT(60)
         DEF DiskTypeOK, ImplTypeOK, Resting, ScanForce
    <2> QED BY <1>7, <2>2, <2>3, <2>4, <2>5
  <1> QED BY <1>6, <1>7, ScannedCases

LEMMA WatcherTypeKept ==
    ASSUME WatcherTypeOK, [Next]_watcherVars
    PROVE  WatcherTypeOK'
  <1>1. CASE UNCHANGED watcherVars
    BY <1>1 DEF watcherVars, diskVars, watchVars, eventVars, cycleVars, WatcherTypeOK,
       DiskTypeOK, ImplTypeOK
  <1> QED
    BY <1>1, WorldTyped, StartTyped, EventsTyped, ScannerTyped, ScannedTyped, JobTyped
       DEF Next, Start

-----------------------------------------------------------------------------
(* Snapshots of the past *)

LEMMA DiskGrows ==
    ASSUME WatcherTypeOK, [Next]_watcherVars
    PROVE  disk.source <= disk'.source /\ disk.database <= disk'.database
  <1> USE FileNames
  <1>1. disk.source \in Nat /\ disk.database \in Nat
    BY DEF WatcherTypeOK, DiskTypeOK
  <1>2. ASSUME NEW f \in Files, disk' = [disk EXCEPT ![f] = @ + 1]
        PROVE  disk.source <= disk'.source /\ disk.database <= disk'.database
    <2>1. disk \in [Files -> Nat \ {0}]
      BY DEF WatcherTypeOK, DiskTypeOK
    <2>2. CASE f = "source"
      BY <1>1, <1>2, <2>1, <2>2
    <2>3. CASE f = "database"
      BY <1>1, <1>2, <2>1, <2>3
    <2> QED BY <2>2, <2>3
  <1>3. ASSUME disk' = disk PROVE disk.source <= disk'.source /\ disk.database <= disk'.database
    BY <1>1, <1>3
  <1>4. (\E f \in Files : disk' = [disk EXCEPT ![f] = @ + 1]) \/ disk' = disk
    <2>1. CASE World
      BY <2>1 DEF World, Move, Edit
    <2>2. CASE Start \/ Halt
      BY <2>2 DEF Start, StartDiscovers, StartWatches, Halt, diskVars
    <2>3. CASE Consume \/ Reconcile \/ DebounceFires \/ Poll
      BY <2>3 DEF Consume, Reconcile, DebounceFires, Poll, diskVars
    <2>4. CASE Scanner
      BY <2>4 DEF Scanner, ScanCatalog, ScanDiscovers, ScanPlans, ScannerKeeps, diskVars
    <2>5. CASE Scanned
      BY <2>5, ScannedCases
    <2>6. CASE Job
      BY <2>6 DEF Job, JobWorks, LeftoverEnds, JobEnds
    <2>7. CASE UNCHANGED watcherVars
      BY <2>7 DEF watcherVars, diskVars
    <2> QED BY <2>1, <2>2, <2>3, <2>4, <2>5, <2>6, <2>7 DEF Next
  <1> QED BY <1>2, <1>3, <1>4

LEMMA PastStays ==
    ASSUME WatcherTypeOK, [Next]_watcherVars, NEW STATE x, x \in SnapshotRecords, Past(x)
    PROVE  /\ x.source <= disk'.source /\ x.database <= disk'.database
           /\ x.noticed => x.source = Nothing
  <1>1. x.source \in Nat /\ x.database \in Nat
    BY DEF SnapshotRecords
  <1>2. disk.source \in Nat /\ disk.database \in Nat /\ disk'.source \in Nat /\ disk'.database \in Nat
    BY WatcherTypeKept, FileNames DEF WatcherTypeOK, DiskTypeOK
  <1>3. x.source <= disk.source /\ x.database <= disk.database
    BY DEF Past
  <1> QED BY <1>1, <1>2, <1>3, DiskGrows DEF Past

\* A snapshot that is fresh after a step was fresh before it, and nothing was edited.
LEMMA FreshBefore ==
    ASSUME WatcherTypeOK, [Next]_watcherVars, NEW STATE x, x \in SnapshotRecords, Past(x),
           x.source = disk'.source, x.database = disk'.database
    PROVE  Fresh(x) /\ disk' = disk
  <1>1. x.source \in Nat /\ x.database \in Nat
    BY DEF SnapshotRecords
  <1>2. /\ disk \in [Files -> Nat \ {0}] /\ disk' \in [Files -> Nat \ {0}]
        /\ disk.source \in Nat /\ disk.database \in Nat
        /\ disk'.source \in Nat /\ disk'.database \in Nat
    BY WatcherTypeKept, FileNames DEF WatcherTypeOK, DiskTypeOK
  <1>3. disk.source = disk'.source /\ disk.database = disk'.database
    BY <1>1, <1>2, DiskGrows DEF Past
  <1> QED BY <1>2, <1>3, FileNames DEF Fresh

LEMMA PastIf ==
    ASSUME disk.source \in Nat, disk.database \in Nat, NEW x,
           x.source \in {disk.source, 0}, x.database \in {disk.database, 0},
           x.noticed => x.source = Nothing
    PROVE  Past(x)
  BY DEF Past

LEMMA PastFacts ==
    ASSUME WatcherTypeOK
    PROVE  /\ Past(NoSnapshot)
           /\ \A r, c : Past(Discovered(r, c))
           /\ \A r, c : Past([NoSnapshot EXCEPT !.registered = r, !.compiled = c])
  <1>1. disk.source \in Nat /\ disk.database \in Nat
    BY FileNames DEF WatcherTypeOK, DiskTypeOK
  <1>2. \A n \in Nat : 0 <= n /\ n <= n
    OBVIOUS
  <1>3. Past(NoSnapshot)
    BY <1>1, <1>2 DEF Past, NoSnapshot, Nothing
  <1>4. ASSUME NEW r, NEW c PROVE Past(Discovered(r, c))
    <2>1. /\ Discovered(r, c).source \in {disk.source, 0}
          /\ Discovered(r, c).database \in {disk.database, 0}
          /\ Discovered(r, c).noticed => Discovered(r, c).source = Nothing
      BY DEF Discovered, Nothing
    <2> QED BY <1>1, <2>1, PastIf
  <1>5. ASSUME NEW r, NEW c PROVE Past([NoSnapshot EXCEPT !.registered = r, !.compiled = c])
    <2> SUFFICES ASSUME NEW x, x = [NoSnapshot EXCEPT !.registered = r, !.compiled = c]
                 PROVE  Past(x)
      OBVIOUS
    <2>1. x.source = Nothing /\ x.database = Nothing
      BY DEF NoSnapshot
    <2>2. x.source \in {disk.source, 0} /\ x.database \in {disk.database, 0}
      BY <2>1 DEF Nothing
    <2> QED BY ONLY <1>1, <2>1, <2>2, PastIf
  <1> QED BY <1>3, <1>4, <1>5

\* Only start(), the end of a scan and a stop replace the snapshot, and so on.
LEMMA PastsKept ==
    ASSUME WatcherTypeOK, Pasts, [Next]_watcherVars
    PROVE  Pasts'
  <1>t. WatcherTypeOK'
    BY WatcherTypeKept
  <1>s. /\ saved \in SnapshotRecords /\ snapshot \in SnapshotRecords
        /\ scan.seen \in SnapshotRecords
    BY DEF WatcherTypeOK, DiskTypeOK, ImplTypeOK, ScanRecords
  <1>p. /\ saved.source <= disk'.source /\ saved.database <= disk'.database
        /\ saved.noticed => saved.source = Nothing
        /\ snapshot.source <= disk'.source /\ snapshot.database <= disk'.database
        /\ snapshot.noticed => snapshot.source = Nothing
        /\ scan.seen.source <= disk'.source /\ scan.seen.database <= disk'.database
        /\ scan.seen.noticed => scan.seen.source = Nothing
    BY <1>s, PastStays DEF Pasts
  <1>n. /\ NoSnapshot.source <= disk'.source /\ NoSnapshot.database <= disk'.database
        /\ NoSnapshot.noticed => NoSnapshot.source = Nothing
        /\ NoScan.seen = NoSnapshot
    BY <1>s, NoneTyped, PastFacts, PastStays DEF NoScan
  <1>d. ASSUME NEW x, x.source <= disk.source, x.database <= disk.database,
               x.noticed => x.source = Nothing, disk' = disk
        PROVE  x.source <= disk'.source /\ x.database <= disk'.database
               /\ (x.noticed => x.source = Nothing)
    BY <1>d
  <1>1. CASE /\ saved' \in {saved, NoSnapshot, scan.seen}
             /\ snapshot' \in {snapshot, NoSnapshot, scan.seen}
             /\ scan'.seen \in {scan.seen, NoSnapshot, snapshot}
    BY <1>1, <1>p, <1>n DEF Pasts, Past
  <1>2. CASE StartDiscovers
    <2>1. /\ saved' = saved /\ scan' = scan /\ disk' = disk
          /\ snapshot' = Discovered(Registered, facts.database)
      BY <1>2 DEF StartDiscovers, diskVars
    <2>2. Past(snapshot')
      BY <2>1, PastFacts
    <2> QED BY <2>1, <2>2, <1>p DEF Pasts, Past
  <1>3. CASE ScanCatalog \/ ScanDiscovers
    <2>1. saved' = saved /\ snapshot' = snapshot /\ disk' = disk
      BY <1>3 DEF ScanCatalog, ScanDiscovers, ScannerKeeps, diskVars
    <2>2. scan.step # "idle" /\ scan \in ScanRecords
      BY <1>3 DEF ScanCatalog, ScanDiscovers, WatcherTypeOK, ImplTypeOK
    <2>3. \/ scan'.seen = scan.seen \/ scan'.seen = snapshot
          \/ scan'.seen = [NoSnapshot EXCEPT !.registered = Registered, !.compiled = facts.database]
          \/ scan'.seen = Discovered(scan.seen.registered, scan.seen.compiled)
      BY <1>3, <2>2 DEF ScanCatalog, ScanDiscovers, ScanRecords
    <2>4. CASE scan'.seen = scan.seen \/ scan'.seen = snapshot
      BY <2>1, <2>4, <1>p DEF Pasts, Past
    <2>5. CASE ~(scan'.seen = scan.seen \/ scan'.seen = snapshot)
      <3>1. Past([NoSnapshot EXCEPT !.registered = Registered, !.compiled = facts.database])
            /\ Past(Discovered(scan.seen.registered, scan.seen.compiled))
        BY PastFacts
      <3>2. Past(scan'.seen)
        BY <2>3, <2>5, <3>1
      <3> QED BY <2>1, <3>2, <1>p DEF Pasts, Past
    <2> QED BY <2>4, <2>5
  <1>b. ASSUME NEW f, BeginScan(f) PROVE scan'.seen = NoSnapshot
    BY <1>b DEF BeginScan, NoScan
  <1>c. ASSUME NEW b \in BOOLEAN, NEW STATE force, Finished(b, force, dirty)
        PROVE  scan'.seen = NoSnapshot
    BY <1>c, <1>n DEF Finished, BeginScan, NoScan
  <1>4. CASE World
    BY <1>1, <1>4 DEF World, Move, Edit
  <1>5. CASE StartWatches
    BY <1>1, <1>5, <1>n DEF StartWatches, diskVars, NoScan
  <1>6. CASE Halt
    BY <1>1, <1>6, <1>n DEF Halt
  <1>7. CASE Consume \/ Reconcile \/ DebounceFires \/ Poll
    BY <1>1, <1>7, <1>n, <1>b DEF Consume, Reconcile, DebounceFires, Poll, diskVars
  <1>8. CASE ScanPlans
    <2>1. scan'.seen = scan.seen
      BY <1>8 DEF ScanPlans, WatcherTypeOK, ImplTypeOK, ScanRecords
    <2> QED BY <2>1, <1>1, <1>8 DEF ScanPlans, ScannerKeeps, diskVars
  <1>9. CASE Scanned
    <2>1. Failing \/ (Adopting /\ (GivingUp \/ Starting \/ Refused \/ Empty \/ Resting))
      BY <1>9, ScannedCases
    <2>2. scan'.seen = NoSnapshot
      BY <2>1, <1>n, <1>b DEF Failing, GivingUp, Starting, Refused, Empty, Resting
    <2>3. snapshot' \in {snapshot, scan.seen}
      BY <2>1 DEF Failing, Adopting
    <2>4. saved' \in {saved, NoSnapshot, scan.seen}
      BY <2>1 DEF Failing, GivingUp, Starting, Refused, Empty, Resting
    <2> QED BY <2>2, <2>3, <2>4, <1>1
  <1>10. CASE Job
    BY <1>1, <1>10, <1>n, <1>c DEF Job, JobWorks, LeftoverEnds, JobEnds, Submit
  <1>11. CASE UNCHANGED watcherVars
    BY <1>1, <1>11 DEF watcherVars, diskVars
  <1> QED
    BY <1>2, <1>3, <1>4, <1>5, <1>6, <1>7, <1>8, <1>9, <1>10, <1>11 DEF Next, Start, Scanner

-----------------------------------------------------------------------------
(* The world *)

LEMMA NoScanFields ==
    /\ NoScan.step = "idle" /\ ~NoScan.found /\ ~NoScan.refresh /\ ~NoScan.force
    /\ NoScan.outcome = "ok" /\ NoScan.seen = NoSnapshot
  BY DEF NoScan

LEMMA ScanBegun ==
    ASSUME NEW f, BeginScan(f)
    PROVE  /\ scan'.step = "catalog" /\ scan'.force = f /\ scan'.changes = (pendingEvents # 0)
           /\ ~scan'.found /\ ~scan'.refresh /\ scan'.outcome = "ok"
           /\ dirty' = FALSE /\ needsScan' = FALSE /\ pendingEvents' = 0
  BY DEF BeginScan, NoScan

\* An edit makes every snapshot stale.
LEMMA EditStale ==
    ASSUME WatcherInv, NEW f \in Files, Edit(f)
    PROVE  ~Fresh(saved)' /\ ~Fresh(snapshot)' /\ ~Fresh(scan.seen)'
  <1>1. [Next]_watcherVars
    BY DEF Next, World
  <1>2. disk' # disk
    <2>1. disk \in [Files -> Nat \ {0}] /\ disk[f] \in Nat
      BY DEF WatcherInv, WatcherTypeOK, DiskTypeOK
    <2>2. disk'[f] = disk[f] + 1
      BY <2>1 DEF Edit
    <2> QED BY <2>1, <2>2
  <1>3. saved' = saved /\ snapshot' = snapshot /\ scan' = scan
    BY DEF Edit
  <1>4. /\ saved \in SnapshotRecords /\ snapshot \in SnapshotRecords
        /\ scan.seen \in SnapshotRecords
    BY DEF WatcherInv, WatcherTypeOK, DiskTypeOK, ImplTypeOK, ScanRecords
  <1>5. WatcherTypeOK /\ Past(saved) /\ Past(snapshot) /\ Past(scan.seen)
    BY DEF WatcherInv, Pasts
  <1>6. ~(saved.source = disk'.source /\ saved.database = disk'.database)
    BY <1>1, <1>2, <1>4, <1>5, FreshBefore
  <1>7. ~(snapshot.source = disk'.source /\ snapshot.database = disk'.database)
    BY <1>1, <1>2, <1>4, <1>5, FreshBefore
  <1>8. ~(scan.seen.source = disk'.source /\ scan.seen.database = disk'.database)
    BY <1>1, <1>2, <1>4, <1>5, FreshBefore
  <1> QED BY <1>3, <1>6, <1>7, <1>8 DEF Fresh

LEMMA EditGuarded ==
    ASSUME WatcherInv, ~Disturbed, NEW f \in Files, Edit(f)
    PROVE  Guarded'
  <1> USE DEF WatcherInv, Guarded
  <1>1. /\ UNCHANGED <<root, leftover, facts, saved, boot, attached, scan, snapshot>>
        /\ UNCHANGED <<dirty, debounce, pendingEvents, needsScan>>
        /\ UNCHANGED <<active, job, planned, checkpointPending, resumed, failed>>
        /\ ~Unattached
    BY DEF Edit, eventVars, cycleVars
  <1>2. \/ Alive /\ kernel' # {} /\ kernel' \in {kernel \cup {"saved"}, kernel \cup {"overflow"}}
        \/ ~Alive /\ kernel' = kernel
    BY DEF Edit
  <1>3. Alive' <=> Alive
    BY <1>1, <1>2 DEF Alive
  <1>4. ~Fresh(saved)' /\ ~Fresh(snapshot)' /\ ~Fresh(scan.seen)'
    BY EditStale
  <1>5. Turns'
    BY <1>1, <1>2, <1>3 DEF Turns, AtRest, Scanning, Alive
  <1>6. ScanShape'
    BY <1>1 DEF ScanShape, Wanted
  <1>7. Seeing' /\ JustFound'
    BY <1>1 DEF Seeing, JustFound, Running, Wanted, WillFind, Unattached
  <1>8. Announced'
    BY <1>1, <1>2, <1>3 DEF Announced, Unattached, Wanted
  <1>9. Noted'
    <2>1. SUFFICES ASSUME Running, Wanted(snapshot)
                   PROVE  \/ needsScan \/ pendingEvents # 0 \/ kernel' # {}
                          \/ WillFind \/ (scan.step = "catalog" /\ scan.changes)
      BY <1>1 DEF Noted, Running, Wanted, WillFind
    <2>2. CASE Alive
      BY <1>2, <2>2
    <2>3. CASE ~Alive
      BY <1>2, <2>1, <2>3 DEF Seeing, Alive
    <2> QED BY <2>2, <2>3
  <1>10. Planned'
    BY <1>1, <1>4 DEF Planned, Wanted
  <1>11. InCycle' /\ Done' /\ Vouched'
    BY <1>1, <1>4 DEF InCycle, Done, Vouched
  <1> QED BY <1>5, <1>6, <1>7, <1>8, <1>9, <1>10, <1>11

LEMMA MoveGuarded ==
    ASSUME WatcherInv, ~Disturbed, Move
    PROVE  Guarded'
  <1> USE DEF WatcherInv, Guarded
  <1>1. /\ UNCHANGED <<disk, leftover, facts, saved, boot, attached, scan, snapshot>>
        /\ UNCHANGED <<dirty, debounce, pendingEvents, needsScan>>
        /\ UNCHANGED <<active, job, planned, checkpointPending, resumed, failed>>
        /\ ~Unattached
    BY DEF Move, eventVars, cycleVars
  <1>2. \/ Alive /\ root' = "missing" /\ kernel' = kernel \cup {"ignored"}
        \/ ~(Alive /\ root' = "missing") /\ kernel' = kernel
    BY DEF Move
  <1>3. Alive' => Alive /\ root' # "missing"
    BY <1>1, <1>2 DEF Alive
  <1>4. Alive => root # "missing"
    BY DEF Turns
  <1>5. Turns'
    BY <1>1, <1>2, <1>3 DEF Turns, AtRest, Scanning, Alive
  <1>6. ScanShape'
    BY <1>1 DEF ScanShape, Wanted
  <1>7. Seeing' /\ JustFound'
    BY <1>1 DEF Seeing, JustFound, Running, Wanted, WillFind, Unattached
  <1>8. Announced'
    BY <1>1, <1>2, <1>4 DEF Announced, Unattached, Wanted, Fresh, Alive
  <1>9. Noted'
    BY <1>1, <1>2 DEF Noted, Running, Wanted, WillFind, Fresh
  <1>10. Planned'
    <2>1. scan.step = "posted" /\ scan.refresh /\ scan.outcome = "ok" => scan.found
      BY DEF ScanShape, NoScan
    <2> QED BY <1>1, <1>4, <2>1 DEF Planned, Wanted, Fresh, Unattached
  <1>11. InCycle' /\ Done' /\ Vouched'
    BY <1>1 DEF InCycle, Done, Vouched, Running, Wanted, Fresh, WillRefresh
  <1> QED BY <1>5, <1>6, <1>7, <1>8, <1>9, <1>10, <1>11

-----------------------------------------------------------------------------
(* Start and stop *)

LEMMA DiscoversGuarded ==
    ASSUME WatcherInv, StartDiscovers
    PROVE  Guarded'
  <1> USE DEF WatcherInv, Guarded
  <1>1. /\ boot = "off" /\ boot' = "discovered"
        /\ snapshot' = Discovered(Registered, facts.database)
        /\ UNCHANGED <<disk, root, leftover, facts, saved, attached, kernel, scan>>
        /\ UNCHANGED <<dirty, debounce, pendingEvents, needsScan>>
        /\ UNCHANGED <<active, job, planned, checkpointPending, resumed, failed>>
    BY DEF StartDiscovers, diskVars, watchVars, eventVars, cycleVars
  <1>2. AtRest /\ scan.step = "idle"
    BY <1>1 DEF Turns, Scanning, AtRest
  <1>3. scan = NoScan
    BY <1>2 DEF ScanShape
  <1>4. Turns'
    BY <1>1, <1>2 DEF Turns, AtRest, Scanning, Alive
  <1>5. ScanShape'
    BY <1>1, <1>3 DEF ScanShape
  <1>6. JustFound'
    BY <1>1 DEF JustFound, Discovered, Wanted, Fresh
  <1>7. Seeing' /\ Announced' /\ Noted' /\ Planned' /\ InCycle' /\ Done'
    BY <1>1, <1>2 DEF Seeing, Announced, Noted, Planned, InCycle, Done, Running, AtRest
  <1>8. Vouched'
    BY <1>1 DEF Vouched, Fresh
  <1> QED BY <1>4, <1>5, <1>6, <1>7, <1>8

LEMMA WatchesGuarded ==
    ASSUME WatcherInv, StartWatches
    PROVE  Guarded'
  <1> USE DEF WatcherInv, Guarded
  <1>1. /\ boot = "discovered" /\ boot' = "on" /\ needsScan' = FALSE
        /\ UNCHANGED <<disk, root, leftover, facts, saved, snapshot>>
        /\ UNCHANGED <<dirty, debounce, pendingEvents>>
        /\ UNCHANGED <<active, job, planned, checkpointPending, failed>>
    BY DEF StartWatches, diskVars
  <1>2. AtRest
    BY <1>1 DEF Turns
  <1>3. /\ attached' = Attachable(snapshot)
        /\ kernel' = {}
    BY <1>2 DEF StartWatches, Attach, AtRest
  <1>4. \/ scan' = NoScan /\ (snapshot.registered => saved = snapshot)
        \/ scan'.step = "catalog" /\ scan'.force /\ ~scan'.found /\ ~scan'.refresh
           /\ scan'.outcome = "ok"
    BY DEF StartWatches, Restored, NoScan
  <1>5. Wanted(snapshot) => attached' /\ Fresh(snapshot) /\ root # "missing"
    BY <1>1, <1>3 DEF JustFound, Attachable
  <1>6. Turns'
    BY <1>1, <1>2, <1>3 DEF Turns, AtRest, Scanning, Alive, Attachable
  <1>7. ScanShape'
    BY <1>4 DEF ScanShape
  <1>8. Seeing' /\ JustFound' /\ Noted'
    BY <1>1, <1>5 DEF Seeing, JustFound, Noted, Wanted, Running, Fresh
  <1>9. Announced' /\ Planned'
    BY <1>4, NoScanFields DEF Announced, Planned
  <1>10. InCycle'
    BY <1>1, <1>2 DEF InCycle, AtRest
  <1>11. Done'
    BY <1>1, <1>4 DEF Done, Vouched, Wanted, Fresh, WillRefresh
  <1>12. Vouched'
    BY <1>1 DEF Vouched, Fresh
  <1> QED BY <1>6, <1>7, <1>8, <1>9, <1>10, <1>11, <1>12

LEMMA HaltGuarded ==
    ASSUME WatcherInv, Halt
    PROVE  Guarded'
  <1> USE DEF WatcherInv, Guarded
  <1>1. /\ boot' = "off" /\ attached' = FALSE /\ kernel' = {} /\ scan' = NoScan
        /\ dirty' = FALSE /\ pendingEvents' = 0 /\ needsScan' = FALSE
        /\ active' = FALSE /\ job' = "none" /\ checkpointPending' = FALSE /\ failed' = FALSE
        /\ UNCHANGED <<disk, root, facts, saved>>
    BY DEF Halt
  <1>2. Turns' /\ ScanShape'
    BY <1>1, NoScanFields DEF Turns, AtRest, Scanning, Alive, ScanShape
  <1>3. /\ Seeing' /\ JustFound' /\ Announced' /\ Noted' /\ Planned' /\ InCycle' /\ Done'
    BY <1>1, NoScanFields DEF Seeing, JustFound, Announced, Noted, Planned, InCycle, Done, Running
  <1>4. Vouched'
    <2>1. job \in {"import", "extract"} => active
      BY DEF Turns
    <2>2. leftover' = <<>> \/ leftover' = leftover \/ active
      BY <2>1 DEF Halt
    <2> QED BY <1>1, <2>2 DEF Vouched, Fresh
  <1> QED BY <1>2, <1>3, <1>4

-----------------------------------------------------------------------------
(* Events and timers *)

LEMMA ConsumeGuarded ==
    ASSUME WatcherInv, Consume
    PROVE  Guarded'
  <1> USE DEF WatcherInv, Guarded
  <1>1. /\ Running /\ dirty'
        /\ UNCHANGED <<disk, root, leftover, facts, saved, boot, scan, snapshot>>
        /\ UNCHANGED <<active, job, planned, checkpointPending, resumed, failed>>
    BY DEF Consume, Changed, diskVars, cycleVars
  <1>2. pendingEvents' # 0 \/ needsScan'
    <2>1. pendingEvents \in Nat
      BY DEF WatcherTypeOK, ImplTypeOK
    <2>2. Buffer \/ needsScan'
      BY DEF Consume
    <2>3. ASSUME Buffer PROVE pendingEvents' # 0 \/ needsScan'
      BY <2>1, <2>3 DEF Buffer
    <2> QED BY <2>2, <2>3
  <1>3. /\ needsScan => needsScan'
        /\ attached' = attached \/ (attached' = FALSE /\ needsScan')
    BY DEF Consume, Buffer
  <1>4. Alive' => Alive
    BY DEF Alive, Consume
  <1>5. Turns'
    BY <1>1, <1>4 DEF Turns, Scanning, Running
  <1>6. ScanShape'
    BY <1>1 DEF ScanShape, Wanted
  <1>7. Seeing' /\ JustFound'
    BY <1>1, <1>3 DEF Seeing, JustFound, Running, Wanted, WillFind
  <1>8. Announced' /\ Noted'
    BY <1>1, <1>2 DEF Announced, Noted
  <1>9. Planned' /\ InCycle' /\ Done' /\ Vouched'
    BY <1>1 DEF Planned, InCycle, Done, Vouched, Running, Wanted, Fresh, WillRefresh
  <1> QED BY <1>5, <1>6, <1>7, <1>8, <1>9

LEMMA ReconcileGuarded ==
    ASSUME WatcherInv, Reconcile
    PROVE  Guarded'
  <1> USE DEF WatcherInv, Guarded
  <1>1. /\ Running /\ dirty' /\ needsScan'
        /\ UNCHANGED <<disk, root, leftover, facts, saved, boot, attached, kernel, scan, snapshot>>
        /\ UNCHANGED <<pendingEvents, active, job, planned, checkpointPending, resumed, failed>>
    BY DEF Reconcile, Changed, diskVars, watchVars, cycleVars
  <1>2. Turns' /\ ScanShape'
    BY <1>1 DEF Turns, Scanning, Running, Alive, ScanShape, Wanted
  <1>3. Seeing' /\ JustFound' /\ Announced' /\ Noted'
    BY <1>1 DEF Seeing, JustFound, Announced, Noted, Running
  <1>4. Planned' /\ InCycle' /\ Done' /\ Vouched'
    BY <1>1 DEF Planned, InCycle, Done, Vouched, Running, Wanted, Fresh, WillRefresh
  <1> QED BY <1>2, <1>3, <1>4

\* A scan that takes the events and the request along loses neither.
LEMMA ScanTakesAlong ==
    ASSUME WatcherInv, CanScan, BeginScan(needsScan),
           UNCHANGED <<disk, root, leftover, facts, saved, boot, attached, kernel, snapshot>>,
           UNCHANGED <<active, job, planned, checkpointPending, resumed, failed>>
    PROVE  Guarded'
  <1> USE DEF WatcherInv, Guarded
  <1>1. /\ scan'.step = "catalog" /\ scan'.force = needsScan
        /\ scan'.changes = (pendingEvents # 0)
        /\ ~scan'.found /\ ~scan'.refresh /\ scan'.outcome = "ok"
        /\ dirty' = FALSE /\ needsScan' = FALSE /\ pendingEvents' = 0
    BY ScanBegun
  <1>2. Running /\ ~active /\ scan.step = "idle"
    BY DEF CanScan, Scanning
  <1>3. Turns' /\ ScanShape'
    BY <1>1, <1>2 DEF Turns, Scanning, Running, Alive, ScanShape
  <1>4. Seeing' /\ JustFound'
    BY <1>1, <1>2 DEF Seeing, JustFound, Running, Wanted, WillFind
  <1>5. Announced' /\ Planned'
    BY <1>1 DEF Announced, Planned
  <1>6. Noted'
    BY <1>1, <1>2 DEF Noted, Running, Wanted, WillFind, Fresh
  <1>7. InCycle' /\ Done' /\ Vouched'
    BY <1>1, <1>2 DEF InCycle, Done, Vouched, Running, Wanted, Fresh, WillRefresh
  <1> QED BY <1>3, <1>4, <1>5, <1>6, <1>7

LEMMA TimersGuarded ==
    ASSUME WatcherInv, DebounceFires \/ Poll
    PROVE  Guarded'
  <1>1. /\ UNCHANGED <<disk, root, leftover, facts, saved, boot, attached, kernel, snapshot>>
        /\ UNCHANGED <<active, job, planned, checkpointPending, resumed, failed>>
    BY DEF DebounceFires, Poll, diskVars, watchVars, cycleVars
  <1>2. CASE CanScan /\ BeginScan(needsScan)
    BY <1>1, <1>2, ScanTakesAlong
  <1>3. CASE UNCHANGED <<dirty, needsScan, pendingEvents, scan>>
    <2> USE DEF WatcherInv, Guarded
    <2>1. Turns' /\ ScanShape'
      BY <1>1, <1>3 DEF Turns, AtRest, Scanning, Running, Alive, ScanShape, Wanted
    <2>2. Seeing' /\ JustFound' /\ Announced' /\ Noted'
      BY <1>1, <1>3 DEF Seeing, JustFound, Announced, Noted, Running, Wanted, Fresh, WillFind,
         Alive
    <2>3. Planned' /\ InCycle' /\ Done' /\ Vouched'
      BY <1>1, <1>3 DEF Planned, InCycle, Done, Vouched, Running, Wanted, Fresh, WillRefresh
    <2> QED BY <2>1, <2>2, <2>3
  <1> QED BY <1>2, <1>3 DEF DebounceFires, Poll

-----------------------------------------------------------------------------
(* The scanner thread *)

LEMMA ScannerFrame ==
    ASSUME ScannerKeeps
    PROVE  /\ UNCHANGED <<disk, root, leftover, facts, saved, boot, attached, kernel, snapshot>>
           /\ UNCHANGED <<dirty, debounce, pendingEvents, needsScan, active, job>>
           /\ UNCHANGED <<checkpointPending, resumed, failed>>
  BY DEF ScannerKeeps, diskVars, watchVars, eventVars

\* A scan that fails will be repeated.
LEMMA ScanFailing ==
    ASSUME WatcherInv, Scanning, ScannerKeeps, UNCHANGED planned,
           scan' = [scan EXCEPT !.step = "posted", !.outcome = "error"]
    PROVE  Guarded'
  <1> USE DEF WatcherInv, Guarded
  <1>1. scan'.step = "posted" /\ scan'.outcome = "error" /\ scan'.found = scan.found
        /\ scan'.seen = scan.seen
    BY DEF WatcherTypeOK, ImplTypeOK, ScanRecords
  <1>2. Turns' /\ ScanShape'
    BY <1>1, ScannerFrame DEF Turns, AtRest, Scanning, Alive, ScanShape
  <1>3. Seeing' /\ JustFound' /\ Noted'
    BY <1>1, ScannerFrame DEF Turns, AtRest, Seeing, JustFound, Noted, Running, WillFind, Scanning
  <1>4. Planned' /\ InCycle' /\ Done' /\ Vouched'
    BY <1>1, ScannerFrame DEF Planned, InCycle, Done, Vouched, Wanted, Fresh, WillRefresh
  <1>5. ASSUME scan.found PROVE scan.step \in {"plan", "posted"}
    BY <1>5 DEF ScanShape, Scanning, NoScan
  <1>6. Announced'
    BY <1>1, <1>5, ScannerFrame DEF Announced, Wanted, Fresh, Alive
  <1> QED BY <1>2, <1>3, <1>4, <1>6

LEMMA CatalogGuarded ==
    ASSUME WatcherInv, ScanCatalog
    PROVE  Guarded'
  <1> USE DEF WatcherInv, Guarded
  <1> DEFINE changed == \/ snapshot.registered # Registered
                        \/ snapshot.compiled # facts.database
             accepted == scan.changes /\ root = "present"
             refresh == scan.force \/ accepted \/ (changed /\ Registered)
             seen == [NoSnapshot EXCEPT !.registered = Registered,
                                        !.compiled = facts.database]
  <1>1. scan.step = "catalog" /\ ScannerKeeps /\ UNCHANGED planned
    BY DEF ScanCatalog
  <1>2. /\ UNCHANGED <<disk, root, leftover, facts, saved, boot, attached, kernel, snapshot>>
        /\ UNCHANGED <<dirty, debounce, pendingEvents, needsScan, active, job>>
        /\ UNCHANGED <<checkpointPending, resumed, failed>>
    BY <1>1, ScannerFrame
  <1>3. ~scan.found /\ scan.outcome = "ok" /\ ~scan.refresh /\ Running /\ ~active
    BY <1>1, NoScanFields DEF ScanShape, Turns, Scanning, AtRest, Running
  <1>4. scan \in ScanRecords /\ snapshot \in SnapshotRecords
    BY DEF WatcherTypeOK, ImplTypeOK
  <1>5. \/ scan' = [scan EXCEPT !.step = "posted", !.outcome = "error"]
        \/ /\ ~refresh /\ ~changed /\ ~snapshot.noticed
           /\ scan' = [scan EXCEPT !.step = "posted", !.seen = snapshot]
        \/ /\ refresh \/ changed \/ snapshot.noticed
           /\ scan' = [scan EXCEPT !.step = "discover", !.seen = seen, !.refresh = refresh]
    BY DEF ScanCatalog
  <1>6. CASE scan' = [scan EXCEPT !.step = "posted", !.outcome = "error"]
    BY <1>1, <1>6, ScanFailing DEF Scanning
  <1>7. CASE /\ ~refresh /\ ~changed /\ ~snapshot.noticed
             /\ scan' = [scan EXCEPT !.step = "posted", !.seen = snapshot]
    <2>1. /\ scan'.step = "posted" /\ scan'.seen = snapshot
          /\ ~scan'.found /\ scan'.outcome = "ok" /\ ~scan'.refresh
      BY <1>3, <1>4, <1>7 DEF ScanRecords
    <2>2. ~scan.force /\ snapshot.registered = Registered /\ (scan.changes => root # "present")
      BY <1>7
    <2>3. Turns' /\ ScanShape'
      BY <1>2, <1>3, <2>1 DEF Turns, Running, Scanning, Alive, ScanShape
    <2>4. Seeing' /\ JustFound' /\ Announced' /\ Planned'
      BY <1>1, <1>2, <2>1, <2>2
         DEF Seeing, JustFound, Announced, Planned, Running, Wanted, Fresh, WillFind
    <2>5. Noted'
      <3> SUFFICES ASSUME Wanted(snapshot)
                   PROVE  Fresh(snapshot) \/ needsScan \/ pendingEvents # 0 \/ kernel # {}
        BY <1>2 DEF Noted, Wanted, Fresh
      <3>1. Registered
        BY <2>2 DEF Wanted
      <3>2. CASE scan.changes
        <4>1. root = "missing"
          BY <2>2, <3>1, <3>2 DEF Registered, WatcherTypeOK, DiskTypeOK
        <4>2. ~attached \/ kernel # {}
          BY <4>1 DEF Turns, Alive
        <4> QED BY <1>1, <1>3, <2>2, <4>2 DEF Seeing, WillFind
      <3>3. CASE ~scan.changes
        BY <1>1, <1>3, <2>2, <3>3 DEF Noted, WillFind
      <3> QED BY <3>2, <3>3
    <2>6. InCycle' /\ Done' /\ Vouched'
      BY <1>1, <1>2, <1>3, <2>1, <2>2
         DEF InCycle, Done, Vouched, Running, Wanted, Fresh, WillRefresh
    <2> QED BY <2>3, <2>4, <2>5, <2>6
  <1>8. CASE /\ refresh \/ changed \/ snapshot.noticed
             /\ scan' = [scan EXCEPT !.step = "discover", !.seen = seen, !.refresh = refresh]
    <2>1. /\ scan'.step = "discover" /\ scan'.seen = seen /\ scan'.refresh = refresh
          /\ ~scan'.found /\ scan'.outcome = "ok"
      BY <1>3, <1>4, <1>8 DEF ScanRecords
    <2>2. seen.registered = Registered
      BY DEF NoSnapshot
    <2>3. ~refresh => ~Registered \/ snapshot.noticed
      BY <1>8
    <2>4. scan.force => refresh
      OBVIOUS
    <2> HIDE DEF changed, accepted, refresh, seen
    <2>5. Turns' /\ ScanShape'
      BY <1>2, <1>3, <2>1, <2>2, <2>3 DEF Turns, Running, Scanning, Alive, ScanShape
    <2>6. Seeing' /\ JustFound' /\ Announced' /\ Noted' /\ Planned'
      BY <1>2, <2>1 DEF Seeing, JustFound, Announced, Noted, Planned, Running, WillFind, Wanted, Fresh
    <2>7. InCycle' /\ Done' /\ Vouched'
      BY <1>1, <1>2, <1>3, <2>1, <2>4
         DEF InCycle, Done, Vouched, Running, Wanted, Fresh, WillRefresh
    <2> QED BY <2>5, <2>6, <2>7
  <1> QED BY <1>5, <1>6, <1>7, <1>8

LEMMA FindsGuarded ==
    ASSUME WatcherInv, ScanDiscovers
    PROVE  Guarded'
  <1> USE DEF WatcherInv, Guarded
  <1> DEFINE seen == Discovered(scan.seen.registered, scan.seen.compiled)
             recovered == snapshot.noticed /\ ~seen.noticed
             refresh == scan.refresh \/ recovered
  <1>1. scan.step = "discover" /\ ScannerKeeps /\ UNCHANGED planned
    BY DEF ScanDiscovers
  <1>2. /\ UNCHANGED <<disk, root, leftover, facts, saved, boot, attached, kernel, snapshot>>
        /\ UNCHANGED <<dirty, debounce, pendingEvents, needsScan, active, job>>
        /\ UNCHANGED <<checkpointPending, resumed, failed>>
    BY <1>1, ScannerFrame
  <1>3. /\ ~scan.found /\ scan.outcome = "ok" /\ Running /\ ~active
        /\ ~scan.refresh => ~scan.seen.registered \/ snapshot.noticed
    BY <1>1, NoScanFields DEF ScanShape, Turns, Scanning, AtRest, Running
  <1>4. scan \in ScanRecords /\ snapshot \in SnapshotRecords
    BY DEF WatcherTypeOK, ImplTypeOK
  <1>5. \/ scan' = [scan EXCEPT !.step = "posted", !.outcome = "error"]
        \/ scan' = [scan EXCEPT !.step = IF refresh THEN "plan" ELSE "posted",
                                !.refresh = refresh, !.found = TRUE, !.seen = seen]
    BY DEF ScanDiscovers
  <1>6. CASE scan' = [scan EXCEPT !.step = "posted", !.outcome = "error"]
    BY <1>1, <1>6, ScanFailing DEF Scanning
  <1>7. CASE scan' = [scan EXCEPT !.step = IF refresh THEN "plan" ELSE "posted",
                                  !.refresh = refresh, !.found = TRUE, !.seen = seen]
    <2>1. /\ scan'.step = IF refresh THEN "plan" ELSE "posted"
          /\ scan'.refresh = refresh /\ scan'.found /\ scan'.seen = seen
          /\ scan'.outcome = "ok"
      BY <1>3, <1>4, <1>7 DEF ScanRecords
    <2>2. Wanted(seen) => Fresh(seen)
      BY DEF Discovered, Wanted, Fresh
    <2>3. ~refresh => ~Wanted(seen)
      BY <1>3 DEF Discovered, Wanted
    <2>4. scan.refresh => refresh
      OBVIOUS
    <2> HIDE DEF seen, recovered, refresh
    <2>5. Turns' /\ ScanShape'
      BY <1>2, <1>3, <2>1, <2>3 DEF Turns, Running, Scanning, Alive, ScanShape, Wanted
    <2>6. Seeing' /\ JustFound' /\ Noted'
      BY <1>2, <1>3, <2>1 DEF Seeing, JustFound, Noted, Running, WillFind, Wanted, Fresh
    <2>7. Announced' /\ Planned'
      BY <1>2, <2>1, <2>2 DEF Announced, Planned, Wanted, Fresh
    <2>8. InCycle' /\ Done' /\ Vouched'
      BY <1>1, <1>2, <1>3, <2>1, <2>4
         DEF InCycle, Done, Vouched, Running, Wanted, Fresh, WillRefresh
    <2> QED BY <2>5, <2>6, <2>7, <2>8
  <1> QED BY <1>5, <1>6, <1>7

LEMMA PlansGuarded ==
    ASSUME WatcherInv, ScanPlans
    PROVE  Guarded'
  <1> USE DEF WatcherInv, Guarded
  <1>1. scan.step = "plan" /\ ScannerKeeps
    BY DEF ScanPlans
  <1>2. /\ UNCHANGED <<disk, root, leftover, facts, saved, boot, attached, kernel, snapshot>>
        /\ UNCHANGED <<dirty, debounce, pendingEvents, needsScan, active, job>>
        /\ UNCHANGED <<checkpointPending, resumed, failed>>
    BY <1>1, ScannerFrame
  <1>3. scan.found /\ scan.outcome = "ok" /\ scan.refresh /\ Running /\ ~active
    BY <1>1, NoScanFields DEF ScanShape, Turns, Scanning, AtRest, Running
  <1>4. scan \in ScanRecords
    BY DEF WatcherTypeOK, ImplTypeOK
  <1>5. /\ scan'.step = "posted" /\ scan'.found /\ scan'.refresh /\ scan'.seen = scan.seen
        /\ \/ scan'.outcome = "noplan"
           \/ /\ scan'.outcome = "ok"
              /\ planned' = IF scan.seen.registered /\ root # "missing"
                            THEN disk.database ELSE Nothing
    BY <1>3, <1>4 DEF ScanPlans, ScanRecords
  <1>6. disk.database # Nothing
    BY FileNames DEF WatcherTypeOK, DiskTypeOK, Nothing
  <1>7. Turns' /\ ScanShape'
    BY <1>2, <1>3, <1>5 DEF Turns, Running, Scanning, Alive, ScanShape
  <1>8. Seeing' /\ JustFound' /\ Noted'
    BY <1>2, <1>3, <1>5 DEF Seeing, JustFound, Noted, Running, WillFind, Wanted, Fresh
  <1>9. Announced'
    BY <1>1, <1>2, <1>3, <1>5 DEF Announced, Wanted, Fresh, Alive
  <1>10. Planned'
    BY <1>2, <1>5, <1>6 DEF Planned, Wanted, Fresh
  <1>11. InCycle' /\ Done' /\ Vouched'
    BY <1>1, <1>2, <1>3, <1>5
       DEF InCycle, Done, Vouched, Running, Wanted, Fresh, WillRefresh
  <1> QED BY <1>7, <1>8, <1>9, <1>10, <1>11

-----------------------------------------------------------------------------
(* The end of a scan *)

LEMMA FailingGuarded ==
    ASSUME WatcherInv, Scanned, Failing
    PROVE  Guarded'
  <1> USE DEF WatcherInv, Guarded
  <1>1. /\ Running /\ scan.step = "posted" /\ scan' = NoScan /\ needsScan' /\ failed'
        /\ ~checkpointPending'
        /\ UNCHANGED <<boot, disk, root, leftover, facts, saved, attached, kernel>>
        /\ UNCHANGED <<dirty, pendingEvents, snapshot, active, job, planned>>
    BY ScannedCases DEF Failing, watchVars
  <1>2. ~active
    BY <1>1 DEF Turns, Scanning
  <1>3. Turns' /\ ScanShape'
    BY <1>1, <1>2, NoScanFields DEF Turns, Running, Scanning, Alive, ScanShape
  <1>4. Seeing' /\ JustFound' /\ Noted' /\ Announced' /\ Planned'
    BY <1>1, NoScanFields DEF Seeing, JustFound, Noted, Announced, Planned, Running
  <1>5. InCycle' /\ Done' /\ Vouched'
    BY <1>1, <1>2 DEF InCycle, Done, Vouched, Fresh
  <1> QED BY <1>3, <1>4, <1>5

\* What scanned() leaves besides the cycle, however it goes on.
LEMMA AdoptingSees ==
    ASSUME WatcherInv, Scanned, Adopting, GivingUp \/ Starting \/ Refused \/ Empty \/ Resting
    PROVE  /\ Running' /\ ~active
           /\ Seeing' /\ JustFound' /\ Noted' /\ Announced' /\ Planned' /\ ScanShape'
           /\ Alive' => root' # "missing"
           /\ Wanted(snapshot)' /\ root = "missing" /\ scan.found =>
                needsScan' \/ (scan'.step = "catalog" /\ scan'.force)
  <1> USE DEF WatcherInv, Guarded
  <1>1. /\ Running /\ scan.step = "posted" /\ scan.outcome # "error"
        /\ snapshot' = scan.seen
        /\ UNCHANGED <<boot, disk, root, leftover, facts, planned>>
    BY ScannedCases DEF Adopting
  <1>2. ~active
    BY <1>1 DEF Turns, Scanning
  <1>3. \/ scan' = NoScan /\ pendingEvents' = pendingEvents /\ (needsScan => needsScan')
        \/ /\ scan'.step = "catalog" /\ ~scan'.found /\ ~scan'.refresh /\ scan'.outcome = "ok"
           /\ (needsScan => scan'.force) /\ scan'.changes = (pendingEvents # 0)
    BY ScanBegun DEF GivingUp, Starting, Refused, Empty, Resting, ScanForce
  <1>4. scan.found /\ SkippedWatch(scan.seen) =>
          needsScan' \/ (scan'.step = "catalog" /\ scan'.force)
    BY ScanBegun DEF GivingUp, Starting, Refused, Empty, Resting, ScanForce
  <1>5. \/ /\ scan.found /\ attached' = Attachable(scan.seen)
           /\ kernel' = IF Attachable(scan.seen) /\ Alive THEN kernel ELSE kernel \cap {"overflow"}
        \/ ~scan.found /\ UNCHANGED <<attached, kernel>>
    BY DEF Adopting, Attach, watchVars
  <1>6. ~scan.found => scan.seen = snapshot /\ ~scan.refresh
    BY <1>1, NoScanFields DEF ScanShape
  <1>7. ScanShape'
    BY <1>3 DEF ScanShape
  <1>8. Announced' /\ Planned' /\ JustFound'
    BY <1>1, <1>3, NoScanFields DEF Announced, Planned, JustFound, Running
  <1>9. Alive' => root' # "missing"
    BY <1>1, <1>5 DEF Alive, Attachable, Turns
  <1>10. Seeing'
    <2>1. CASE scan.found
      BY <1>1, <1>3, <1>4, <1>5, <2>1 DEF Seeing, Wanted, SkippedWatch, Attachable, WillFind
    <2>2. CASE ~scan.found
      BY <1>1, <1>3, <1>5, <1>6, <2>2 DEF Seeing, Wanted, WillFind
    <2> QED BY <2>1, <2>2
  <1>11. Noted'
    <2> SUFFICES ASSUME Wanted(scan.seen), ~Fresh(scan.seen)
                 PROVE  \/ needsScan' \/ pendingEvents' # 0 \/ kernel' # {}
                        \/ (scan'.step = "catalog" /\ (scan'.force \/ scan'.changes))
      BY <1>1 DEF Noted, Wanted, Fresh, WillFind
    <2>1. needsScan \/ pendingEvents # 0 =>
            \/ needsScan' \/ pendingEvents' # 0
            \/ (scan'.step = "catalog" /\ (scan'.force \/ scan'.changes))
      BY <1>3
    <2>2. CASE scan.found
      <3>1. CASE root = "missing"
        BY <1>4, <2>2, <3>1 DEF SkippedWatch, Attachable
      <3>2. CASE root # "missing" /\ Alive /\ kernel # {}
        BY <1>5, <2>2, <3>2 DEF Attachable
      <3> QED BY <1>1, <2>1, <2>2, <3>1, <3>2 DEF Announced
    <2>3. CASE ~scan.found
      BY <1>1, <1>5, <1>6, <2>1, <2>3 DEF Noted, Running, WillFind
    <2> QED BY <2>2, <2>3
  <1>12. Wanted(snapshot)' /\ root = "missing" /\ scan.found =>
           needsScan' \/ (scan'.step = "catalog" /\ scan'.force)
    BY <1>1, <1>4 DEF Wanted, SkippedWatch, Attachable
  <1> QED BY <1>1, <1>2, <1>7, <1>8, <1>9, <1>10, <1>11, <1>12 DEF Running

LEMMA AdoptingGuarded ==
    ASSUME WatcherInv, Scanned, Adopting, GivingUp \/ Starting \/ Refused \/ Empty \/ Resting
    PROVE  Guarded'
  <1> USE DEF WatcherInv, Guarded
  <1>1. /\ Running /\ scan.step = "posted" /\ scan.outcome # "error"
        /\ snapshot' = scan.seen
        /\ UNCHANGED <<boot, disk, root, leftover, facts, planned>>
    BY ScannedCases DEF Adopting
  <1>2. /\ Running' /\ ~active
        /\ Seeing' /\ JustFound' /\ Noted' /\ Announced' /\ Planned' /\ ScanShape'
        /\ Alive' => root' # "missing"
    BY AdoptingSees
  <1>3. ~active /\ job = "none"
    BY <1>2 DEF Turns
  <1>4. SUFFICES Turns' /\ InCycle' /\ Done' /\ Vouched'
    BY <1>2
  <1>5. CASE GivingUp
    <2>1. /\ scan' = NoScan /\ failed' /\ ~checkpointPending'
          /\ UNCHANGED <<saved, dirty, pendingEvents, active, job>>
      BY <1>5 DEF GivingUp
    <2>2. Turns'
      BY <1>2, <1>3, <2>1, NoScanFields DEF Turns, Running, Scanning
    <2>3. InCycle' /\ Done' /\ Vouched'
      BY <1>1, <1>3, <2>1 DEF InCycle, Done, Vouched, Fresh
    <2> QED BY <2>2, <2>3
  <1>6. CASE Starting
    <2>1. /\ scan' = NoScan /\ ~failed' /\ ~checkpointPending' /\ active' /\ job' = "import"
          /\ saved' = NoSnapshot /\ UNCHANGED <<dirty, pendingEvents>>
          /\ scan.refresh /\ scan.outcome = "ok" /\ planned # Nothing
      BY <1>6 DEF Starting
    <2>2. Turns'
      BY <1>2, <2>1, NoScanFields DEF Turns, Running, Scanning
    <2>3. InCycle'
      BY <1>1, <2>1 DEF InCycle, Planned, Wanted, Fresh
    <2>4. Done' /\ Vouched'
      BY <2>1 DEF Done, Vouched, NoSnapshot
    <2> QED BY <2>2, <2>3, <2>4
  <1>7. CASE Refused
    <2>1. /\ scan' = NoScan /\ failed' /\ ~checkpointPending' /\ ~active' /\ job' = "none"
          /\ saved' = NoSnapshot /\ dirty' = dirty /\ UNCHANGED pendingEvents
      BY <1>7 DEF Refused
    <2>2. Turns'
      BY <1>2, <2>1, NoScanFields DEF Turns, Running, Scanning
    <2>3. InCycle' /\ Done' /\ Vouched'
      BY <2>1 DEF InCycle, Done, Vouched, NoSnapshot
    <2> QED BY <2>2, <2>3
  <1>8. CASE Empty
    <2>1. /\ ~failed' /\ ~active' /\ job' = "none" /\ saved' = NoSnapshot
          /\ scan.refresh /\ scan.outcome = "ok" /\ planned = Nothing
          /\ pendingEvents' = 0 /\ scan'.step = "catalog" /\ needsScan' = FALSE
      BY <1>8, ScanBegun DEF Empty
    <2>2. Turns'
      BY <1>2, <2>1 DEF Turns, Running, Scanning
    <2>3. InCycle' /\ Vouched'
      BY <2>1 DEF InCycle, Vouched, NoSnapshot
    <2>4. scan.found
      BY <1>1, <2>1 DEF ScanShape, NoScan
    <2>5. Wanted(snapshot)' => root = "missing"
      BY <1>1, <2>1 DEF Planned, Wanted
    <2>6. Wanted(snapshot)' => WillRefresh'
      <3>1. Wanted(snapshot)' => needsScan' \/ (scan'.step = "catalog" /\ scan'.force)
        BY <2>4, <2>5, AdoptingSees
      <3> QED BY <2>1, <3>1 DEF WillRefresh
    <2>7. Done'
      BY <2>6 DEF Done
    <2> QED BY <2>2, <2>3, <2>7
  <1>9. CASE Resting
    <2>1. /\ ~scan.refresh /\ scan' = NoScan
          /\ UNCHANGED <<dirty, pendingEvents, active, job, failed>>
          /\ checkpointPending' \in {checkpointPending, FALSE}
          /\ \/ saved' = saved
             \/ checkpointPending /\ ~scan.seen.noticed /\ saved' = scan.seen
      BY <1>9 DEF Resting
    <2>2. Turns'
      <3>1. checkpointPending' => ~active' /\ ~failed'
        BY <1>3, <2>1 DEF Turns
      <3>2. pendingEvents' # 0 => dirty'
        BY <2>1 DEF Turns
      <3>3. ~Scanning' /\ Running' /\ ~active' /\ job' = "none"
        BY <1>2, <1>3, <2>1, NoScanFields DEF Scanning
      <3> QED BY <1>2, <3>1, <3>2, <3>3 DEF Turns, Running
    <2>3. ~WillRefresh
      BY <1>1, <2>1 DEF WillRefresh
    <2>4. Wanted(scan.seen) => scan.seen = snapshot
      BY <1>1, <2>1 DEF ScanShape, NoScan
    <2>5. Wanted(scan.seen) /\ Fresh(scan.seen) /\ ~failed => facts = disk /\ leftover = <<>>
      BY <1>1, <1>3, <2>3, <2>4 DEF Done
    <2>6. Done'
      BY <1>1, <2>1, <2>5 DEF Done, Wanted, Fresh
    <2>7. InCycle'
      BY <1>3, <2>1 DEF InCycle
    <2>8. Vouched'
      <3>1. CASE saved' = saved
        BY <1>1, <1>3, <2>1, <3>1 DEF Vouched, Fresh
      <3>2. CASE checkpointPending /\ ~scan.seen.noticed /\ saved' = scan.seen
        <4>1. ~failed
          BY <3>2 DEF Turns
        <4>2. saved'.registered => Wanted(scan.seen)
          BY <3>2 DEF Wanted
        <4>3. Fresh(saved)' => Fresh(scan.seen)
          BY <1>1, <3>2 DEF Fresh
        <4> QED BY <1>1, <1>3, <2>1, <2>5, <4>1, <4>2, <4>3 DEF Vouched
      <3> QED BY <2>1, <3>1, <3>2
    <2> QED BY <2>2, <2>6, <2>7, <2>8
  <1> QED BY <1>5, <1>6, <1>7, <1>8, <1>9

-----------------------------------------------------------------------------
(* The jobs *)

LEMMA WorkGuarded ==
    ASSUME WatcherInv, JobWorks
    PROVE  Guarded'
  <1> USE DEF WatcherInv, Guarded
  <1>1. /\ leftover = <<>> /\ Processed(job, planned)
        /\ job' = IF job = "import" THEN "imported" ELSE "extracted"
        /\ UNCHANGED <<disk, root, leftover, saved, boot, attached, kernel, scan, snapshot>>
        /\ UNCHANGED <<dirty, debounce, pendingEvents, needsScan>>
        /\ UNCHANGED <<active, planned, checkpointPending, resumed, failed>>
    BY DEF JobWorks, watchVars, eventVars
  <1>2. \/ job = "import" /\ facts' = [facts EXCEPT !.database = planned]
        \/ job = "extract" /\ facts' = [facts EXCEPT !.source = disk.source]
    BY <1>1 DEF Processed
  <1>3. active
    BY <1>2 DEF Turns
  <1>4. Turns' /\ ScanShape'
    BY <1>1, <1>3 DEF Turns, AtRest, Scanning, Alive, ScanShape, Wanted
  <1>5. Seeing' /\ JustFound' /\ Noted' /\ Announced' /\ Planned'
    BY <1>1 DEF Seeing, JustFound, Noted, Announced, Planned, Running, Wanted, Fresh, WillFind,
       Alive
  <1>6. InCycle'
    <2>1. facts \in [Files -> Nat]
      BY DEF WatcherTypeOK, DiskTypeOK
    <2>2. CASE job = "import"
      <3>1. facts'.database = planned
        BY <1>2, <2>1, <2>2, FileNames
      <3> QED BY <1>1, <1>3, <2>2, <3>1 DEF InCycle, Wanted, Fresh
    <2>3. CASE job = "extract"
      <3>1. facts'.source = disk.source /\ facts'.database = facts.database
        BY <1>2, <2>1, <2>3, FileNames
      <3> QED BY <1>1, <1>3, <2>3, <3>1 DEF InCycle, Wanted, Fresh
    <2> QED BY <1>2, <2>2, <2>3
  <1>7. Done'
    BY <1>1, <1>3 DEF Done
  <1>8. Vouched'
    BY <1>1, <1>3 DEF Vouched, Fresh
  <1> QED BY <1>4, <1>5, <1>6, <1>7, <1>8

LEMMA LeftoverGuarded ==
    ASSUME WatcherInv, LeftoverEnds
    PROVE  Guarded'
  <1> USE DEF WatcherInv, Guarded
  <1>1. /\ leftover # <<>>
        /\ UNCHANGED <<disk, root, saved, boot, attached, kernel, scan, snapshot>>
        /\ UNCHANGED <<dirty, debounce, pendingEvents, needsScan>>
        /\ UNCHANGED <<active, job, planned, checkpointPending, resumed, failed>>
    BY DEF LeftoverEnds, watchVars, eventVars, cycleVars
  <1>2. Turns' /\ ScanShape'
    BY <1>1 DEF Turns, AtRest, Scanning, Alive, ScanShape, Wanted
  <1>3. Seeing' /\ JustFound' /\ Noted' /\ Announced' /\ Planned'
    BY <1>1 DEF Seeing, JustFound, Noted, Announced, Planned, Running, Wanted, Fresh, WillFind,
       Alive
  <1>4. InCycle' /\ Done' /\ Vouched'
    BY <1>1 DEF InCycle, Done, Vouched, Running, Wanted, Fresh, WillRefresh
  <1> QED BY <1>2, <1>3, <1>4

LEMMA EndsGuarded ==
    ASSUME WatcherInv, JobEnds
    PROVE  Guarded'
  <1> USE DEF WatcherInv, Guarded
  <1>1. /\ Running /\ job # "none"
        /\ UNCHANGED <<disk, root, leftover, saved, boot, attached, kernel, snapshot, planned>>
    BY DEF JobEnds, watchVars
  <1>2. active /\ ~failed /\ scan = NoScan
    BY <1>1 DEF Turns, ScanShape, Scanning
  <1>3. \/ /\ job = "imported" /\ facts' = facts
           /\ active' /\ job' = "extract" /\ ~checkpointPending' /\ ~failed'
           /\ needsScan' = needsScan /\ scan' = NoScan /\ UNCHANGED <<dirty, pendingEvents>>
        \/ /\ job = "extracted" /\ facts' = facts /\ failed' = failed
           /\ ~active' /\ job' = "none" /\ BeginScan(needsScan)
        \/ /\ failed' /\ ~active' /\ job' = "none" /\ ~checkpointPending'
           /\ needsScan' = needsScan /\ dirty' = dirty /\ scan' = NoScan
           /\ UNCHANGED pendingEvents
    BY DEF JobEnds, Submit, Finished
  <1>4. ~(saved.registered /\ Fresh(saved))
    BY <1>2 DEF Vouched
  <1>5. Vouched'
    BY <1>1, <1>4 DEF Vouched, Fresh
  <1>6. CASE /\ job = "imported" /\ facts' = facts
             /\ active' /\ job' = "extract" /\ ~checkpointPending' /\ ~failed'
             /\ needsScan' = needsScan /\ scan' = NoScan /\ UNCHANGED <<dirty, pendingEvents>>
    <2>1. Turns' /\ ScanShape'
      BY <1>1, <1>2, <1>6, NoScanFields DEF Turns, Running, Scanning, Alive, ScanShape
    <2>2. Seeing' /\ JustFound' /\ Noted' /\ Announced' /\ Planned'
      BY <1>1, <1>2, <1>6, NoScanFields
         DEF Seeing, JustFound, Noted, Announced, Planned, Running, Wanted, Fresh, WillFind
    <2>3. InCycle' /\ Done'
      BY <1>1, <1>2, <1>6 DEF InCycle, Done, Wanted, Fresh
    <2> QED BY <1>5, <2>1, <2>2, <2>3
  <1>7. CASE /\ job = "extracted" /\ facts' = facts /\ failed' = failed
             /\ ~active' /\ job' = "none" /\ BeginScan(needsScan)
    <2>1. /\ scan'.step = "catalog" /\ scan'.force = needsScan
          /\ scan'.changes = (pendingEvents # 0)
          /\ ~scan'.found /\ ~scan'.refresh /\ scan'.outcome = "ok"
          /\ needsScan' = FALSE /\ pendingEvents' = 0
      BY <1>7, ScanBegun
    <2>2. Turns' /\ ScanShape'
      BY <1>1, <1>2, <1>7, <2>1 DEF Turns, Running, Scanning, Alive, ScanShape
    <2>3. Seeing' /\ JustFound' /\ Noted' /\ Announced' /\ Planned'
      BY <1>1, <1>2, <2>1, NoScanFields
         DEF Seeing, JustFound, Noted, Announced, Planned, Running, Wanted, Fresh, WillFind
    <2>4. InCycle'
      BY <1>7 DEF InCycle
    <2>5. ASSUME Wanted(snapshot), Fresh(snapshot) PROVE facts = disk /\ leftover = <<>>
      <3>1. /\ facts.database = disk.database /\ facts.source = disk.source
            /\ leftover = <<>>
        BY <1>2, <1>7, <2>5 DEF InCycle
      <3>2. facts \in [Files -> Nat] /\ disk \in [Files -> Nat \ {0}]
        BY DEF WatcherTypeOK, DiskTypeOK
      <3> QED BY <3>1, <3>2, FileNames
    <2>6. Done'
      BY <1>1, <1>7, <2>5 DEF Done, Wanted, Fresh
    <2> QED BY <1>5, <2>2, <2>3, <2>4, <2>6
  <1>8. CASE /\ failed' /\ ~active' /\ job' = "none" /\ ~checkpointPending'
             /\ needsScan' = needsScan /\ dirty' = dirty /\ scan' = NoScan
             /\ UNCHANGED pendingEvents
    <2>1. Turns' /\ ScanShape'
      BY <1>1, <1>2, <1>8, NoScanFields DEF Turns, Running, Scanning, Alive, ScanShape
    <2>2. Seeing' /\ JustFound' /\ Noted' /\ Announced' /\ Planned'
      BY <1>1, <1>2, <1>8, NoScanFields
         DEF Seeing, JustFound, Noted, Announced, Planned, Running, Wanted, Fresh, WillFind
    <2>3. InCycle' /\ Done'
      BY <1>8 DEF InCycle, Done
    <2> QED BY <1>5, <2>1, <2>2, <2>3
  <1> QED BY <1>3, <1>6, <1>7, <1>8

-----------------------------------------------------------------------------
(* The theorems *)

LEMMA WatcherInvNext ==
    ASSUME WatcherInv, ~Disturbed, [Next]_watcherVars
    PROVE  WatcherInv'
  <1>1. WatcherTypeOK' /\ Pasts'
    BY WatcherTypeKept, PastsKept DEF WatcherInv
  <1>2. CASE UNCHANGED watcherVars
    <2>1. Guarded'
      BY <1>2 DEF WatcherInv, Guarded, watcherVars, diskVars, watchVars, eventVars, cycleVars,
         Turns, AtRest, Scanning, Alive, ScanShape, Seeing, JustFound, Announced, Noted, Planned,
         InCycle, Done, Vouched, Running, Wanted, Fresh, WillFind, WillRefresh
    <2> QED BY <1>1, <2>1 DEF WatcherInv
  <1>3. CASE World
    BY <1>1, <1>3, EditGuarded, MoveGuarded DEF World, WatcherInv
  <1>4. CASE Start \/ Halt
    BY <1>1, <1>4, DiscoversGuarded, WatchesGuarded, HaltGuarded DEF Start, WatcherInv
  <1>5. CASE Consume \/ Reconcile \/ DebounceFires \/ Poll
    BY <1>1, <1>5, ConsumeGuarded, ReconcileGuarded, TimersGuarded DEF WatcherInv
  <1>6. CASE Scanner
    BY <1>1, <1>6, CatalogGuarded, FindsGuarded, PlansGuarded DEF Scanner, WatcherInv
  <1>7. CASE Scanned
    <2>1. Failing \/ (Adopting /\ (GivingUp \/ Starting \/ Refused \/ Empty \/ Resting))
      BY <1>7, ScannedCases DEF WatcherInv
    <2> QED BY <1>1, <1>7, <2>1, FailingGuarded, AdoptingGuarded DEF WatcherInv
  <1>8. CASE Job
    BY <1>1, <1>8, WorkGuarded, LeftoverGuarded, EndsGuarded DEF Job, WatcherInv
  <1> QED BY <1>2, <1>3, <1>4, <1>5, <1>6, <1>7, <1>8 DEF Next

\* The inductive invariant holds in every behaviour.
THEOREM WatcherInvariant ==
    ASSUME ~Disturbed
    PROVE  Spec => []WatcherInv
  BY WatcherInvInit, WatcherInvNext, PTL DEF Spec

(***************************************************************************)
(* Whatever is edited, moved, stopped or fails, the directory of a         *)
(* registered clone that the last scan found is watched, or another scan   *)
(* is to come (applyScan, scanned(), Watcher.cpp).                         *)
(***************************************************************************)
THEOREM WatcherSees ==
    ASSUME ~Disturbed
    PROVE  Spec => []NeverBlind
  <1>1. WatcherInv => NeverBlind
    BY DEF WatcherInv, Guarded, Seeing, NeverBlind, WillFind, Scanning
  <1> QED BY <1>1, WatcherInvariant, PTL

(***************************************************************************)
(* When the watcher reports neither work nor an error, the facts are those *)
(* of the clone as it is now, for any number of edits, failures, stops and *)
(* any size of the event buffer.                                           *)
(***************************************************************************)
THEOREM SettledMeansCurrent ==
    ASSUME ~Disturbed
    PROVE  Spec => []SettledIsCurrent
  <1>1. ASSUME WatcherInv, Settled, root = "present" PROVE facts = disk
    <2> USE DEF WatcherInv, Guarded
    <2>1. /\ Running /\ ~active /\ ~needsScan /\ ~failed /\ kernel = {}
          /\ ~dirty /\ scan.step = "idle" /\ Wanted(snapshot)
      BY <1>1 DEF Settled, Scanning, Wanted, Registered
    <2>2. pendingEvents = 0
      BY <1>1, <2>1 DEF Turns
    <2>3. Fresh(snapshot)
      BY <1>1, <2>1, <2>2 DEF Noted, WillFind
    <2> QED BY <1>1, <2>1, <2>3 DEF Done, WillRefresh
  <1>2. WatcherInv => SettledIsCurrent
    BY <1>1 DEF SettledIsCurrent
  <1> QED BY <1>2, WatcherInvariant, PTL

(***************************************************************************)
(* While the checkpoint matches the clone, so do the facts, whatever was   *)
(* interrupted, failed or was edited since it was written (Snapshot.cpp).  *)
(***************************************************************************)
THEOREM CheckpointVouches ==
    ASSUME ~Disturbed
    PROVE  Spec => []CheckpointHonest
  <1>1. ASSUME WatcherInv, root = "present", saved = Discovered(TRUE, facts.database)
        PROVE  facts = disk
    <2>1. saved.registered /\ Fresh(saved)
      BY <1>1 DEF Discovered, Fresh
    <2> QED BY <1>1, <2>1 DEF WatcherInv, Guarded, Vouched
  <1>2. WatcherInv => CheckpointHonest
    BY <1>1 DEF CheckpointHonest
  <1> QED BY <1>2, WatcherInvariant, PTL

=============================================================================
