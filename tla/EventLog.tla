------------------------------ MODULE EventLog ------------------------------
(***************************************************************************)
(* The server's log.  Threads put records into a bounded queue and never   *)
(* wait; one worker writes them to a file.  What does not fit is counted,  *)
(* and the worker reports the count.                                       *)
(***************************************************************************)
EXTENDS NoValue, Naturals, Sequences, FiniteSets

ASSUME NoneIsNoRecord == None \notin Nat

CONSTANTS
    QueueLimit,     \* records that the queue holds
    MaxRecords      \* bound on the records that threads offer

VARIABLES
    records,        \* the queue
    dropped,        \* records not queued since the worker last looked
    stopping,       \* the logger is being destroyed
    worker,         \* what the worker does, with what it took from the queue
    sink,           \* is the log file still written?
    lines,          \* what the file says, in order
    offered,        \* records offered before the end (ghost)
    lost,           \* those that were not queued (ghost)
    uncounted       \* those that dropped counts (ghost)

logVars == <<records, dropped, stopping, worker, sink, lines, offered, lost, uncounted>>

LogInit ==
    /\ records = <<>> /\ dropped = 0 /\ stopping = FALSE
    /\ worker = [step |-> "wait", dropped |-> 0, of |-> {}, value |-> None]
    /\ sink = TRUE /\ lines = <<>> /\ offered = 0 /\ lost = {} /\ uncounted = {}

\* A record is queued or counted under the lock; one that cannot be built
\* for lack of memory is counted too.
Drop ==
    /\ dropped' = dropped + 1
    /\ lost' = lost \cup {offered + 1}
    /\ uncounted' = uncounted \cup {offered + 1}
    /\ UNCHANGED records
Queue ==
    /\ Len(records) < QueueLimit
    /\ records' = Append(records, offered + 1)
    /\ UNCHANGED <<dropped, lost, uncounted>>
Write ==
    /\ ~stopping /\ offered < MaxRecords
    /\ offered' = offered + 1
    /\ Queue \/ Drop
    /\ UNCHANGED <<stopping, worker, sink, lines>>

Destroy ==
    /\ ~stopping
    /\ stopping' = TRUE
    /\ UNCHANGED <<records, dropped, worker, sink, lines, offered, lost, uncounted>>

-----------------------------------------------------------------------------

\* Mutant of MayEnd: the count of what was dropped does not keep the worker.
MayEndUntold == stopping /\ records = <<>>
\* Evaluated after the count was taken and found zero.
MayEnd == stopping /\ records = <<>> /\ dropped = 0

\* The worker takes the count and one record under the lock.
Take ==
    /\ worker.step = "wait"
    /\ stopping \/ records # <<>> \/ dropped # 0
    /\ worker' = IF MayEnd THEN [worker EXCEPT !.step = "ended"]
                 ELSE [step |-> "report", dropped |-> dropped, of |-> uncounted,
                       value |-> IF records = <<>> THEN None ELSE Head(records)]
    /\ dropped' = 0 /\ uncounted' = {}
    /\ records' = IF records = <<>> THEN records ELSE Tail(records)
    /\ UNCHANGED <<stopping, sink, lines, offered, lost>>

\* A write that fails closes the file; nothing is written any more.
Emit(line) ==
    \/ /\ lines' = IF sink THEN Append(lines, line) ELSE lines
       /\ UNCHANGED sink
    \/ /\ sink
       /\ sink' = FALSE
       /\ UNCHANGED lines

Report ==
    /\ worker.step = "report"
    /\ IF worker.dropped = 0 THEN UNCHANGED <<lines, sink>> ELSE Emit([dropped |-> worker.dropped, of |-> worker.of])
    /\ worker' = [worker EXCEPT !.step = "emit"]
    /\ UNCHANGED <<records, dropped, stopping, offered, lost, uncounted>>

EmitRecord ==
    /\ worker.step = "emit"
    /\ IF worker.value = None THEN UNCHANGED <<lines, sink>> ELSE Emit([record |-> worker.value])
    /\ worker' = [worker EXCEPT !.step = "wait"]
    /\ UNCHANGED <<records, dropped, stopping, offered, lost, uncounted>>

LogNext == Write \/ Destroy \/ Take \/ Report \/ EmitRecord

LogSpec == LogInit /\ [][LogNext]_logVars

-----------------------------------------------------------------------------
Reports == {i \in DOMAIN lines : "dropped" \in DOMAIN lines[i]}
RecordLines == DOMAIN lines \ Reports
Numbers == {lines[i].record : i \in RecordLines}
Told == UNION {lines[i].of : i \in Reports}

(* The file accounts for every record.  Records are in it in order and      *)
(* once; a report counts records that were lost, and none that another      *)
(* report counts; and when the worker has ended and the file could be       *)
(* written all the time, each record that was offered before the end is in  *)
(* it or counted.                                                           *)
LogAccounts ==
    /\ \A i, j \in RecordLines : i < j => lines[i].record < lines[j].record
    /\ \A i \in Reports : lines[i].dropped = Cardinality(lines[i].of) /\ lines[i].of \subseteq lost
    /\ \A i, j \in Reports : i # j => lines[i].of \cap lines[j].of = {}
    /\ worker.step = "ended" /\ sink => Numbers = (1..offered) \ lost /\ Told = lost
=============================================================================
