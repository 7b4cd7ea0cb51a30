----------------------------- MODULE JobService -----------------------------
(***************************************************************************)
(* What the compatibility job queue promises its clients, with nothing of  *)
(* how it keeps the promise: jobs are accepted under increasing ids, they  *)
(* start one at a time in the order of acceptance, a finished job never    *)
(* changes, and only a finished job is ever forgotten.                     *)
(*                                                                         *)
(* JobQueue implements this module (property Implements of JobQueue).      *)
(***************************************************************************)
EXTENDS Integers

CONSTANT
    MaxJobs           \* ids a behaviour may hand out (bound of the model)

VARIABLES
    status,           \* what a client sees of every id
    open              \* FALSE once the service has shut down

serviceVars == <<status, open>>

Ids == 1..MaxJobs

Outcomes == {"cancelled", "succeeded", "failed"}

Unfinished(i) == status[i] \in {"queued", "running"}

-----------------------------------------------------------------------------

ServiceInit ==
    /\ status = [i \in Ids |-> "absent"]
    /\ open = TRUE

(***************************************************************************)
(* A request is accepted: the next id becomes a queued job, and at most    *)
(* the record of one finished job is dropped to make room.                 *)
(***************************************************************************)
Accept(i) ==
    /\ open
    /\ status[i] = "absent"
    /\ \A j \in 1..(i - 1) : status[j] # "absent"
    /\ \/ status' = [status EXCEPT ![i] = "queued"]
       \/ \E j \in Ids :
            /\ status[j] \in Outcomes
            /\ status' = [status EXCEPT ![i] = "queued", ![j] = "forgotten"]
    /\ UNCHANGED open

(***************************************************************************)
(* The oldest queued job starts, provided that no other job runs; a        *)
(* command that cannot be started fails in the same step.                  *)
(***************************************************************************)
Start(i) ==
    /\ open
    /\ status[i] = "queued"
    /\ \A j \in Ids : status[j] # "running"
    /\ \A j \in 1..(i - 1) : status[j] # "queued"
    /\ \E s \in {"running", "failed"} : status' = [status EXCEPT ![i] = s]
    /\ UNCHANGED open

(***************************************************************************)
(* A running job ends with any outcome; a queued one can only be           *)
(* cancelled.                                                              *)
(***************************************************************************)
Finish(i) ==
    /\ \/ /\ status[i] = "running"
          /\ \E s \in Outcomes : status' = [status EXCEPT ![i] = s]
       \/ /\ status[i] = "queued"
          /\ status' = [status EXCEPT ![i] = "cancelled"]
    /\ UNCHANGED open

(***************************************************************************)
(* Shutdown cancels everything that has not finished, at once.             *)
(***************************************************************************)
Shutdown ==
    /\ open
    /\ open' = FALSE
    /\ status' = [i \in Ids |->
                    IF Unfinished(i) THEN "cancelled" ELSE status[i]]

ServiceNext ==
    \/ \E i \in Ids : Accept(i) \/ Start(i) \/ Finish(i)
    \/ Shutdown

ServiceSpec == ServiceInit /\ [][ServiceNext]_serviceVars

=============================================================================
