---------------------------- MODULE MCJobQueue ----------------------------
(***************************************************************************)
(* TLC instance of JobQueue: six submissions against a queue of two and a  *)
(* retention of four, so that every limit is met while jobs are queued,    *)
(* running and finished.                                                   *)
(***************************************************************************)
EXTENDS JobQueue

MCMaxPending == 2

MCMaxRetained == 4

MCMaxJobs == 6

=============================================================================
