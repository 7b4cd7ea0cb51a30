----------------------------- MODULE MCRuntime -----------------------------
(***************************************************************************)
(* TLC instances of Runtime.  Two native jobs of any kind and a catalog    *)
(* call compete for a work queue of one, next to the refreshes and to one  *)
(* or two compatibility jobs; one record is retained, so that a cancelled  *)
(* job can be evicted before its task is dropped.  Safety is checked with  *)
(* two compatibility jobs, liveness with one.                              *)
(***************************************************************************)
EXTENDS Runtime

MCMaxPending == 1

MCMaxRetained == 3

MCTwoJobs == 2

MCOneJob == 1

MCMaxWork == 1

MCMaxNativeRetained == 1

MCMaxQueries == 1

MCMaxNative == 2

MCMaxCalls == 1

=============================================================================
