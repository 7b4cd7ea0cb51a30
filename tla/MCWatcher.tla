----------------------------- MODULE MCWatcher -----------------------------
(***************************************************************************)
(* TLC instances of Watcher: two edits, one change of the registration or  *)
(* of the directory, one fault and one stop, in any order, and a buffer of *)
(* one event.                                                              *)
(***************************************************************************)
EXTENDS Watcher

MCMaxBuffered == 1

MCMaxEdits == 2

MCMaxMoves == 1

MCMaxFaults == 1

MCMaxHalts == 1

=============================================================================
