--------------------------- MODULE MCChildProcess ---------------------------
(***************************************************************************)
(* TLC instances of ChildProcess: both pipes, a limit of one unit, and two *)
(* units written at most, so that a stream can be complete, cut by the     *)
(* limit and cut by a timer.                                               *)
(***************************************************************************)
EXTENDS ChildProcess

MCStreams == {"stdout", "stderr"}

MCLimit == 1

MCMaxWritten == 2

=============================================================================
