------------------------------ MODULE NoValue ------------------------------
(* The value that stands for a missing one in the models of the databases. *)
CONSTANT None
=============================================================================
