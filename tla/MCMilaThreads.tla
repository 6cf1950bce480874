---------------------------- MODULE MCMilaThreads ----------------------------
(* MilaThreads for TLC: the main program and up to two threads, which may    *)
(* make, join and cancel each other.  The ids are numbers that grow: no      *)
(* symmetry.                                                                 *)
EXTENDS MilaThreads
=============================================================================
