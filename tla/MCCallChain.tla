----------------------------- MODULE MCCallChain -----------------------------
(* CallChain for TLC: the main program and at most one thread, two functions *)
(* and at most three Envs on each stack.  No symmetry: a liveness property   *)
(* is checked.                                                               *)
EXTENDS CallChain
=============================================================================
