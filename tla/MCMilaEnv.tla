------------------------------ MODULE MCMilaEnv ------------------------------
(* MilaEnv for TLC.  Cells, payloads, names and slots are interchangeable:  *)
(* no definition tells two of a kind apart.                                 *)
EXTENDS MilaEnv, TLC

Perms == Permutations(Cells) \cup Permutations(Payloads)
           \cup Permutations(Names) \cup Permutations(Slots)
=============================================================================
