------------------------------ MODULE MCDicts ------------------------------
(* Dicts for TLC: keys whose places another seed changes.                    *)
EXTENDS Dicts

CONSTANTS k1, k2, N1

MCHash(seed, k) == IF k = k1 THEN seed ELSE seed + 1
=============================================================================
