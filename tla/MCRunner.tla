------------------------------- MODULE MCRunner -------------------------------
(* Instances of Runner for TLC: a counter of six bits, so that doubling    *)
(* reaches half its range, the scaled count passes it and bytes overflow.  *)
EXTENDS Runner

MCSizes == {0, 1, 5}
MCTargets == {1, 7, 8, 9, 16, 20, 33, 47, 61, 62}
MCSampleCounts == {1, 2}
MCCosts == {0, 1, 2, 3, 5, 7, 11, 20}
==============================================================================
