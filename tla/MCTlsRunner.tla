------------------------------ MODULE MCTlsRunner ------------------------------
(* A counter of six bits and first counts of 1 and 4: doubling reaches     *)
(* half its range, the scaled count passes it and the bytes overflow.      *)
EXTENDS TlsRunner

MCTargets == {8, 20, 62}
MCCosts == {0, 1, 3, 21}
==============================================================================
