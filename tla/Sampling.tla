------------------------------- MODULE Sampling -------------------------------
(***************************************************************************)
(* What measuring one case promises, whatever the clock and the backend    *)
(* do: one iteration count is fixed before the first sample, every sample  *)
(* is taken with it, a case that ends well has exactly the requested       *)
(* samples, and nothing is printed after a failure.  src/main.c and        *)
(* src/tls_main.c implement it.                                            *)
(***************************************************************************)
EXTENDS Integers, Sequences

CONSTANTS
  InitialCount   \* calibration never settles below its first count

VARIABLES
  phase,         \* "calibrate", "measure", "done" or "failed"
  samples,       \* the number of samples asked for
  iterations,    \* the count in force, 0 before there is one
  rows           \* the samples printed

vars == <<phase, samples, iterations, rows>>

Init ==
  /\ phase = "calibrate" /\ samples \in Nat \ {0}
  /\ iterations = 0 /\ rows = << >>

Fix ==
  /\ phase = "calibrate" /\ phase' = "measure"
  /\ iterations' \in Nat /\ iterations' >= InitialCount
  /\ UNCHANGED <<samples, rows>>

Report ==
  /\ phase = "measure" /\ Len(rows) < samples
  /\ Len(rows') = Len(rows) + 1
  /\ SubSeq(rows', 1, Len(rows)) = rows
  /\ rows'[Len(rows')].iterations = iterations
  /\ UNCHANGED <<phase, samples, iterations>>

Finish ==
  /\ phase = "measure" /\ Len(rows) = samples
  /\ phase' = "done"
  /\ UNCHANGED <<samples, iterations, rows>>

Fail ==
  /\ phase \in {"calibrate", "measure"} /\ phase' = "failed"
  /\ UNCHANGED <<samples, iterations, rows>>

Next == Fix \/ Report \/ Finish \/ Fail

Spec == Init /\ [][Next]_vars
==============================================================================
