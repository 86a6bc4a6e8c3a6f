------------------------------- MODULE Lifecycle -------------------------------
(***************************************************************************)
(* What running one case promises about its backend: nothing is measured   *)
(* before the backend has been created and verified, its resources are     *)
(* held exactly while it is in use, and they are given back once, however  *)
(* the case ends.  The run_case of src/main.c and of src/tls_main.c, with  *)
(* their backends, implement it.                                           *)
(***************************************************************************)
EXTENDS Integers

VARIABLES
  phase,   \* "start", "created", "verified", "done" or "failed"
  held,    \* whether the resources of the backend are allocated
  batches  \* batches measured

vars == <<phase, held, batches>>

Init == phase = "start" /\ held = FALSE /\ batches = 0

Create ==
  /\ phase = "start" /\ phase' = "created" /\ held' = TRUE
  /\ UNCHANGED batches

Verify ==
  /\ phase = "created" /\ phase' = "verified"
  /\ UNCHANGED <<held, batches>>

Measure ==
  /\ phase = "verified" /\ batches' = batches + 1
  /\ UNCHANGED <<phase, held>>

Finish ==
  /\ phase = "verified" /\ phase' = "done" /\ held' = FALSE
  /\ UNCHANGED batches

Fail ==
  /\ phase \in {"start", "created", "verified"}
  /\ phase' = "failed" /\ held' = FALSE
  /\ UNCHANGED batches

Next == Create \/ Verify \/ Measure \/ Finish \/ Fail

Spec == Init /\ [][Next]_vars
==============================================================================
