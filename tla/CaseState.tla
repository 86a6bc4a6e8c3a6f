------------------------------- MODULE CaseState -------------------------------
(***************************************************************************)
(* What run_case of both programs (src/main.c, src/tls_main.c) has in      *)
(* common: where it is between the creation and the destruction of its     *)
(* backend, the backend it points to and the objects that has allocated.   *)
(* AeadCase and TlsCase are its two forms.                                 *)
(***************************************************************************)
EXTENDS Integers

CONSTANTS
  INT_MAX,       \* sizes beyond it are refused: they are cast to int
  MaxBatches,    \* bound: batches run_case starts
  MaxIterations  \* bound: iterations of a batch

ASSUME CaseAssumption ==
  INT_MAX \in Nat /\ MaxBatches \in Nat /\ MaxIterations \in Nat \ {0}

VARIABLES
  pc,            \* where run_case is, see TypeOK in AeadCase
  faulty,        \* whether allocations, calls and the clock may fail in this run
  message_size,
  backend,       \* whether the local of run_case points to the backend
  heap,          \* the life of each object
  batches,       \* batches that returned 0
  left           \* iterations left of the batch that runs

(* What is still to be given up is so from one of these places.            *)
Unwinding == pc \in {"create_failed", "verify_failed", "measure_failed"}

(* Mutant: one iteration too many.                                         *)
OneMoreIteration == left >= 0

MoreIterations == left > 0

(* The state of the contract of module Lifecycle.                          *)
Phase ==
  CASE pc = "create" -> "start"
    [] pc \in {"verify", "verify_failed"} -> "created"
    [] pc \in {"batch", "loop", "measure_failed"} -> "verified"
    [] pc \in {"create_failed", "failed"} -> "failed"
    [] pc = "done" -> "done"
==============================================================================
