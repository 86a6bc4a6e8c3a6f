------------------------------- MODULE TlsRunner -------------------------------
(***************************************************************************)
(* The measurement loop of one TLS case: run_timed, calibrate and the      *)
(* sampling loop of run_case (src/tls_main.c).  They are the loops of      *)
(* module Runner, written a second time: a handshake case starts from one  *)
(* iteration and counts no bytes, a transfer case starts from sixteen.     *)
(***************************************************************************)
EXTENDS Integers, Sequences

CONSTANTS
  UINT64_MAX, Targets, SampleCounts, Costs, Jitter,  \* as in Runner
  TransferSizes,   \* message sizes of transfer cases
  HandshakeCount,  \* iterations a handshake calibration starts from, 1
  TransferCount    \* iterations a transfer calibration starts from, 16

ASSUME TlsRunnerAssumption ==
  /\ UINT64_MAX \in Nat /\ TransferSizes \subseteq 1 .. UINT64_MAX
  /\ Targets \subseteq 1 .. UINT64_MAX - 1 /\ SampleCounts \subseteq Nat \ {0}
  /\ Costs \subseteq Nat /\ Jitter \in Nat
  /\ HandshakeCount \in 1 .. UINT64_MAX /\ TransferCount \in 1 .. UINT64_MAX

VARIABLES
  benchmark,  \* "handshake" or "transfer"
  pc, size, target, samples, cost, jitter, count, sample, iterations, rows

run == <<pc, size, target, samples, cost, jitter, count, sample, iterations, rows>>
vars == <<benchmark, run>>

(* run_timed counts message_size bytes for a transfer and none for a       *)
(* handshake, whose message_size is 0 (src/tls_main.c:280).                *)
Handshake == INSTANCE Runner WITH InitialCount <- HandshakeCount, Sizes <- {0}
Transfer == INSTANCE Runner WITH InitialCount <- TransferCount, Sizes <- TransferSizes

Init ==
  \/ benchmark = "handshake" /\ Handshake!Init
  \/ benchmark = "transfer" /\ Transfer!Init

(* calibrate: one batch and what follows from it, then the scaling.        *)
Calibrate ==
  /\ UNCHANGED benchmark
  /\ \/ benchmark = "handshake"
        /\ (Handshake!Probe \/ Handshake!ProbeFails \/ Handshake!Settle)
     \/ benchmark = "transfer"
        /\ (Transfer!Probe \/ Transfer!ProbeFails \/ Transfer!Settle)

(* The sampling loop of run_case: run_timed and a row, or the end.         *)
Run ==
  /\ UNCHANGED benchmark
  /\ \/ benchmark = "handshake"
        /\ (Handshake!Measure \/ Handshake!MeasureFails \/ Handshake!Finish)
     \/ benchmark = "transfer"
        /\ (Transfer!Measure \/ Transfer!MeasureFails \/ Transfer!Finish)

Terminated == pc \in {"done", "failed"} /\ UNCHANGED vars

Next == Calibrate \/ Run \/ Terminated

Spec == Init /\ [][Next]_vars

FairSpec == Spec /\ WF_vars(Calibrate \/ Run)

-----------------------------------------------------------------------------
(* Properties                                                              *)

(* A handshake row counts no bytes, a transfer row exactly what was sent;  *)
(* both were measured with the calibrated count over a positive time, by   *)
(* which the rates divide, and that time is the batch's: run_timed never   *)
(* takes the 0 of a clock that fails for a reading.                        *)
TlsRowsExact ==
  \A i \in 1 .. Len(rows) :
    /\ rows[i].iterations = iterations /\ rows[i].elapsed_ns > 0
    /\ rows[i].elapsed_ns \in iterations * cost .. iterations * cost + jitter
    /\ rows[i].bytes = IF benchmark = "handshake" THEN 0 ELSE iterations * size

(* A slow handshake is never measured beyond the target, unless a single   *)
(* one exceeds it; a transfer, unless the first sixteen do.                *)
TlsNeverOvershoots ==
  Handshake!Settled =>
    \/ iterations * cost <= target
    \/ iterations = IF benchmark = "handshake" THEN HandshakeCount ELSE TransferCount

(* calibrate returns, from either first count.                             *)
TlsCalibrationReturns ==
  pc = "calibrate" ~> Handshake!Settled \/ pc = "failed"

(* A run of either benchmark is a run of the contract of one case.         *)
Contract == INSTANCE Sampling WITH
  InitialCount <- 1, phase <- IF pc = "scale" THEN "calibrate" ELSE pc

TlsImplements == Contract!Spec
==============================================================================
