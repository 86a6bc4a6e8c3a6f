-------------------------------- MODULE Runner --------------------------------
(***************************************************************************)
(* The measurement loop of one benchmark case: ofb_run_sample and          *)
(* ofb_calibrate (src/runner.c) with the sampling loop of run_case         *)
(* (src/main.c).                                                           *)
(*                                                                         *)
(* The backend is external: a batch of n iterations either fails or takes  *)
(* cost * n nanoseconds plus at most jitter, which an environment has or   *)
(* not.  The clock is external too: a reading is the time or, when         *)
(* clock_gettime fails, 0.  Counters have the width of uint64_t, given by  *)
(* UINT64_MAX.                                                             *)
(***************************************************************************)
EXTENDS Integers, Sequences

CONSTANTS
  UINT64_MAX,    \* the largest value of uint64_t
  InitialCount,  \* iterations of the first calibration batch
  Sizes,         \* values of message_size
  Targets,       \* values of options->sample_ns
  SampleCounts,  \* values of options->samples
  Costs,         \* nanoseconds one iteration of the backend takes
  Jitter         \* nanoseconds a batch may take beyond its iterations

(* sample_ns is a product of whole milliseconds that main keeps below     *)
(* UINT64_MAX (src/main.c:175), and main refuses zero for it and for      *)
(* samples.                                                               *)
ASSUME RunnerAssumption ==
  /\ UINT64_MAX \in Nat
  /\ InitialCount \in 1 .. UINT64_MAX
  /\ Sizes \subseteq 0 .. UINT64_MAX
  /\ Targets \subseteq 1 .. UINT64_MAX - 1
  /\ SampleCounts \subseteq Nat \ {0}
  /\ Costs \subseteq Nat
  /\ Jitter \in Nat

VARIABLES
  pc,          \* "calibrate", "scale", "measure", "done" or "failed"
  size,        \* message_size of the case
  target,      \* options->sample_ns
  samples,     \* options->samples
  cost,        \* what one iteration costs in this environment
  jitter,      \* what a batch may take beyond its iterations in it
  count,       \* the local count of ofb_calibrate
  sample,      \* the struct ofb_sample the last ofb_run_sample filled
  iterations,  \* the calibrated count, 0 until ofb_calibrate sets it
  rows         \* the samples printed so far

case == <<size, target, samples, cost, jitter>>
vars == <<pc, case, count, sample, iterations, rows>>

NoSample == [iterations |-> 0, elapsed_ns |-> 0, bytes |-> 0]

Init ==
  /\ pc = "calibrate"
  /\ size \in Sizes /\ target \in Targets /\ samples \in SampleCounts
  /\ cost \in Costs /\ jitter \in {0, Jitter}
  /\ count = InitialCount
  /\ sample = NoSample
  /\ iterations = 0
  /\ rows = << >>

-----------------------------------------------------------------------------
(* ofb_run_sample                                                          *)

Wrap(n) == n % (UINT64_MAX + 1)

(* The readings ofb_now_ns may return at time t.                           *)
ofb_now_ns(t) == {0, t}

(* How long ofb_backend_run_batch may take for n iterations.               *)
Durations(n) == {cost * n + j : j \in 0 .. jitter}

(* Mutant: the product is not tested before it is formed.                  *)
NoOverflowTest(start, ok, end, n) == start = 0 \/ ~ok \/ end <= start

Rejected(start, ok, end, n) ==
  \/ start = 0 \/ ~ok
  \/ end <= start
  \/ size # 0 /\ n > UINT64_MAX \div size

(* One call of ofb_run_sample with n iterations that returns 0, and one    *)
(* that returns -1 and leaves *sample alone.                               *)
Sampled(n) ==
  \E start \in ofb_now_ns(1), ok \in BOOLEAN, d \in Durations(n) :
    \E end \in ofb_now_ns(1 + d) :
      /\ ~Rejected(start, ok, end, n)
      /\ sample' = [iterations |-> n, elapsed_ns |-> end - start,
                    bytes |-> Wrap(n * size)]

SampleFails(n) ==
  /\ \E start \in ofb_now_ns(1), ok \in BOOLEAN, d \in Durations(n) :
       \E end \in ofb_now_ns(1 + d) : Rejected(start, ok, end, n)
  /\ UNCHANGED sample

-----------------------------------------------------------------------------
(* ofb_calibrate                                                           *)

(* Mutant: the loop does not stop before count would wrap.                 *)
LongEnoughOnly(elapsed) == elapsed >= target \div 8

(* The loop ends with this batch.                                          *)
LastBatch(elapsed) == elapsed >= target \div 8 \/ count > UINT64_MAX \div 2

Probe ==
  /\ pc = "calibrate"
  /\ Sampled(count)
  /\ IF LastBatch(sample'.elapsed_ns)
       THEN pc' = "scale" /\ UNCHANGED count
       ELSE count' = Wrap(count * 2) /\ UNCHANGED pc
  /\ UNCHANGED <<case, iterations, rows>>

ProbeFails ==
  /\ pc = "calibrate"
  /\ SampleFails(count)
  /\ pc' = "failed"
  /\ UNCHANGED <<case, count, iterations, rows>>

(* Mutants: the target is overshot, the count is never scaled, or it is    *)
(* scaled past the width of the counter.                                   *)
ScaledTwice(elapsed) == (2 * count * target) \div elapsed
NeverScales(elapsed) == FALSE
ScalesUnbounded(elapsed) == elapsed < target /\ elapsed # 0

Scaled(elapsed) == (count * target) \div elapsed

(* The scaled count is used when it is needed and fits: scaled <           *)
(* UINT64_MAX, compared as the long doubles they are.                      *)
Scales(elapsed) ==
  /\ elapsed < target /\ elapsed # 0
  /\ count * target < UINT64_MAX * elapsed

Settle ==
  /\ pc = "scale"
  /\ LET settled == IF Scales(sample.elapsed_ns)
                      THEN Scaled(sample.elapsed_ns) ELSE count
     IN  iterations' = IF settled = 0 THEN 1 ELSE settled
  /\ pc' = "measure"
  /\ UNCHANGED <<case, count, sample, rows>>

-----------------------------------------------------------------------------
(* The sampling loop of run_case                                           *)

(* Mutant: the loop runs once too often.                                   *)
OneMoreSample == Len(rows) <= samples

MoreSamples == Len(rows) < samples

Measure ==
  /\ pc = "measure" /\ MoreSamples
  /\ Sampled(iterations)
  /\ rows' = Append(rows, sample')
  /\ UNCHANGED <<pc, case, count, iterations>>

MeasureFails ==
  /\ pc = "measure" /\ MoreSamples
  /\ SampleFails(iterations)
  /\ pc' = "failed"
  /\ UNCHANGED <<case, count, iterations, rows>>

Finish ==
  /\ pc = "measure" /\ ~MoreSamples
  /\ pc' = "done"
  /\ UNCHANGED <<case, count, sample, iterations, rows>>

Terminated == pc \in {"done", "failed"} /\ UNCHANGED vars

Step == \/ Probe \/ ProbeFails \/ Settle
        \/ Measure \/ MeasureFails \/ Finish

Next == Step \/ Terminated

Spec == Init /\ [][Next]_vars

(* A batch returns: the backends have no unbounded wait, so run_case keeps *)
(* taking its next step.                                                   *)
FairSpec == Spec /\ WF_vars(Step)

-----------------------------------------------------------------------------
(* Properties                                                              *)

Sample == [iterations : 0 .. UINT64_MAX, elapsed_ns : Nat, bytes : 0 .. UINT64_MAX]

(* Every variable of the case and of ofb_calibrate has its C type; in      *)
(* particular the conversion of scaled to uint64_t is always in range.     *)
TypeOK ==
  /\ pc \in {"calibrate", "scale", "measure", "done", "failed"}
  /\ size \in Sizes /\ target \in Targets /\ samples \in SampleCounts
  /\ cost \in Costs /\ jitter \in {0, Jitter}
  /\ count \in 0 .. UINT64_MAX
  /\ sample \in Sample
  /\ iterations \in 0 .. UINT64_MAX
  /\ rows \in Seq(Sample)

Settled == pc \in {"measure", "done"}

(* Every printed sample was measured with the calibrated count, over a     *)
(* positive time (the rate divides by it) that is the batch's own, from    *)
(* two good readings of the clock, and has the true number of bytes        *)
(* although the product is taken modulo 2^64: ofb_run_sample refuses what  *)
(* does not fit.                                                           *)
RowsExact ==
  \A i \in 1 .. Len(rows) :
    /\ rows[i].iterations = iterations
    /\ rows[i].elapsed_ns > 0
    /\ rows[i].elapsed_ns \in iterations * cost .. iterations * cost + jitter
    /\ rows[i].bytes = iterations * size

(* However noisy the calibration batches, ofb_calibrate never settles on a *)
(* count whose work exceeds the target, unless it is the count it started  *)
(* from: doubling stops at an eighth of the target and noise only makes    *)
(* the scale factor smaller.                                               *)
NeverOvershoots ==
  Settled => iterations = InitialCount \/ iterations * cost <= target

(* Without noise the calibrated sample fills the target: one more          *)
(* iteration would exceed it.                                              *)
SteadyFillsTarget ==
  Settled /\ jitter = 0 => (iterations + 1) * cost > target

(* What the documentation says of a calibrated sample (--sample-ms:        *)
(* "target duration per sample"): its work fits the requested duration.    *)
SampleFitsTarget ==
  Settled => iterations * cost <= target

(* ofb_calibrate returns: whatever the batches take, count reaches the     *)
(* target or half its range.                                               *)
CalibrationReturns == pc = "calibrate" ~> Settled \/ pc = "failed"

(* The case implements the contract of module Sampling.                    *)
Contract == INSTANCE Sampling WITH
  phase <- IF pc = "scale" THEN "calibrate" ELSE pc

Implements == Contract!Spec
==============================================================================
