----------------------------- MODULE RunnerProofs -----------------------------
(***************************************************************************)
(* Proofs about Runner, for every width of the counter, every case and     *)
(* every environment.                                                      *)
(***************************************************************************)
EXTENDS Runner, TLAPS

USE RunnerAssumption

-----------------------------------------------------------------------------
(* Arithmetic                                                              *)

(* The truncated quotient, as the product that brackets the dividend.      *)
LEMMA Quotient ==
  ASSUME NEW a \in Nat, NEW b \in Nat, b > 0
  PROVE  /\ a \div b \in Nat
         /\ (a \div b) * b <= a
         /\ a < (a \div b + 1) * b
  OBVIOUS

(* A factor common to both sides of an inequality cancels.                 *)
LEMMA Cancel ==
  ASSUME NEW a \in Nat, NEW b \in Nat, NEW c \in Nat, c > 0
  PROVE  /\ a * c <= b * c => a <= b
         /\ a * c < b * c => a < b
  <1>1. ASSUME a > b PROVE a * c > b * c
    <2>1. PICK d \in Nat : a = b + 1 + d
      BY <1>1, a - b - 1 \in Nat, a = b + 1 + (a - b - 1)
    <2>2. a * c = b * c + c + d * c
      BY <2>1
    <2>3. d * c \in Nat
      OBVIOUS
    <2>. QED BY <2>2, <2>3
  <1>2. ASSUME a >= b PROVE a * c >= b * c
    <2>1. PICK d \in Nat : a = b + d
      BY <1>2, a - b \in Nat, a = b + (a - b)
    <2>2. a * c = b * c + d * c
      BY <2>1
    <2>3. d * c \in Nat
      OBVIOUS
    <2>. QED BY <2>2, <2>3
  <1>. QED BY <1>1, <1>2

(* Multiplying both sides keeps an inequality.                             *)
LEMMA Scale ==
  ASSUME NEW a \in Nat, NEW b \in Nat, NEW c \in Nat, a <= b
  PROVE  c * a <= c * b
  <1>1. PICK d \in Nat : b = a + d
    BY b - a \in Nat, b = a + (b - a)
  <1>2. c * b = c * a + c * d
    BY <1>1
  <1>3. c * d \in Nat
    OBVIOUS
  <1>. QED BY <1>2, <1>3

-----------------------------------------------------------------------------
(* The inductive invariant                                                 *)

(* While it calibrates, the count is the first one or was doubled from one *)
(* whose batch took less than an eighth of the target; so its work is      *)
(* below a quarter of it.                                                  *)
CountBounded ==
  /\ count >= InitialCount
  /\ count = InitialCount \/ 4 * (cost * count) <= target

(* The batch that ended the loop took at least its work.                   *)
LastBatchTimed ==
  pc = "scale" => /\ sample.elapsed_ns > 0
                  /\ cost * count <= sample.elapsed_ns

Unsettled ==
  pc \in {"calibrate", "scale"} => iterations = 0 /\ rows = << >>

(* The sampling loop never prints more than was asked for.                 *)
NotTooMany == Len(rows) <= samples

IInv ==
  /\ TypeOK
  /\ CountBounded /\ LastBatchTimed /\ Unsettled /\ NotTooMany
  /\ Settled => iterations >= InitialCount
  /\ RowsExact
  /\ NeverOvershoots

(* A sample that ofb_run_sample accepts is typed, timed and exact.         *)
LEMMA SampledFacts ==
  ASSUME TypeOK, NEW n \in 0 .. UINT64_MAX, Sampled(n)
  PROVE  /\ sample' \in Sample
         /\ sample'.iterations = n
         /\ sample'.elapsed_ns > 0
         /\ sample'.elapsed_ns >= cost * n
         /\ sample'.elapsed_ns \in n * cost .. n * cost + jitter
         /\ sample'.bytes = n * size
  <1>1. PICK start \in {0, 1}, ok \in BOOLEAN, d \in Durations(n) :
          \E end \in {0, 1 + d} :
            /\ ~Rejected(start, ok, end, n)
            /\ sample' = [iterations |-> n, elapsed_ns |-> end - start,
                          bytes |-> Wrap(n * size)]
    BY DEF Sampled, ofb_now_ns
  <1>2. /\ cost \in Nat /\ size \in 0 .. UINT64_MAX
        /\ cost * n \in Nat /\ n * size \in Nat
    BY DEF TypeOK
  <1>3. d \in Nat /\ d >= cost * n
    BY <1>2 DEF Durations
  <1>4. PICK end \in {0, 1 + d} :
            /\ ~Rejected(start, ok, end, n)
            /\ sample' = [iterations |-> n, elapsed_ns |-> end - start,
                          bytes |-> Wrap(n * size)]
    BY <1>1
  <1>5. start = 1 /\ end = 1 + d /\ d > 0
    BY <1>4, <1>3 DEF Rejected
  <1>6. n * size <= UINT64_MAX
    <2>1. CASE size = 0
      BY <2>1, <1>2
    <2>2. CASE size > 0
      <3>1. n <= UINT64_MAX \div size
        BY <1>4, <2>2, <1>2, UINT64_MAX \div size \in Int DEF Rejected
      <3>2. /\ UINT64_MAX \div size \in Nat
            /\ (UINT64_MAX \div size) * size <= UINT64_MAX
        BY Quotient, <2>2, <1>2
      <3>3. size * n <= size * (UINT64_MAX \div size)
        BY Scale, <3>1, <3>2, <1>2
      <3>. QED BY <3>2, <3>3, <1>2
    <2>. QED BY <2>1, <2>2, <1>2
  <1>7. Wrap(n * size) = n * size
    BY <1>2, <1>6 DEF Wrap
  <1>8. sample'.elapsed_ns = d
    BY <1>3, <1>4, <1>5
  <1>9. d \in n * cost .. n * cost + jitter
    <2>1. PICK j \in 0 .. jitter : d = cost * n + j
      BY DEF Durations
    <2>2. cost * n = n * cost /\ jitter \in Nat
      BY <1>2, RunnerAssumption DEF TypeOK
    <2>. QED BY <1>2, <2>1, <2>2
  <1>10. sample' \in Sample /\ sample'.iterations = n /\ sample'.bytes = n * size
    BY <1>2, <1>3, <1>4, <1>5, <1>6, <1>7 DEF Sample
  <1>. QED BY <1>3, <1>5, <1>2, <1>8, <1>9, <1>10

(* The scaled count lies between the last batch's count and UINT64_MAX, and *)
(* its work fits the target.                                               *)
LEMMA ScaledFacts ==
  ASSUME NEW t \in Nat, NEW c \in Nat, NEW e \in Nat, NEW k \in Nat,
         e > 0, c > 0, e < t, k * c <= e, c * t < UINT64_MAX * e
  PROVE  LET q == (c * t) \div e
         IN  q \in c .. UINT64_MAX /\ q * k <= t
  <1>. DEFINE q == (c * t) \div e
  <1>1. c * t \in Nat /\ UINT64_MAX * e \in Nat /\ k * c \in Nat
    OBVIOUS
  <1>2. q \in Nat /\ q * e <= c * t /\ c * t < (q + 1) * e
    BY Quotient, <1>1
  <1>. HIDE DEF q
  <1>3. c < q + 1
    <2>1. c * e <= c * t
      BY Scale
    <2>2. c * e < (q + 1) * e
      BY <2>1, <1>1, <1>2, c * e \in Nat, (q + 1) * e \in Nat
    <2>. QED BY <2>2, <1>2, Cancel, q + 1 \in Nat
  <1>4. q <= UINT64_MAX
    <2>1. q * e < UINT64_MAX * e
      BY <1>1, <1>2, q * e \in Nat
    <2>2. q < UINT64_MAX
      BY <2>1, <1>2, Cancel
    <2>. QED BY <2>2, <1>2
  <1>5. q * k <= t
    <2>1. q * (k * c) <= q * e
      BY Scale, <1>1, <1>2
    <2>2. q * (k * c) = (q * k) * c
      BY <1>2
    <2>3. (q * k) * c <= t * c
      BY <2>1, <2>2, <1>1, <1>2, q * e \in Nat, (q * k) * c \in Nat, c * t = t * c
    <2>. QED BY <2>3, Cancel, <1>2, q * k \in Nat
  <1>. QED BY <1>2, <1>3, <1>4, <1>5 DEF q

-----------------------------------------------------------------------------
(* The invariant holds initially and every step keeps it                   *)

LEMMA InitIInv == Init => IInv
  <1>. SUFFICES ASSUME Init PROVE IInv
    OBVIOUS
  <1>1. TypeOK
    BY DEF Init, TypeOK, NoSample, Sample
  <1>. QED
    BY <1>1 DEF Init, IInv, CountBounded, LastBatchTimed, Unsettled, Settled,
                RowsExact, NeverOvershoots, NotTooMany

LEMMA ProbeKeeps == IInv /\ Probe => IInv'
  <1>. SUFFICES ASSUME IInv, Probe PROVE IInv'
    OBVIOUS
  <1>. DEFINE e == sample'.elapsed_ns
              w == cost * count
  <1>1. /\ pc = "calibrate" /\ iterations = 0 /\ rows = << >>
        /\ UNCHANGED <<size, target, samples, cost, jitter, iterations, rows>>
    BY DEF Probe, IInv, Unsettled, case
  <1>2. /\ target \in 0 .. UINT64_MAX /\ cost \in Nat
        /\ count \in 1 .. UINT64_MAX /\ InitialCount \in 1 .. UINT64_MAX
        /\ w \in Nat
    BY DEF IInv, TypeOK, CountBounded
  <1>3. sample' \in Sample /\ e > 0 /\ e >= w /\ e \in Nat
    BY SampledFacts, <1>2 DEF IInv, Probe, Sample
  <1>4. CASE LastBatch(e)
    <2>1. pc' = "scale" /\ count' = count
      BY <1>4 DEF Probe
    <2>. QED
      BY <1>1, <1>3, <2>1
      DEF IInv, TypeOK, CountBounded, LastBatchTimed, Unsettled, Settled,
          RowsExact, NeverOvershoots, NotTooMany
  <1>5. CASE ~LastBatch(e)
    <2>1. /\ pc' = pc /\ count' = Wrap(count * 2)
          /\ e < target \div 8 /\ count <= UINT64_MAX \div 2
      BY <1>5, <1>2, <1>3, target \div 8 \in Int, UINT64_MAX \div 2 \in Int
      DEF Probe, LastBatch
    <2>2. count * 2 <= UINT64_MAX /\ 8 * e <= target
      BY <2>1, <1>2, <1>3
    <2>3. count' = count * 2
      BY <2>1, <2>2, <1>2 DEF Wrap
    <2>4. cost * count' = 2 * w
      BY <2>3, <1>2
    <2>5. 4 * (cost * count') <= target
      BY <2>2, <2>4, <1>2, <1>3
    <2>6. count' \in 0 .. UINT64_MAX /\ count' >= InitialCount
      BY <2>2, <2>3, <1>2 DEF IInv, CountBounded
    <2>7. TypeOK'
      BY <1>1, <1>3, <2>1, <2>6 DEF IInv, TypeOK
    <2>8. CountBounded'
      BY <1>1, <2>5, <2>6 DEF CountBounded
    <2>. QED
      BY <1>1, <2>1, <2>7, <2>8
      DEF IInv, LastBatchTimed, Unsettled, Settled, RowsExact, NeverOvershoots,
          NotTooMany
  <1>. QED BY <1>4, <1>5

LEMMA SettleKeeps == IInv /\ Settle => IInv'
  <1>. SUFFICES ASSUME IInv, Settle PROVE IInv'
    OBVIOUS
  <1>. DEFINE e == sample.elapsed_ns
              settled == IF Scales(e) THEN Scaled(e) ELSE count
  <1>1. /\ pc = "scale" /\ pc' = "measure" /\ rows = << >>
        /\ UNCHANGED <<size, target, samples, cost, jitter, count, sample, rows>>
        /\ iterations' = IF settled = 0 THEN 1 ELSE settled
    BY DEF Settle, IInv, Unsettled, case
  <1>2. /\ target \in Nat /\ cost \in Nat /\ e \in Nat /\ e > 0
        /\ count \in InitialCount .. UINT64_MAX /\ InitialCount > 0
        /\ cost * count <= e
    BY <1>1 DEF IInv, TypeOK, CountBounded, LastBatchTimed, Sample
  <1>3. /\ settled \in count .. UINT64_MAX
        /\ settled = InitialCount \/ settled * cost <= target
    <2>1. CASE Scales(e)
      <3>1. e < target /\ count * target < UINT64_MAX * e
        BY <2>1 DEF Scales
      <3>2. LET q == (count * target) \div e
            IN  q \in count .. UINT64_MAX /\ q * cost <= target
        BY <3>1, <1>2, ScaledFacts
      <3>. QED BY <3>2, <2>1 DEF Scaled
    <2>2. CASE ~Scales(e)
      <3>1. settled = count
        BY <2>2
      <3>2. cost * count = count * cost /\ cost * count \in Nat
        BY <1>2
      <3>. QED BY <3>1, <3>2, <1>2 DEF IInv, CountBounded
    <2>. QED BY <2>1, <2>2
  <1>. HIDE DEF settled
  <1>4. iterations' = settled /\ iterations' \in InitialCount .. UINT64_MAX
    BY <1>1, <1>2, <1>3
  <1>5. TypeOK'
    BY <1>1, <1>2, <1>4 DEF IInv, TypeOK
  <1>6. NeverOvershoots'
    BY <1>1, <1>3, <1>4 DEF NeverOvershoots
  <1>. QED
    BY <1>1, <1>2, <1>4, <1>5, <1>6
    DEF IInv, CountBounded, LastBatchTimed, Unsettled, Settled, RowsExact,
        NotTooMany

LEMMA MeasureKeeps == IInv /\ Measure => IInv'
  <1>. SUFFICES ASSUME IInv, Measure PROVE IInv'
    OBVIOUS
  <1>1. /\ pc = "measure" /\ rows' = Append(rows, sample')
        /\ UNCHANGED <<pc, size, target, samples, cost, jitter, count, iterations>>
    BY DEF Measure, case
  <1>2. iterations \in 0 .. UINT64_MAX /\ size \in Nat /\ rows \in Seq(Sample)
    BY DEF IInv, TypeOK
  <1>3. /\ sample' \in Sample /\ sample'.iterations = iterations
        /\ sample'.elapsed_ns > 0 /\ sample'.bytes = iterations * size
        /\ sample'.elapsed_ns \in iterations * cost .. iterations * cost + jitter
    BY <1>2, SampledFacts DEF IInv, Measure
  <1>4. TypeOK'
    BY <1>1, <1>2, <1>3 DEF IInv, TypeOK
  <1>5. RowsExact'
    BY <1>1, <1>2, <1>3 DEF IInv, RowsExact
  <1>6. NotTooMany'
    BY <1>1, <1>2, <1>3 DEF IInv, TypeOK, Measure, MoreSamples, NotTooMany
  <1>. QED
    BY <1>1, <1>4, <1>5, <1>6
    DEF IInv, CountBounded, LastBatchTimed, Unsettled, Settled, NeverOvershoots

LEMMA NextIInv == IInv /\ [Next]_vars => IInv'
  <1>. SUFFICES ASSUME IInv, [Next]_vars PROVE IInv'
    OBVIOUS
  <1>. USE DEF IInv, TypeOK, CountBounded, LastBatchTimed, Unsettled, Settled,
               RowsExact, NeverOvershoots, NotTooMany
  <1>1. CASE Probe
    BY <1>1, ProbeKeeps
  <1>2. CASE ProbeFails
    BY <1>2 DEF ProbeFails, SampleFails, case
  <1>3. CASE Settle
    BY <1>3, SettleKeeps
  <1>4. CASE Measure
    BY <1>4, MeasureKeeps
  <1>5. CASE MeasureFails
    BY <1>5 DEF MeasureFails, SampleFails, case
  <1>6. CASE Finish
    BY <1>6 DEF Finish, case
  <1>7. CASE UNCHANGED vars
    BY <1>7 DEF vars, case
  <1>. QED
    BY <1>1, <1>2, <1>3, <1>4, <1>5, <1>6, <1>7 DEF Next, Step, Terminated

LEMMA AlwaysIInv == Spec => []IInv
  BY InitIInv, NextIInv, PTL DEF Spec

-----------------------------------------------------------------------------
(* Theorems                                                                *)

(* Every variable keeps its C type: count never wraps and the conversion   *)
(* of the scaled count to uint64_t is in range (src/runner.c:39, 48).      *)
THEOREM TypeCorrect == Spec => []TypeOK
  BY AlwaysIInv, PTL DEF IInv

(* Whatever ofb_run_sample accepts and run_case prints is exact, for every *)
(* message size and every width of the counter.                            *)
THEOREM PrintedRowsExact == Spec => []RowsExact
  BY AlwaysIInv, PTL DEF IInv

(* No amount of noise makes ofb_calibrate overshoot the target, except at  *)
(* the count it starts from.                                               *)
THEOREM CalibrationNeverOvershoots == Spec => []NeverOvershoots
  BY AlwaysIInv, PTL DEF IInv

(* The first state is one of the contract.                                 *)
LEMMA InitSimulates == Init => Contract!Init
  BY RunnerAssumption DEF Init, Contract!Init

(* A step is one of the contract, or invisible in it.                      *)
LEMMA StepSimulates ==
  IInv /\ IInv' /\ [Next]_vars => [Contract!Next]_(Contract!vars)
  <1>. USE DEF IInv, TypeOK, Unsettled, NotTooMany, case
  <1>. SUFFICES ASSUME IInv, IInv', [Next]_vars
                PROVE  [Contract!Next]_(Contract!vars)
    OBVIOUS
  <1>. USE DEF Contract!Next, Contract!vars
  <1>1. CASE Probe
    BY <1>1 DEF Probe
  <1>2. CASE ProbeFails
    BY <1>2 DEF ProbeFails, Contract!Fail
  <1>3. CASE Settle
    <2>1. iterations' \in Nat /\ iterations' >= InitialCount
      BY <1>3 DEF Settle, Settled
    <2>. QED BY <1>3, <2>1 DEF Settle, Contract!Fix
  <1>4. CASE Measure
    <2>1. /\ rows' = Append(rows, sample') /\ rows \in Seq(Sample)
          /\ sample' \in Sample /\ sample'.iterations = iterations
      BY <1>4, SampledFacts DEF Measure
    <2>2. /\ Len(rows') = Len(rows) + 1
          /\ SubSeq(rows', 1, Len(rows)) = rows
          /\ rows'[Len(rows')] = sample'
      BY <2>1
    <2>. QED BY <1>4, <2>1, <2>2 DEF Measure, MoreSamples, Contract!Report
  <1>5. CASE MeasureFails
    BY <1>5 DEF MeasureFails, Contract!Fail
  <1>6. CASE Finish
    <2>1. ~(Len(rows) < samples) /\ Len(rows) \in Nat /\ samples \in Nat
      BY <1>6 DEF Finish, MoreSamples
    <2>2. Len(rows) = samples
      BY <2>1
    <2>. QED BY <1>6, <2>2 DEF Finish, Contract!Finish
  <1>7. CASE UNCHANGED vars
    BY <1>7 DEF vars
  <1>. QED
    BY <1>1, <1>2, <1>3, <1>4, <1>5, <1>6, <1>7 DEF Next, Step, Terminated

(* A run of the measurement loop is a run of the contract: calibration is  *)
(* invisible until it fixes the count, and every print, failure and end is *)
(* one the contract allows.                                                *)
THEOREM RunnerImplementsSampling == Spec => Implements
  BY InitSimulates, StepSimulates, AlwaysIInv, PTL DEF Spec, Implements, Contract!Spec

-----------------------------------------------------------------------------
(* Without noise, the batch that ended calibration took exactly its work.  *)
BatchExact ==
  pc = "scale" /\ jitter = 0 => sample.elapsed_ns = cost * count

SteadyIInv == BatchExact /\ SteadyFillsTarget

LEMMA SteadySampled ==
  ASSUME TypeOK, jitter = 0, NEW n \in 0 .. UINT64_MAX, Sampled(n)
  PROVE  sample'.elapsed_ns = cost * n
  <1>1. Durations(n) = {cost * n}
    BY DEF Durations, TypeOK
  <1>2. cost * n \in Nat
    BY DEF TypeOK
  <1>. QED BY <1>1, <1>2 DEF Sampled, ofb_now_ns, Rejected

(* In an environment without noise ofb_calibrate is as tight as a count    *)
(* can be: one more iteration would exceed the target                      *)
(* (src/runner.c:45-54).                                                   *)
THEOREM SteadyCalibrationFillsTarget == Spec => []SteadyFillsTarget
  <1>1. Init => SteadyIInv
    BY DEF Init, SteadyIInv, BatchExact, SteadyFillsTarget, Settled
  <1>2. IInv /\ SteadyIInv /\ [Next]_vars => SteadyIInv'
    <2>0. [Next]_vars => jitter' = jitter
      BY DEF Next, Step, Terminated, vars, case, Probe, ProbeFails, Settle, Measure,
             MeasureFails, Finish
    <2>. SUFFICES ASSUME IInv, SteadyIInv, [Next]_vars, jitter = 0, jitter' = 0
                  PROVE  SteadyIInv'
      BY <2>0 DEF SteadyIInv, BatchExact, SteadyFillsTarget
    <2>. USE DEF SteadyIInv, BatchExact, SteadyFillsTarget, Settled
    <2>1. CASE Probe
      <3>1. UNCHANGED <<cost, target, iterations>> /\ pc = "calibrate"
        BY <2>1 DEF Probe, case
      <3>2. sample'.elapsed_ns = cost * count
        BY <2>1, SteadySampled DEF Probe, IInv, TypeOK
      <3>3. (pc' = "scale" /\ count' = count) \/ pc' = pc
        BY <2>1 DEF Probe
      <3>. QED BY <3>1, <3>2, <3>3
    <2>2. CASE Settle
      <3>. DEFINE e == sample.elapsed_ns
                  settled == IF Scales(e) THEN Scaled(e) ELSE count
      <3>1. /\ pc = "scale" /\ pc' = "measure" /\ UNCHANGED <<cost, target, count>>
            /\ iterations' = IF settled = 0 THEN 1 ELSE settled
        BY <2>2 DEF Settle, case
      <3>2. /\ target \in 1 .. UINT64_MAX - 1 /\ cost \in Nat
            /\ count \in 1 .. UINT64_MAX
            /\ e = cost * count /\ e > 0 /\ e \in Nat
        BY <3>1 DEF IInv, TypeOK, CountBounded, LastBatchTimed, Sample
      <3>3. cost > 0
        BY <3>2
      <3>4. CASE e < target
        <4>1. 1 * count <= cost * count
          BY <3>2, <3>3, Scale, cost * count = count * cost
        <4>2. UINT64_MAX * e >= UINT64_MAX * count
          BY <4>1, <3>2, Scale
        <4>3. count * target < UINT64_MAX * count
          <5>1. count * (target + 1) <= count * UINT64_MAX
            BY <3>2, Scale, target + 1 \in Nat, target + 1 <= UINT64_MAX
          <5>2. count * (target + 1) = count * target + count
            BY <3>2
          <5>3. count * target \in Nat /\ count * UINT64_MAX = UINT64_MAX * count
            BY <3>2
          <5>. QED BY <5>1, <5>2, <5>3, <3>2
        <4>4. Scales(e)
          BY <3>2, <3>4, <4>2, <4>3, count * target \in Nat,
             UINT64_MAX * e \in Nat, UINT64_MAX * count \in Nat DEF Scales
        <4>5. settled = (count * target) \div e
          BY <4>4 DEF Scaled
        <4>6. settled \in Nat /\ count * target < (settled + 1) * e
          BY <4>5, Quotient, <3>2, count * target \in Nat
        <4>. HIDE DEF settled
        <4>7. (settled + 1) * e = ((settled + 1) * cost) * count
          BY <3>2, <4>6
        <4>8. target * count < ((settled + 1) * cost) * count
          BY <4>6, <4>7, <3>2
        <4>9. target < (settled + 1) * cost
          BY <4>8, <4>6, <3>2, Cancel, (settled + 1) * cost \in Nat
        <4>10. CASE settled = 0
          BY <4>9, <4>10, <3>1, <3>2
        <4>11. CASE settled # 0
          BY <4>9, <4>11, <3>1, <3>2
        <4>. QED BY <4>10, <4>11
      <3>5. CASE ~(e < target)
        <4>1. settled = count
          BY <3>5 DEF Scales
        <4>2. iterations' = count
          BY <4>1, <3>1, <3>2
        <4>3. (count + 1) * cost = e + cost
          BY <3>2
        <4>. QED BY <4>2, <4>3, <3>1, <3>2, <3>3, <3>5
      <3>. QED BY <3>4, <3>5
    <2>3. CASE ProbeFails
      BY <2>3 DEF ProbeFails, SampleFails, case
    <2>4. CASE Measure
      BY <2>4 DEF Measure, case
    <2>5. CASE MeasureFails
      BY <2>5 DEF MeasureFails, SampleFails, case
    <2>6. CASE Finish
      BY <2>6 DEF Finish, case
    <2>7. CASE UNCHANGED vars
      BY <2>7 DEF vars, case
    <2>. QED
      BY <2>1, <2>2, <2>3, <2>4, <2>5, <2>6, <2>7 DEF Next, Step, Terminated
  <1>. QED BY <1>1, <1>2, AlwaysIInv, PTL DEF Spec, SteadyIInv

-----------------------------------------------------------------------------
(* Termination                                                             *)

(* What is left to do, at most: the counts up to the end of the range, and *)
(* the samples that are missing.                                           *)
Remaining ==
  CASE pc = "calibrate" -> UINT64_MAX - count + samples + 3
    [] pc = "scale" -> samples + 2
    [] pc = "measure" -> samples - Len(rows) + 1
    [] OTHER -> 0

Forward == Remaining \in Nat /\ Remaining' \in Nat /\ Remaining' < Remaining

LEMMA StepsForward == IInv /\ Step => Forward
  <1> SUFFICES ASSUME IInv, Step PROVE Forward
    OBVIOUS
  <1>1. /\ count \in 1 .. UINT64_MAX /\ samples \in Nat /\ samples > 0
        /\ rows \in Seq(Sample) /\ Len(rows) \in 0 .. samples
    BY DEF IInv, TypeOK, CountBounded, NotTooMany
  <1>2. CASE Probe
    <2>1. pc = "calibrate" /\ samples' = samples /\ rows' = rows
      BY <1>2 DEF Probe, case
    <2>2. CASE LastBatch(sample'.elapsed_ns)
      BY <1>1, <1>2, <2>1, <2>2 DEF Probe, Remaining, Forward
    <2>3. CASE ~LastBatch(sample'.elapsed_ns)
      <3>1. ~(count > UINT64_MAX \div 2) /\ count' = Wrap(count * 2) /\ pc' = pc
        BY <1>2, <2>3 DEF Probe, LastBatch
      <3>2. count' = 2 * count /\ 2 * count <= UINT64_MAX
        BY <1>1, <3>1 DEF Wrap
      <3>. QED BY <1>1, <2>1, <3>1, <3>2 DEF Remaining, Forward
    <2>. QED BY <2>2, <2>3
  <1>3. CASE Settle
    <2>1. pc = "scale" /\ pc' = "measure" /\ samples' = samples /\ rows' = rows
      BY <1>3 DEF Settle, case
    <2>. QED BY <1>1, <2>1 DEF Remaining, Forward
  <1>4. CASE Measure
    <2>1. /\ pc = "measure" /\ pc' = pc /\ samples' = samples
          /\ rows' = Append(rows, sample') /\ Len(rows) < samples
      BY <1>4 DEF Measure, MoreSamples, case
    <2>2. Len(rows') = Len(rows) + 1
      BY <1>1, <2>1
    <2>. QED BY <1>1, <2>1, <2>2 DEF Remaining, Forward
  <1>5. CASE ProbeFails \/ MeasureFails \/ Finish
    <2>1. pc \in {"calibrate", "measure"} /\ pc' \in {"failed", "done"}
      BY <1>5 DEF ProbeFails, MeasureFails, Finish
    <2>. QED BY <1>1, <2>1 DEF Remaining, Forward
  <1>. QED BY <1>2, <1>3, <1>4, <1>5 DEF Step

(* Whatever the batches take, each step of ofb_calibrate and of the        *)
(* sampling loop leaves less to do: count never wraps around and rows are  *)
(* limited, so neither loop can run for ever (src/runner.c:35-43).         *)
THEOREM EveryStepIsForward == Spec => [][Forward]_vars
  <1>1. IInv /\ [Next]_vars => [Forward]_vars
    BY StepsForward DEF Next, Terminated
  <1>. QED BY <1>1, AlwaysIInv, PTL DEF Spec
==============================================================================
