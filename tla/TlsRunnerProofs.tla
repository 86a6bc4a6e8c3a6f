---------------------------- MODULE TlsRunnerProofs ----------------------------
(***************************************************************************)
(* Proofs about TlsRunner: its benchmarks are two instances of Runner, so  *)
(* the invariant of RunnerProofs holds of either with its own first count. *)
(***************************************************************************)
EXTENDS TlsRunner, TLAPS

HandshakeCase == INSTANCE RunnerProofs WITH InitialCount <- HandshakeCount, Sizes <- {0}
TransferCase == INSTANCE RunnerProofs WITH InitialCount <- TransferCount, Sizes <- TransferSizes

-----------------------------------------------------------------------------
(* The steps of a benchmark are those of its instance                      *)

LEMMA HandshakeAssumption == HandshakeCase!RunnerAssumption
  BY TlsRunnerAssumption DEF HandshakeCase!RunnerAssumption

LEMMA HandshakeInit == Handshake!Init => HandshakeCase!Init
  BY DEF Handshake!Init, HandshakeCase!Init, Handshake!NoSample, HandshakeCase!NoSample

LEMMA HandshakeStep ==
  ASSUME Handshake!Probe \/ Handshake!ProbeFails \/ Handshake!Settle
           \/ Handshake!Measure \/ Handshake!MeasureFails \/ Handshake!Finish
  PROVE  HandshakeCase!Step /\ HandshakeCase!Next
  <1>1. Handshake!Probe => HandshakeCase!Probe
    BY DEF Handshake!Probe, HandshakeCase!Probe, Handshake!Sampled,
           HandshakeCase!Sampled, Handshake!LastBatch,
           HandshakeCase!LastBatch, Handshake!ofb_now_ns,
           HandshakeCase!ofb_now_ns, Handshake!Durations,
           HandshakeCase!Durations, Handshake!Rejected,
           HandshakeCase!Rejected, Handshake!Wrap, HandshakeCase!Wrap,
           Handshake!case, HandshakeCase!case
  <1>2. Handshake!ProbeFails => HandshakeCase!ProbeFails
    BY DEF Handshake!ProbeFails, HandshakeCase!ProbeFails,
           Handshake!SampleFails, HandshakeCase!SampleFails,
           Handshake!ofb_now_ns, HandshakeCase!ofb_now_ns,
           Handshake!Durations, HandshakeCase!Durations, Handshake!Rejected,
           HandshakeCase!Rejected, Handshake!case, HandshakeCase!case
  <1>3. Handshake!Settle => HandshakeCase!Settle
    BY DEF Handshake!Settle, HandshakeCase!Settle, Handshake!Scales,
           HandshakeCase!Scales, Handshake!Scaled, HandshakeCase!Scaled,
           Handshake!case, HandshakeCase!case
  <1>4. Handshake!Measure => HandshakeCase!Measure
    BY DEF Handshake!Measure, HandshakeCase!Measure, Handshake!MoreSamples,
           HandshakeCase!MoreSamples, Handshake!Sampled,
           HandshakeCase!Sampled, Handshake!ofb_now_ns,
           HandshakeCase!ofb_now_ns, Handshake!Durations,
           HandshakeCase!Durations, Handshake!Rejected,
           HandshakeCase!Rejected, Handshake!Wrap, HandshakeCase!Wrap,
           Handshake!case, HandshakeCase!case
  <1>5. Handshake!MeasureFails => HandshakeCase!MeasureFails
    BY DEF Handshake!MeasureFails, HandshakeCase!MeasureFails,
           Handshake!MoreSamples, HandshakeCase!MoreSamples,
           Handshake!SampleFails, HandshakeCase!SampleFails,
           Handshake!ofb_now_ns, HandshakeCase!ofb_now_ns,
           Handshake!Durations, HandshakeCase!Durations, Handshake!Rejected,
           HandshakeCase!Rejected, Handshake!case, HandshakeCase!case
  <1>6. Handshake!Finish => HandshakeCase!Finish
    BY DEF Handshake!Finish, HandshakeCase!Finish, Handshake!MoreSamples,
           HandshakeCase!MoreSamples, Handshake!case, HandshakeCase!case
  <1>. QED BY <1>1, <1>2, <1>3, <1>4, <1>5, <1>6 DEF HandshakeCase!Next, HandshakeCase!Step

LEMMA TransferAssumption == TransferCase!RunnerAssumption
  BY TlsRunnerAssumption DEF TransferCase!RunnerAssumption

LEMMA TransferInit == Transfer!Init => TransferCase!Init
  BY DEF Transfer!Init, TransferCase!Init, Transfer!NoSample, TransferCase!NoSample

LEMMA TransferStep ==
  ASSUME Transfer!Probe \/ Transfer!ProbeFails \/ Transfer!Settle
           \/ Transfer!Measure \/ Transfer!MeasureFails \/ Transfer!Finish
  PROVE  TransferCase!Step /\ TransferCase!Next
  <1>1. Transfer!Probe => TransferCase!Probe
    BY DEF Transfer!Probe, TransferCase!Probe, Transfer!Sampled,
           TransferCase!Sampled, Transfer!LastBatch, TransferCase!LastBatch,
           Transfer!ofb_now_ns, TransferCase!ofb_now_ns, Transfer!Durations,
           TransferCase!Durations, Transfer!Rejected, TransferCase!Rejected,
           Transfer!Wrap, TransferCase!Wrap, Transfer!case, TransferCase!case
  <1>2. Transfer!ProbeFails => TransferCase!ProbeFails
    BY DEF Transfer!ProbeFails, TransferCase!ProbeFails,
           Transfer!SampleFails, TransferCase!SampleFails,
           Transfer!ofb_now_ns, TransferCase!ofb_now_ns, Transfer!Durations,
           TransferCase!Durations, Transfer!Rejected, TransferCase!Rejected,
           Transfer!case, TransferCase!case
  <1>3. Transfer!Settle => TransferCase!Settle
    BY DEF Transfer!Settle, TransferCase!Settle, Transfer!Scales,
           TransferCase!Scales, Transfer!Scaled, TransferCase!Scaled,
           Transfer!case, TransferCase!case
  <1>4. Transfer!Measure => TransferCase!Measure
    BY DEF Transfer!Measure, TransferCase!Measure, Transfer!MoreSamples,
           TransferCase!MoreSamples, Transfer!Sampled, TransferCase!Sampled,
           Transfer!ofb_now_ns, TransferCase!ofb_now_ns, Transfer!Durations,
           TransferCase!Durations, Transfer!Rejected, TransferCase!Rejected,
           Transfer!Wrap, TransferCase!Wrap, Transfer!case, TransferCase!case
  <1>5. Transfer!MeasureFails => TransferCase!MeasureFails
    BY DEF Transfer!MeasureFails, TransferCase!MeasureFails,
           Transfer!MoreSamples, TransferCase!MoreSamples,
           Transfer!SampleFails, TransferCase!SampleFails,
           Transfer!ofb_now_ns, TransferCase!ofb_now_ns, Transfer!Durations,
           TransferCase!Durations, Transfer!Rejected, TransferCase!Rejected,
           Transfer!case, TransferCase!case
  <1>6. Transfer!Finish => TransferCase!Finish
    BY DEF Transfer!Finish, TransferCase!Finish, Transfer!MoreSamples,
           TransferCase!MoreSamples, Transfer!case, TransferCase!case
  <1>. QED BY <1>1, <1>2, <1>3, <1>4, <1>5, <1>6 DEF TransferCase!Next, TransferCase!Step

-----------------------------------------------------------------------------
(* The inductive invariant                                                 *)

IInv ==
  \/ benchmark = "handshake" /\ HandshakeCase!IInv
  \/ benchmark = "transfer" /\ TransferCase!IInv

LEMMA InitIInv == Init => IInv
  <1>1. HandshakeCase!Init => HandshakeCase!IInv
    BY HandshakeAssumption, HandshakeCase!InitIInv
  <1>2. TransferCase!Init => TransferCase!IInv
    BY TransferAssumption, TransferCase!InitIInv
  <1>. QED BY <1>1, <1>2, HandshakeInit, TransferInit DEF Init, IInv

LEMMA NextIInv == IInv /\ [Next]_vars => IInv'
  <1> SUFFICES ASSUME IInv, [Next]_vars PROVE IInv'
    OBVIOUS
  <1>1. /\ HandshakeCase!IInv /\ [HandshakeCase!Next]_(HandshakeCase!vars) => HandshakeCase!IInv'
        /\ TransferCase!IInv /\ [TransferCase!Next]_(TransferCase!vars) => TransferCase!IInv'
    BY HandshakeAssumption, TransferAssumption, HandshakeCase!NextIInv, TransferCase!NextIInv
  <1>2. benchmark' = benchmark
    BY DEF Next, Calibrate, Run, Terminated, vars
  <1>3. CASE UNCHANGED vars
    <2>1. UNCHANGED HandshakeCase!vars /\ UNCHANGED TransferCase!vars
      BY <1>3 DEF vars, run, HandshakeCase!vars, TransferCase!vars, HandshakeCase!case,
                  TransferCase!case
    <2>. QED BY <1>1, <1>2, <2>1 DEF IInv
  <1>4. CASE Calibrate \/ Run
    <2>1. CASE benchmark = "handshake"
      <3>1. HandshakeCase!Next
        BY <1>4, <2>1, HandshakeStep DEF Calibrate, Run
      <3>. QED BY <1>1, <1>2, <2>1, <3>1 DEF IInv
    <2>2. CASE benchmark = "transfer"
      <3>1. TransferCase!Next
        BY <1>4, <2>2, TransferStep DEF Calibrate, Run
      <3>. QED BY <1>1, <1>2, <2>2, <3>1 DEF IInv
    <2>. QED BY <2>1, <2>2 DEF IInv
  <1>. QED BY <1>3, <1>4 DEF Next, Terminated

LEMMA AlwaysIInv == Spec => []IInv
  BY InitIInv, NextIInv, PTL DEF Spec

-----------------------------------------------------------------------------
(* Theorems                                                                *)

(* Every row of the TLS program is exact: handshakes count no bytes,       *)
(* transfers all of them, for every width of the counter.                  *)
THEOREM TlsRowsAreExact == Spec => []TlsRowsExact
  <1>1. IInv => TlsRowsExact
    <2> SUFFICES ASSUME IInv, NEW i \in 1 .. Len(rows)
                 PROVE  /\ rows[i].iterations = iterations /\ rows[i].elapsed_ns > 0
                        /\ rows[i].elapsed_ns \in
                             iterations * cost .. iterations * cost + jitter
                        /\ rows[i].bytes = IF benchmark = "handshake" THEN 0
                                           ELSE iterations * size
      BY DEF TlsRowsExact
    <2>1. CASE benchmark = "handshake" /\ HandshakeCase!IInv
      <3>1. size = 0 /\ iterations \in Nat
        BY <2>1, TlsRunnerAssumption DEF HandshakeCase!IInv, HandshakeCase!TypeOK
      <3>2. /\ rows[i].iterations = iterations /\ rows[i].elapsed_ns > 0
            /\ rows[i].elapsed_ns \in
                 iterations * cost .. iterations * cost + jitter
            /\ rows[i].bytes = iterations * size
        BY <2>1 DEF HandshakeCase!IInv, HandshakeCase!RowsExact
      <3>. QED BY <2>1, <3>1, <3>2
    <2>2. CASE benchmark = "transfer" /\ TransferCase!IInv
      BY <2>2 DEF TransferCase!IInv, TransferCase!RowsExact
    <2>. QED BY <2>1, <2>2 DEF IInv
  <1>. QED BY <1>1, AlwaysIInv, PTL

(* Neither loop overshoots the target, except at its own first count.      *)
THEOREM TlsCalibrationNeverOvershoots == Spec => []TlsNeverOvershoots
  <1>1. IInv => TlsNeverOvershoots
    BY DEF IInv, TlsNeverOvershoots, Handshake!Settled,
           HandshakeCase!IInv, HandshakeCase!NeverOvershoots, HandshakeCase!Settled,
           TransferCase!IInv, TransferCase!NeverOvershoots, TransferCase!Settled
  <1>. QED BY <1>1, AlwaysIInv, PTL

(* A step of an instance is one of its contract, which is that of TlsRunner *)
(* but for the count it starts from.                                        *)
LEMMA StepSimulates ==
  IInv /\ IInv' /\ [Next]_vars => [Contract!Next]_(Contract!vars)
  <1> SUFFICES ASSUME IInv, IInv', Calibrate \/ Run
               PROVE  [Contract!Next]_(Contract!vars)
    BY DEF Next, Terminated, vars, run, Contract!vars
  <1>. USE DEF Contract!Next, Contract!Fix, Contract!Report, Contract!Finish, Contract!Fail,
               Contract!vars
  <1>1. CASE benchmark = "handshake"
    <2>1. HandshakeCase!Next /\ HandshakeCase!IInv /\ HandshakeCase!IInv'
      BY <1>1, HandshakeStep DEF Calibrate, Run, IInv
    <2>2. [HandshakeCase!Contract!Next]_(HandshakeCase!Contract!vars)
      BY <2>1, HandshakeAssumption, HandshakeCase!StepSimulates
    <2>. QED
      BY <2>2, TlsRunnerAssumption
         DEF HandshakeCase!Contract!Next, HandshakeCase!Contract!Fix,
             HandshakeCase!Contract!Report, HandshakeCase!Contract!Finish,
             HandshakeCase!Contract!Fail, HandshakeCase!Contract!vars
  <1>2. CASE benchmark = "transfer"
    <2>1. TransferCase!Next /\ TransferCase!IInv /\ TransferCase!IInv'
      BY <1>2, TransferStep DEF Calibrate, Run, IInv
    <2>2. [TransferCase!Contract!Next]_(TransferCase!Contract!vars)
      BY <2>1, TransferAssumption, TransferCase!StepSimulates
    <2>. QED
      BY <2>2, TlsRunnerAssumption
         DEF TransferCase!Contract!Next, TransferCase!Contract!Fix,
             TransferCase!Contract!Report, TransferCase!Contract!Finish,
             TransferCase!Contract!Fail, TransferCase!Contract!vars
  <1>. QED BY <1>1, <1>2 DEF IInv

(* A run of either benchmark is a run of the contract of one case.         *)
THEOREM TlsRunnerImplementsSampling == Spec => TlsImplements
  <1>1. Init => Contract!Init
    <2>1. HandshakeCase!Init => HandshakeCase!Contract!Init
      BY HandshakeAssumption, HandshakeCase!InitSimulates
    <2>2. TransferCase!Init => TransferCase!Contract!Init
      BY TransferAssumption, TransferCase!InitSimulates
    <2>. QED BY <2>1, <2>2, HandshakeInit, TransferInit
             DEF Init, Contract!Init, HandshakeCase!Contract!Init, TransferCase!Contract!Init
  <1>. QED BY <1>1, StepSimulates, AlwaysIInv, PTL DEF Spec, TlsImplements, Contract!Spec

-----------------------------------------------------------------------------
(* Termination                                                             *)

(* What is left to do in the benchmark that runs, see RunnerProofs.        *)
Forward ==
  IF benchmark = "handshake" THEN HandshakeCase!Forward ELSE TransferCase!Forward

(* Each step of calibrate and of the sampling loop leaves less to do, from *)
(* either first count (src/tls_main.c:101-109).                            *)
THEOREM EveryStepIsForward == Spec => [][Forward]_vars
  <1>1. IInv /\ [Next]_vars => [Forward]_vars
    <2> SUFFICES ASSUME IInv, Calibrate \/ Run PROVE Forward
      BY DEF Next, Terminated
    <2>1. CASE benchmark = "handshake"
      <3>1. HandshakeCase!Step
        BY <2>1, HandshakeStep DEF Calibrate, Run
      <3>. QED BY <2>1, <3>1, HandshakeAssumption, HandshakeCase!StepsForward DEF IInv, Forward
    <2>2. CASE benchmark = "transfer"
      <3>1. TransferCase!Step
        BY <2>2, TransferStep DEF Calibrate, Run
      <3>. QED BY <2>2, <3>1, TransferAssumption, TransferCase!StepsForward DEF IInv, Forward
    <2>. QED BY <2>1, <2>2 DEF IInv
  <1>. QED BY <1>1, AlwaysIInv, PTL DEF Spec
==============================================================================
