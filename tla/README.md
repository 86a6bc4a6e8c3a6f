# Verification of openssl-family-bench

TLA+ models of the benchmark runner in this repository, their TLC
configurations, and TLAPS proofs about them. Paths below are relative to the
root of the repository, except module names, which are files of this directory.

## The system

Two programs are built from the sources, once per TLS library (OpenSSL,
LibreSSL, patched LibreSSL). Each runs a matrix of *cases*, and for a case
creates a backend, verifies it, calibrates an iteration count, takes a number of
samples with it and prints one row per sample. A workflow runs the programs for
every library and architecture, and a script turns their rows into tables. Five
older programs, one file each, measure single primitives on their own.

| Component | State it keeps | Operations | Interacts with | Modules |
|---|---|---|---|---|
| Measurement loop (`src/runner.c`, `run_case` of `src/main.c`) | count, last sample, calibrated iterations, rows printed | `ofb_run_sample`, `ofb_calibrate`, the sampling loop | calls the clock and the backend's `run_batch` | `Sampling`, `Runner` |
| TLS measurement loop (`src/tls_main.c`) | the same, and the benchmark | `run_timed`, `calibrate`, the sampling loop | the same | `TlsRunner` |
| Clock (`src/timer.c`, `time_now` of the old programs) | none | `ofb_now_ns`, `time_now` | 0 is the failure of the first | `Clock`, `Runner` |
| AEAD backend (`backends/openssl_aead.c`) | six allocations, four buffers, key, tag | create, verify, run_batch, destroy | called by `run_case`, calls libcrypto | `Lifecycle`, `CaseState`, `AeadCase` |
| TLS pair (`backends/openssl_tls.c`) | two SSLs, a BIO pair, two flags, attempts | `tls_pair_create`, `handshake_step`, `tls_pair_destroy` | calls libssl for both ends in one thread | `TlsPair` |
| TLS transfer (same file) | offset, chunk, received; the BIO's contents; the received buffer | `transfer_once` | client writes, server reads | `TlsTransfer` |
| TLS backend (same file) | two contexts, two buffers, the transfer pair | create, verify, run_batch, destroy | called by `run_case`, uses the two above | `Lifecycle`, `CaseState`, `TlsCase` |
| AEAD program (`src/main.c`) | options, three loop indices | `main`, `parse_u64` | argv in, rows and exit status out | `Cli`, `BenchMain` |
| TLS program (`src/tls_main.c`) | options, two loop indices, `matched` | `main`, `parse_u64` | the same | `Cli`, `TlsMain` |
| Result summary (`scripts/summarize_results.py`) | rows grouped by key | `load_rows`, `aggregate`, `render` | reads result files, called by the workflow | `Summary` |
| Benchmark workflow (`.github/workflows/benchmark.yml`) | the step of each job, its files, artifacts, the comparison | the steps of the jobs, `needs`, timeouts, cancellation | runs both programs and the summary | `Publication`, `Pipeline` |
| Single-file benchmarks (`cryptobench*.c`) | item, block size | the loops of `main`, `bench_run` | call the library and the clock | `Clock`, `Cryptobench` |
| Profiles (`scripts/profile_aead.sh`, `summarize_profiles.py`, `profile.yml`) | files | run, parse, render | perf | none |
| Patch under test (`patches/libressl`) | the record layer's receive buffer | one diff | LibreSSL, not in the repository | none |
| Build files | none | | | none |

What is hard here is not concurrency between threads: every program has one.
It is

- two TLS state machines advanced in turn by that one thread over buffers
  smaller than what they send, with one of the two never called again once it
  has finished;
- reads that return less than was asked for, into a buffer nobody clears, with
  a comparison that cannot see stale bytes;
- a calibration fed by noisy measurements, in fixed-width integers;
- failures in the middle: of any allocation, any library call, the clock, a
  case in the middle of the matrix, with objects that have several owners;
- two copies of the same logic (runner, `main`, `parse_u64`) with different
  first counts, bounds and conventions;
- jobs on several machines that fail, hang or are cancelled in any step, programs
  that do not notice a full disk, and files of all of them merged into one table;
- rates computed from clocks of different units, one of which may be set.

What makes each component correct:

- *measurement*: rows are exact or the case fails, calibration returns, does not
  exceed what was asked for, and uses the time it was given;
- *pair*: the handshake never stalls, never runs out of attempts, and leaves the
  pipe to the server empty;
- *transfer*: it succeeds unless the library fails, and what it delivers is what
  this very transfer sent;
- *backends*: verified before measured, nothing leaked or freed twice on any
  path, and no iteration spoils the next;
- *programs*: options mean what was typed, the matrix is run in full, once and
  in order, and the exit status says which part of it was printed;
- *workflow*: it ends; what is incomplete is not published; what is published has
  the median of one run in every cell and compares within one architecture;
- *single-file benchmarks*: the table is whole, and a rate is that of the work done.

The hazards behind these properties are listed with their lines in
`PROJECT.json`.

## The modules

**`Sampling`** is what measuring a case promises: one count is fixed, every
sample is taken with it, a case that ends well has all samples, nothing follows
a failure. **`Lifecycle`** is what its backend promises: create, verify, measure,
release once. Both are abstract specifications the detailed ones implement.

**`Runner`** has one action per batch: `Probe` is one turn of the loop of
`ofb_calibrate` with the call of `ofb_run_sample` in it, `Settle` the scaling
after the loop, `Measure` one turn of the sampling loop; `ProbeFails` and
`MeasureFails` are the paths that return -1. `UINT64_MAX` is a parameter and
products wrap. The backend takes `cost` nanoseconds an iteration plus up to
`jitter` a batch (0 without noise), and a reading is the time or 0. The quotient the
code forms in `long double` is exact here, rounded down as the conversion does:
rounding of the 64-bit significand is abstracted.

**`TlsRunner`** composes two instances of `Runner`, since `run_timed` and
`calibrate` repeat its code: handshakes start from one iteration and count no
bytes (size 0), transfers start from sixteen.

**`TlsPair`** models the loop of `tls_pair_create` call by call. The library is
external: its flights are counts of units, a call moves at least one unit if it
can and stops anywhere it likes, an unread BIO blocks the writer. `New` is the
allocations, `StepClient` and `StepServer` the calls of `handshake_step`,
`EndRound` the test at the end of a round, and `heap` follows who frees what.

**`TlsTransfer`** models `transfer_once` with `Write` and `Read` as one turn of
its two loops, and `Start`, `Again` and `Compare` for the batch around it. A byte
carries the transfer that wrote it and its position, so that stale bytes can be
told from fresh ones; `Equal` is what `CRYPTO_memcmp` can see of that, the value
of a repeating pattern.

**`AeadCase`** and **`TlsCase`** are `run_case` seen from the backend: creation
with any subset of the allocations failing, verification, batches iteration by
iteration, and every way out. In `AeadCase` sealing `"P"` gives `"C"` and tag
`"T"`, and opening succeeds for that pair only; a failing call may leave its
output half written. In `TlsCase` a pair or a transfer succeeds or fails as a
whole, which is what `TlsPair` and `TlsTransfer` open up. Both extend **`CaseState`**,
the state they have in common, so that one module can hold
the proofs of both; where a name would occur twice, the one of `TlsCase` begins
with `Tls`. `BenchMain` and `TlsMain` follow the same convention.

**`Cli`** is the loop over argv that both programs begin with, parameterised by
their options, with `parse_u64` as `strtoull` does it: a minus sign negates modulo
2^64, together with the sizes and the record of the cases run, which both have.
Whether a size was given is the flag `size_set`, as in the code, and not read off the
size: a 0 that got past the parser would be run.
**`BenchMain`** and **`TlsMain`** extend it with the checks, the loops and
the exit status. There a case prints its samples or fails; which of its samples
a failing case has printed is `Runner`'s.

**`Summary`** is `summarize_results.py` as operators on rows: `load_rows`, `aggregate`
with the medians, the ratio cells, the sections by architecture. The list of rows is
a function of places, a file and a line in it: selecting some of the rows
keeps their places, hence their order, and needs no recursion. `statistics.median` takes
what is at a rank of the sorted samples (`Ranked`). A row is its table, its key
there and what the script reads of the rest; Markdown is left out.

**`Pipeline`** extends it with the jobs of `benchmark.yml`. `Build`, `Run`, `Validate`,
`PublishSummary` and `Upload` are the steps of a matrix job, with one `Run` for
each program; `Start`, `Skip`, `Download` and `Compare` are those of the last job.
`StepFails` stands for every error of a step and for its timeout, `Cancel` for a
newer push. `Contents` is a directory as the script reads it, file by file in the
order of `Paths`. A run that exits with 0 has printed its matrix (`StatusHonest` of
`BenchMain`), but what reaches the file may end early once the disk of the machine
is full, since the programs ignore what `printf` returns. **`Publication`** is the
abstract specification: the comparison appears once with a true median of every
experiment of the matrix, or never.

**`Clock`** is the arithmetic of all clock readings. **`Cryptobench`** extends it with
the five single-file programs: they share one loop over names and block sizes and
differ in their tables, so `program` is a record of these. One action, `Measure`, is
`bench_run` and the row printed after it. The clock is that of the platform it is
built for: `clock_gettime`, `gettimeofday`, which may be set meanwhile, or
`GetTickCount64`; a measurement is taken to last at least a unit of it, for the ticks a
millisecond. The library's calls are external and take some time. The programs do not
look at their results, and neither does the model.

The RSA programs hand the library an array `message` of 64 bytes on the stack. It reads
as many bytes from it as the modulus has, 256 or 384 (`cryptobench-rsa.c:64`, `70`), or
writes as many into it (`cryptobench-rsa-verification.c:64`, `68`, `73`). The behaviour is
undefined; two outcomes are modelled, that the program ends there (`Overrun`) and that
the calls return as if the array were long enough (`Measure`). What else a write beyond
the array may do to the variables behind it is not.

The operators a module introduces as mutants are plausible wrong versions of a
definition. No specification uses them; substituting one for the definition that
follows it breaks the property `PROJECT.json` pairs it with.

## The runs

| Run | Bounds | Shows |
|---|---|---|
| `Runner` | counter of 6 bits, first count 2, ten targets from 1 to 62, eight costs from 0 to 20, jitter 0 or 3 | `RowsExact`, `NeverOvershoots`, `SteadyFillsTarget`, `CalibrationReturns`, `Implements` |
| `RunnerFits` | the same | a violation, see below |
| `TlsRunner` | 6 bits, first counts 1 and 4 | the same properties for both benchmarks |
| `TlsPair` | flights of 3, 5, 2, 2 units, BIO of 2, 22 attempts | `AttemptsSuffice`, `PipesBounded`, `MemorySafe`, `Completes` |
| `TlsTransfer` | messages of 1 to 7 bytes, records of 3, BIO of 4, pattern of period 2, 2 batches of up to 2 | `NeverFails`, `Delivered`, `ChannelExact`, `BatchReturns` |
| `AeadCase` | sizes below and above `INT_MAX`, 3 batches of up to 2 iterations | `MemorySafe`, `NeverFails`, `Implements` |
| `TlsCase` | as `AeadCase`, two suites, asked for and negotiated | `TlsMemorySafe`, `TlsImplements` |
| `BenchMain` | argument lists of up to 4 over 14 words, `uint64_t` of 8 bits | `OptionsExact`, `StatusHonest`, `CasesSound` |
| `TlsMain` | the same | `OptionsExact`, `TlsStatusHonest`, `MatchedExact` |
| `Pipeline` | two architectures, one case for each of the three tables, three samples; the disk of one job may fill up; one baseline has median 0 | `NothingPartial`, `OneRunPerCell`, `RatiosWithinArchitecture`, `WorkflowEnds`, `PublishedWhole` |
| `Cryptobench` | a millisecond of 2 µs of 3 ns, a second of 4 µs, `uint64_t` of 11 bits, totals of 16 bytes, blocks up to 8 | `TablesWhole`, `RatesTrue` |
| `CryptobenchHeading` | the same | a violation, see below |

Why the bounds are enough: in the six-bit counter doubling reaches half the range
(costs 0), the scaled count passes it and the product with the size overflows, so
each branch of the code is taken. The BIO of `TlsPair` is smaller than the
client's first and the server's flight, so both sides block in mid-flight, which
the 17 KiB of the real BIO bring about only for large certificates. In `TlsTransfer`
a record with its overhead just fits the BIO, and messages lie below, at and
above one and two records. Two batches of two transfers give stale bytes from the
same and from an earlier batch. Lists of four arguments hold two options with
their values, so an option can be repeated, replaced, left without a value or
taken for one; 8 bits let a product and a narrowing cast lose bits if the bounds
were not tested. `MaxBatches` and `MaxIterations` bound histories only: the next
batch finds the same state as the last.

Two architectures are what the workflow has, and two libraries of which one builds
two backends give jobs with two and with four files. With three samples, no two
rates alike and the median neither first nor last, a sample of another file or
experiment in a cell is visible. One full disk suffices, since jobs do not share
any and the last job needs all of them. In `Cryptobench` a measurement starts
anywhere within a unit of any clock and lasts from one to several of the largest,
so every way the divisions may round occurs.

`SampleFitsTarget` in `RunnerFits` states what `--sample-ms` is documented to be
(`src/main.c:31`, `README.md:58`). The code starts from 64 iterations
(`src/runner.c:33`) and never goes below: an operation that takes more than a 64th of
the target is measured for longer. `NeverOvershoots`, which is proved, says this
is the only exception.

`HeadingTrue` in `CryptobenchHeading` reads the heading of the tables of
`cryptobench.c:109` and `cryptobench-aegis.c:102`, MiB/s, as mebibytes in a second.
The rate multiplies bytes by 8 first (lines 83 and 76): it is in mebibits, as
the axis of the plot in `README.md:199` says.

Things seen on the way that are not runs: the comparison of the buffers at the
end of a transfer batch (`backends/openssl_tls.c:258`) lies inside the timed region;
and the sampling loop relies on `main` refusing a size of 0, since
`ofb_backend_run_batch` would read a byte nothing has written (`CasesSound` covers
this: every case has the size typed last, or a default one if none was, and it is not 0). The LibreSSL job validates backend and architecture of its rows, but only the
OpenSSL job their version. In the single-file programs a wall clock set back by as
much as a measurement took makes the divisor 0; `TablesWhole` allows a trap for that
clock and for the RSA programs (see above), and for nothing else.

### Fairness

`Runner`, `TlsRunner`, `TlsPair` and `TlsTransfer` have weak fairness of `Step`, the
disjunction of what the one thread can do next. It says the thread keeps running:
no backend call waits, because both ends of a BIO pair are memory and the loops
retry instead of blocking. Nothing is assumed about which outcome a step has. In
`CalibrationReturns` the batches may be as short as they like; it is the bound on the
counter that ends the loop. `Completes` and `BatchReturns` are checked where the
library reports no error.

`Pipeline` has weak fairness of `Overdue`: the last job is started or skipped when
the others are over, and a job that is under way is ended by its `timeout-minutes`
(lines 26, 125 and 260) if nothing else ends it. No step has to succeed or even to
return, so `WorkflowEnds` also holds when every command hangs.

## What is proved

`tlapm` checks these for every value of the constants that satisfies the named
assumptions.

**`RunnerProofs`** (from `RunnerAssumption`). `IInv` says that `count` is the
first count or its work a quarter of the target at most (`CountBounded`), that the
batch which ended the loop took at least its work (`LastBatchTimed`), that nothing is
settled or printed before (`Unsettled`) and no more than was asked for after
(`NotTooMany`). It is needed because `NeverOvershoots` speaks of the end only:
doubling is harmless because an unfinished count took less than an eighth of the
target. Lemmas `Quotient`, `Cancel` and `Scale` carry the arithmetic. Results:
`TypeCorrect`, `PrintedRowsExact`, `CalibrationNeverOvershoots`,
`RunnerImplementsSampling` (a step simulation to `Sampling`), and
`SteadyCalibrationFillsTarget` for the cases without noise, by a second invariant that
fixes the sample to `count * cost`.

**`TlsRunnerProofs`** (from `TlsRunnerAssumption`) takes the module above twice, once
for each benchmark with its own first count. `HandshakeStep` and `TransferStep` show
that a step of `TlsRunner` is one of the instance, so the invariant and the
simulation come from the lemmas of `RunnerProofs`: `TlsRowsAreExact`,
`TlsCalibrationNeverOvershoots`, `TlsRunnerImplementsSampling`.

**`TlsPairProofs`** (from `TlsPairAssumption`). The heart is `NeverBothBlocked`: at
every pair of positions before both ends, some side can move, whatever the
capacity, provided the tickets fit. Hence each round moves a unit (`Budget` in
`IInv`), hence `LoopNeverExhausted`. `Pipes` keeps reads behind writes and buffers
within capacity (`PipesCorrect`), `Memory` follows the pointers (`MemoryCorrect`).
The assumption `MaxAttempts >= ClientEnd + ServerEnd` relates the 10000 attempts to
units a call moves at least; with TLS records as units a handshake has a few dozen.
That the tickets fit the BIO is what the code relies on when it stops calling the client.

**`TlsTransferProofs`** (from `TlsTransferAssumption`). `IInv` is `TypeOK` with
`ChannelExact`, the position of the cursor (`Cursor`), the bytes of this transfer
already in place (`Prefix`) and the size of what the BIO holds (`Occupancy`).
`OneRecord` shows that a chunk is one record and fits an empty BIO. Results:
`TransfersNeverFail`, `TransfersDeliver`, `ChannelCorrect`, `TypeCorrect`.

**`CaseProofs`** (from `CaseAssumption`, `AeadCaseAssumption`, `TlsCaseAssumption`) is about
both backends. `Ownership` says what lives while the AEAD backend is in use, and that
outside nothing does and `run_case` has no pointer it would destroy twice;
`Openable` that the texts `open` reads stay those of create: `TypeCorrect`,
`MembersFreedOnce`, `IterationsRepeatable`, `AeadCaseImplementsLifecycle`. For TLS,
`TlsOwnership` ties the transfer pair to the pointer to it, so that a pair that
destroyed itself is not destroyed again; `PairWithinIteration` confines the pair of a
handshake: `TlsTypeCorrect`, `ObjectsFreedOnce`, `TlsCaseImplementsLifecycle`.

**`MainProofs`** is about both programs, for lists of arguments of any length, any number
of names and sizes, and any width of `uint64_t`. What the constants have to satisfy is
`BenchMainAssumption` and `TlsMainAssumption`, the hypotheses of the theorems, which
`MCBenchMain` and `MCTlsMain` assume and TLC evaluates. `ParseInv` says that the cursor
stands on an option, and `HoldsLast` that each option has the value given last before
the cursor (`AeadOptionsExact`, `TlsOptionsExact`). `AeadInMatrix` and
`TlsInMatrix` place the loop indices in the matrix: the cases run are as many of its first
as the indices have passed (`ExitStatusHonest`, `TlsExitStatusHonest`), which is
what makes a failing case leave a proper prefix. `ParseInv` also
says that `size_set` is true exactly when a size was given: with the parser's refusal
of 0 this gives `CasesAreSound`. The flag of the cipher loop is true exactly when a cipher already
passed was selected (`TlsMatchedExact`); and a known
algorithm with an operation that passed the check leaves a case to run
(`AeadSomeCase`), so that status 0 after nothing printed never stands for an unknown one.

**`PipelineProofs`** (from `PipelineAssumption`, for every matrix, any set of full disks
and whatever is measured). `IInv` has two parts. `JobsInv` says of each job that it has
written the files of the runs before its turn, under names that separate them
(`FileNameSeparates`), and, once it is past validation, that all of them are whole.
`LastJobSound` says the same of the directory of the last job, and what the report
was made from. The argument goes from the files to the cells:

1. a file that has as many lines as rows are due, all of them whole, lacks nothing
   (`CountedLines`), so the count in the validation step makes up for what the
   programs do not notice (`NothingPartialIsPublished`);
2. all jobs have validated and no two of them use a name twice, so the merged
   directory is whole in any order of extraction (`DownloadIsWhole`);
3. the rows of whole files are one for each sample of each experiment
   (`RowsOfFiles`), so a cell is of one run and the version shown, read from the last
   row, is that of all rows (`CellsAreOfOneRun`);
4. the median of a cell depends on its rates only, not on the places of its rows
   (`MedianOf`), and is what half of the samples reach and half do not exceed
   (`MedianInTheMiddle`): `CellShown` and `ShownIsCell` then give
   `RatiosAreWithinArchitecture` and `ComparisonIsPublishedWhole`, the refinement
   of `Publication`.

`IInv` was checked by TLC on the instance of the run before it was proved.

**`CryptobenchProofs`** (from `ClockAssumption` and `CryptobenchAssumption`) begins with
the readings: `SpecExact` and `CounterExact` show that `ofb_now_ns` loses nothing its unit
can express, `SpecElapsed` and `TicksElapsed` bound what a difference of two readings
loses. `IInv` says that block sizes divide the total (`BlocksDivide`) and that products
stay within `uint64_t` (`ProgramSound`): `PrintedRatesTrue`. `TableInv` says where the
loops are in the table (`InTable`), which lines are out (`Printed`), in which order
(`InOrder`), and that only the wall clock or an RSA program can trap; as there is no power of two between a
block size and its double, the lines are all there when the loop ends: `TablesAreWhole`.

Termination, as far as it is not temporal, is the action property
`EveryStepIsForward` of five of these modules: `Remaining` (`Moved` for a
transfer, `Left` for a job) is a natural number, a bound on what is left to do, and
every step makes it smaller. In `Runner` it rests on doubling never wrapping, in
`TlsPair` on `Budget`: it counts units to be moved and not the 10000 attempts, so
that the bound of the loop is not what ends it. With `HandshakeNeverGivenUp` and
`TransfersNeverFail` the end is the good one where the library reports no error.
In `Pipeline` each step brings one job closer to its end and sets none back, so
nothing is ever repeated.

Every safety property and every refinement that a passing run checks is thus a theorem.
Only model-checked are the liveness properties, `CalibrationReturns`,
`TlsCalibrationReturns`, `Completes`, `BatchReturns` and `WorkflowEnds`. What separates
them from the theorems above is fairness, that there is a next step and that it
is taken: `ENABLED` and liveness under fairness are out of the prover's reach.
What is external (libcrypto, libssl, `strtoull`, Python's `statistics`, the runner of
the workflow) enters the proofs as the models state it.

## Plan

Done, in this order: `Sampling`, `Runner` and its proofs; `TlsPair`, `TlsTransfer`
and their proofs; `Lifecycle`, `AeadCase`, `TlsCase`; `TlsRunner`; `Cli`,
`BenchMain`, `TlsMain`; `Summary`, `Publication`, `Pipeline`; `Clock`, `Cryptobench`; the
proofs of `TlsRunner`, `Pipeline`, `Cryptobench` and of both cases; the proofs of both
programs and of what the pipeline publishes; termination.

What could be added:

1. `Bench`, composing `BenchMain` with `Runner` and `Lifecycle` per case, to state
   what stdout holds in rows instead of cases.
2. `EveryStepIsForward` for the loops of the programs and of the single-file
   benchmarks.

## Not modelled

- `patches/libressl`: the patch changes code that is not in the repository; the
  record layer around it is not available.
- `scripts/profile_aead.sh`, `scripts/summarize_profiles.py`, `profile.yml`: one job per
  architecture runs perf command by command, stops at the first failure, and a
  pass over its reports lays them out. No two steps share state that could go
  wrong between them.
- `CMakeLists.txt`, `Makefile`, certificates and images hold no behaviour.
- In what is modelled: the texts of `usage` and `--list`, the layout of rows and
  tables, the rounding of `long double`, cryptography, and in the single-file
  programs the memory they allocate.
