------------------------------ MODULE Cryptobench ------------------------------
(***************************************************************************)
(* The single-file benchmarks: cryptobench.c, cryptobench-aegis.c,         *)
(* cryptobench-ecdh.c, cryptobench-rsa.c, cryptobench-rsa-verification.c.  *)
(* Each is a loop over what it measures; bench_run reads the clock, does a *)
(* fixed amount of work, reads the clock again and returns an integer      *)
(* rate, computed in uint64_t.  The library calls are external and take    *)
(* some time; their results are not looked at.                             *)
(*                                                                         *)
(* The RSA programs hand the library an array message of 64 bytes where it *)
(* reads as many as the modulus has, 256 or 384 (cryptobench-rsa.c:70), or *)
(* writes as many (cryptobench-rsa-verification.c:73).  That is undefined. *)
(* The outcomes modelled are that the program ends there and that the      *)
(* calls return as if the array were long enough; what else could become   *)
(* of the variables that lie behind it is not modelled.                    *)
(***************************************************************************)
EXTENDS Clock, Sequences

CONSTANTS
  UINT64_MAX,
  Mega,          \* 1024 * 1024
  TotalSize,     \* 512 * 1024 * 1024
  LargestBlock,  \* 65536
  EcdhRounds,    \* 100000
  RsaRounds,     \* 10000
  Starts,        \* times a measurement may start at
  Elapsed,       \* times it may take
  Steps          \* what a wall clock may be set forward or back by

(* A measurement takes longer than its clock's unit, no clock counts so    *)
(* far that the divisor of the rate leaves uint64_t, and the total is a    *)
(* power of two above the largest block: what divides it does so doubled.  *)
ASSUME CryptobenchAssumption ==
  /\ UINT64_MAX \in Nat /\ Mega \in Nat \ {0}
  /\ TotalSize \in Nat /\ EcdhRounds \in Nat /\ RsaRounds \in Nat
  /\ TotalSize * 8 * UsPerSec <= UINT64_MAX
  /\ EcdhRounds * UsPerSec <= UINT64_MAX /\ RsaRounds * UsPerSec <= UINT64_MAX
  /\ LargestBlock \in Nat \ {0}
  /\ \A b \in 1 .. LargestBlock :
       2 * b <= LargestBlock /\ TotalSize % b = 0 => TotalSize % (2 * b) = 0
  /\ Starts \subseteq Nat /\ Elapsed \subseteq Nat /\ Steps \subseteq Int
  /\ \A e \in Elapsed : /\ e >= NsPerUs * UsPerMs
                        /\ (e \div NsPerUs + UsPerMs + 1) * Mega <= UINT64_MAX

Wrap(n) == n % (UINT64_MAX + 1)

-----------------------------------------------------------------------------
(* The programs                                                            *)

(* A program: what it measures, with which block sizes, the factors of the *)
(* rate it prints, work * 1000000 / (duration * unit), and whether its     *)
(* calls leave the array they are given.                                   *)
cryptobench ==
  [names |-> <<"AES-128-GCM", "AES-256-GCM", "AES-128-CBC", "AES-256-CBC">>,
   last |-> LargestBlock, work |-> TotalSize * 8, unit |-> Mega, overruns |-> FALSE]

cryptobench_aegis ==
  [names |-> <<"AEGIS-128L", "AES-128-GCM", "AES-128-GCM-SIV", "CHACHA20-POLY1305">>,
   last |-> LargestBlock, work |-> TotalSize * 8, unit |-> Mega, overruns |-> FALSE]

cryptobench_ecdh ==
  [names |-> <<"p256", "p384">>, last |-> 1, work |-> EcdhRounds, unit |-> 1,
   overruns |-> FALSE]

cryptobench_rsa ==
  [names |-> <<"RSA 2048", "RSA 3072">>, last |-> 1, work |-> RsaRounds, unit |-> 1,
   overruns |-> TRUE]

cryptobench_rsa_verification ==
  [names |-> <<"RSA 2048", "RSA 3072">>, last |-> 1, work |-> RsaRounds, unit |-> 1,
   overruns |-> TRUE]

VARIABLES
  program,  \* one of the above
  clock,    \* what time_now reads: "monotonic", "wall" or "ticks"
  pc,       \* "measure", "done" or "trap"
  item,     \* the index of what is measured
  block,    \* block_size
  printed,  \* the rows printed, as pairs of a name and a block size
  row       \* the rate printed last, and what was really done in which time

vars == <<program, clock, pc, item, block, printed, row>>

NoRow == [rate |-> 0, done |-> 0, elapsed |-> 1, stepped |-> FALSE]

Init ==
  /\ program \in {cryptobench, cryptobench_aegis, cryptobench_ecdh, cryptobench_rsa,
                  cryptobench_rsa_verification}
  /\ clock \in {"monotonic", "wall", "ticks"}
  /\ pc = "measure" /\ item = 1 /\ block = 1
  /\ printed = << >> /\ row = NoRow

time_now(t) ==
  Wrap(IF clock = "ticks" THEN MicrosecondsOfTicks(t) ELSE MicrosecondsOfSpec(t))

(* What bench_run does with one block size: total_size / block_size blocks *)
(* of it, in bits; the other programs count their rounds.                  *)
Done == IF program.unit = 1 THEN program.work ELSE (program.work \div (8 * block)) * 8 * block

(* Mutant: the loop doubles once too often.                                *)
TwiceTheLast(size) == size <= 2 * program.last

MoreBlocks(size) == size <= program.last

(* Mutant: sizes grow by a half, so that some do not divide the total.     *)
Half(size) == size + (size + 1) \div 2

Double(size) == size * 2

(* The row is printed, and the loops go on.                                *)
Emit(r) ==
  /\ row' = r
  /\ printed' = Append(printed, <<program.names[item], block>>)
  /\ IF MoreBlocks(Double(block)) THEN block' = Double(block) /\ UNCHANGED <<item, pc>>
     ELSE IF item < Len(program.names)
       THEN block' = 1 /\ item' = item + 1 /\ UNCHANGED pc
       ELSE pc' = "done" /\ UNCHANGED <<block, item>>

(* bench_run and printf.  A divisor of 0 is undefined: it traps, or the    *)
(* quotient is 0.                                                          *)
Measure ==
  /\ pc = "measure"
  /\ \E start \in Starts, e \in Elapsed, step \in IF clock = "wall" THEN Steps ELSE {0} :
       LET duration == Wrap(time_now(start + e + step) - time_now(start))
           divisor == Wrap(duration * program.unit)
           r(rate) == [rate |-> rate, done |-> Done, elapsed |-> e, stepped |-> step # 0]
       IN  /\ start + e + step >= 0
           /\ IF divisor # 0 THEN Emit(r(Wrap(program.work * UsPerSec) \div divisor))
              ELSE \/ Emit(r(0))
                   \/ pc' = "trap" /\ UNCHANGED <<item, block, printed, row>>
  /\ UNCHANGED <<program, clock>>

(* bench_run of the RSA programs does not come back from a call that       *)
(* leaves message.                                                         *)
Overrun ==
  /\ pc = "measure" /\ program.overruns
  /\ pc' = "trap"
  /\ UNCHANGED <<program, clock, item, block, printed, row>>

Terminated == pc \in {"done", "trap"} /\ UNCHANGED vars

Next == Measure \/ Overrun \/ Terminated

Spec == Init /\ [][Next]_vars

-----------------------------------------------------------------------------
(* Properties                                                              *)

(* No odd number but 1 divides a power of two.                             *)
PowerOfTwo(n) == \A d \in 2 .. n : n % d = 0 => d % 2 = 0

(* A program that ends has printed every row of its table once, by item    *)
(* and then by block size, and the sizes are the powers of two up to the   *)
(* largest; it never traps unless its clock was set or it leaves the array *)
(* message, as only the RSA programs do.                                   *)
TablesWhole ==
  /\ pc = "done" =>
       /\ \A i \in 1 .. Len(program.names) : \A size \in 1 .. program.last :
            PowerOfTwo(size) => \E n \in 1 .. Len(printed) : printed[n] = <<program.names[i], size>>
       /\ \A n \in 1 .. Len(printed) - 1 :
            \/ printed[n + 1][1] = printed[n][1] /\ printed[n + 1][2] > printed[n][2]
            \/ \E i \in 1 .. Len(program.names) - 1 :
                 /\ printed[n][1] = program.names[i] /\ printed[n + 1][1] = program.names[i + 1]
                 /\ printed[n + 1][2] = 1
  /\ \A n \in 1 .. Len(printed) : printed[n][2] <= program.last
  /\ pc = "trap" => clock = "wall" \/ program.overruns

(* The unit of the clock, in nanoseconds.                                  *)
Resolution == IF clock = "ticks" THEN NsPerUs * UsPerMs ELSE NsPerUs

(* A printed rate is that of the work that was done, in a time that        *)
(* differs from the true one by less than the clock's unit: no remainder   *)
(* of the total is left out, no product leaves uint64_t.                   *)
RatesTrue ==
  row # NoRow /\ ~row.stepped =>
    /\ row.done = program.work
    /\ \E d \in 1 .. (row.elapsed + Resolution) \div NsPerUs :
         /\ d * NsPerUs - row.elapsed \in 1 - Resolution .. Resolution - 1
         /\ row.rate = (row.done * UsPerSec) \div (d * program.unit)

(* The heading of the tables, "MiB/s": in a second, work worth as many     *)
(* times Mega bytes as the row says.                                       *)
HeadingTrue ==
  row # NoRow /\ ~row.stepped /\ program.unit = Mega =>
    (row.rate * Mega) * (row.elapsed - Resolution) <= (row.done \div 8) * NsPerSec
==============================================================================
