--------------------------- MODULE CryptobenchProofs ---------------------------
(***************************************************************************)
(* Proofs about Clock, for every factor and every reading: what its        *)
(* divisions lose; and about Cryptobench, for every clock, every duration  *)
(* and every size of the work and of the blocks.                           *)
(***************************************************************************)
EXTENDS Cryptobench, TLAPS

USE ClockAssumption

-----------------------------------------------------------------------------
(* Division                                                                *)

(* A dividend is its quotient and its remainder.                           *)
LEMMA Division ==
  ASSUME NEW a \in Int, NEW b \in Nat \ {0}
  PROVE  /\ a \div b \in Int /\ a % b \in 0 .. b - 1
         /\ a = b * (a \div b) + (a % b)
         /\ a \in Nat => a \div b \in Nat
  OBVIOUS

(* A multiple of b smaller than b, on either side of 0, is 0.              *)
LEMMA SmallMultiple ==
  ASSUME NEW b \in Nat \ {0}, NEW k \in Int, b * k < b, b * k > -b
  PROVE  k = 0
  <1>1. ASSUME k >= 1 PROVE FALSE
    <2>1. PICK n \in Nat : k = 1 + n
      BY <1>1, k - 1 \in Nat, k = 1 + (k - 1)
    <2>2. b * k = b + b * n /\ b * n \in Nat
      BY <2>1
    <2>. QED BY <2>2
  <1>2. ASSUME k <= -1 PROVE FALSE
    <2>1. PICK n \in Nat : k = -1 - n
      BY <1>2, -1 - k \in Nat, k = -1 - (-1 - k)
    <2>2. b * k = -b - b * n /\ b * n \in Nat
      BY <2>1
    <2>. QED BY <2>2
  <1>. QED BY <1>1, <1>2

(* Quotient and remainder are the only ones.                               *)
LEMMA Unique ==
  ASSUME NEW b \in Nat \ {0}, NEW q \in Int, NEW r \in 0 .. b - 1,
         NEW a \in Int, a = b * q + r
  PROVE  a \div b = q /\ a % b = r
  <1> DEFINE d == a \div b
             m == a % b
  <1>1. d \in Int /\ m \in 0 .. b - 1 /\ a = b * d + m
    BY Division
  <1> HIDE DEF d, m
  <1>2. b * (q - d) = m - r
    BY <1>1
  <1>3. q - d = 0
    BY <1>1, <1>2, SmallMultiple, q - d \in Int
  <1>. QED BY <1>1, <1>3 DEF d, m

(* Remainders of numbers that are close differ by what the numbers differ. *)
LEMMA Difference ==
  ASSUME NEW n \in Nat \ {0}, NEW a \in Nat, NEW b \in Nat, a - b \in 0 .. n - 1
  PROVE  ((a % n) - (b % n)) % n = a - b
  <1> DEFINE qa == a \div n
             ra == a % n
             qb == b \div n
             rb == b % n
             d == a - b
             k == qb - qa
             x == ra - rb
  <1>1. qa \in Nat /\ ra \in 0 .. n - 1 /\ a = n * qa + ra
    OBVIOUS
  <1>2. qb \in Nat /\ rb \in 0 .. n - 1 /\ b = n * qb + rb
    OBVIOUS
  <1> HIDE DEF qa, ra, qb, rb
  <1>3. d \in 0 .. n - 1 /\ k \in Int /\ x \in Int
    BY <1>1, <1>2
  <1>4. x = n * k + d
    BY <1>1, <1>2
  <1> HIDE DEF k, x
  <1>5. x % n = d
    BY <1>3, <1>4, Unique
  <1>. QED BY <1>5 DEF x, ra, rb

(* A positive factor common to both sides of an inequality cancels.        *)
LEMMA Cancels ==
  ASSUME NEW a \in Int, NEW b \in Int, NEW c \in Nat \ {0}, a * c < b * c
  PROVE  a < b
  <1>1. ASSUME a >= b PROVE FALSE
    <2>1. PICK n \in Nat : a = b + n
      BY <1>1, a - b \in Nat, a = b + (a - b)
    <2>2. a * c = b * c + n * c /\ n * c \in Nat
      BY <2>1
    <2>. QED BY <2>2
  <1>. QED BY <1>1

-----------------------------------------------------------------------------
(* ofb_now_ns                                                              *)

LEMMA NsPerSecPositive == NsPerSec \in Nat \ {0}
  BY DEF NsPerSec

(* src/timer.c where there is clock_gettime: no time is lost.              *)
THEOREM SpecExact ==
  ASSUME NEW t \in Nat
  PROVE  NanosecondsOfSpec(t) = t
  <1>. QED BY NsPerSecPositive, Division DEF NanosecondsOfSpec, tv_sec, tv_nsec

(* src/timer.c where there is a counter: the split loses nothing that the  *)
(* quotient of the whole product would keep.                               *)
THEOREM CounterExact ==
  ASSUME NEW counter \in Nat, NEW frequency \in Nat \ {0}
  PROVE  NanosecondsOfCounter(counter, frequency) = (counter * NsPerSec) \div frequency
  <1> DEFINE q == counter \div frequency
             r == counter % frequency
             n == NsPerSec
             p == r * n
             pq == p \div frequency
             pr == p % frequency
  <1>1. n \in Nat \ {0}
    BY NsPerSecPositive
  <1>2. q \in Nat /\ r \in Nat /\ counter = frequency * q + r
    BY Division
  <1> HIDE DEF q, r, n
  <1>3. p \in Nat
    BY <1>1, <1>2
  <1>p. p = r * n
    OBVIOUS
  <1> HIDE DEF p
  <1>4. pq \in Int /\ pr \in 0 .. frequency - 1 /\ p = frequency * pq + pr
    BY <1>3, Division
  <1> HIDE DEF pq, pr
  <1>5. counter * n = frequency * (q * n) + p
    BY <1>1, <1>2, <1>p
  <1>6. counter * n = frequency * (q * n + pq) + pr
    BY <1>1, <1>2, <1>3, <1>4, <1>5
  <1>7. (counter * n) \div frequency = q * n + pq
    BY <1>1, <1>2, <1>4, <1>6, Unique, q * n + pq \in Int, counter * n \in Int
  <1>. QED BY <1>7 DEF NanosecondsOfCounter, q, n, pq, p, r

-----------------------------------------------------------------------------
(* time_now of the single-file benchmarks                                  *)

(* Two floors of a quotient are less than one unit away from that of the   *)
(* difference.                                                             *)
LEMMA ElapsedUnits ==
  ASSUME NEW s \in Nat, NEW e \in Nat, NEW unit \in Nat \ {0}
  PROVE  (((s + e) \div unit) - (s \div unit)) * unit - e \in 1 - unit .. unit - 1
  <1> DEFINE q1 == (s + e) \div unit
             r1 == (s + e) % unit
             q0 == s \div unit
             r0 == s % unit
  <1>1. q1 \in Nat /\ r1 \in 0 .. unit - 1 /\ s + e = unit * q1 + r1
    OBVIOUS
  <1>2. q0 \in Nat /\ r0 \in 0 .. unit - 1 /\ s = unit * q0 + r0
    OBVIOUS
  <1> HIDE DEF q1, r1, q0, r0
  <1>3. (q1 - q0) * unit = unit * q1 - unit * q0
    BY <1>1, <1>2
  <1>4. (q1 - q0) * unit - e = r0 - r1
    BY <1>1, <1>2, <1>3
  <1>. QED BY <1>1, <1>2, <1>4 DEF q1, q0

(* Seconds and a part of a second make the quotient of the time.           *)
LEMMA MicrosecondsAreAQuotient ==
  ASSUME NEW t \in Nat
  PROVE  MicrosecondsOfSpec(t) = t \div NsPerUs
  <1> DEFINE q == t \div NsPerSec
             r == t % NsPerSec
             u == r \div NsPerUs
             v == r % NsPerUs
  <1>1. q \in Nat /\ r \in Nat /\ t = NsPerSec * q + r
    BY Division, NsPerSecPositive
  <1> HIDE DEF q, r
  <1>2. u \in Nat /\ v \in 0 .. NsPerUs - 1 /\ r = NsPerUs * u + v
    BY <1>1
  <1> HIDE DEF u, v
  <1>3. NsPerSec * q = NsPerUs * (q * UsPerSec)
    BY <1>1 DEF NsPerSec
  <1>4. t = NsPerUs * (q * UsPerSec + u) + v
    BY <1>1, <1>2, <1>3
  <1> DEFINE k == q * UsPerSec + u
  <1>k. k \in Int /\ t = NsPerUs * k + v
    BY <1>1, <1>2, <1>4
  <1> HIDE DEF k
  <1>5. t \div NsPerUs = k
    BY <1>2, <1>k, Unique
  <1>. QED BY <1>5 DEF MicrosecondsOfSpec, tv_sec, tv_nsec, q, r, u, k

(* What a clock counts is within one of its units of what has passed.      *)
LEMMA SpecElapsed ==
  ASSUME NEW s \in Nat, NEW e \in Nat
  PROVE  (MicrosecondsOfSpec(s + e) - MicrosecondsOfSpec(s)) * NsPerUs - e
           \in 1 - NsPerUs .. NsPerUs - 1
  <1>1. s + e \in Nat
    OBVIOUS
  <1>. QED BY <1>1, MicrosecondsAreAQuotient, ElapsedUnits

LEMMA TicksElapsed ==
  ASSUME NEW s \in Nat, NEW e \in Nat
  PROVE  (MicrosecondsOfTicks(s + e) - MicrosecondsOfTicks(s)) * NsPerUs - e
           \in 1 - NsPerUs * UsPerMs .. NsPerUs * UsPerMs - 1
  <1> DEFINE m == NsPerUs * UsPerMs
             q1 == (s + e) \div m
             q0 == s \div m
  <1>m. m \in Nat \ {0}
    OBVIOUS
  <1>d. m = NsPerUs * UsPerMs
    OBVIOUS
  <1> HIDE DEF m
  <1>1. q1 \in Nat /\ q0 \in Nat
    BY <1>m, Division, s + e \in Nat
  <1>2. (q1 - q0) * m - e \in 1 - m .. m - 1
    BY <1>m, ElapsedUnits
  <1> HIDE DEF q1, q0
  <1>3. (q1 * UsPerMs - q0 * UsPerMs) * NsPerUs = (q1 - q0) * m
    BY <1>1, <1>d
  <1>. QED BY <1>2, <1>3, <1>d DEF MicrosecondsOfTicks, q1, q0, m

HIDE ClockAssumption

-----------------------------------------------------------------------------
(* What the assumptions say of single constants.                           *)
LEMMA Constants ==
  /\ NsPerUs \in Nat \ {0} /\ UsPerMs \in Nat \ {0} /\ UsPerSec \in Nat \ {0}
  /\ UINT64_MAX \in Nat /\ Mega \in Nat \ {0} /\ TotalSize \in Nat
  BY ClockAssumption, CryptobenchAssumption

-----------------------------------------------------------------------------
(* uint64_t                                                                *)

LEMMA WrapKeeps ==
  ASSUME NEW n \in 0 .. UINT64_MAX
  PROVE  Wrap(n) = n
  BY Constants DEF Wrap

(* The difference of two wrapped readings, wrapped, is that of the         *)
(* readings.                                                               *)
LEMMA WrapDifference ==
  ASSUME NEW a \in Nat, NEW b \in Nat, a - b \in 0 .. UINT64_MAX
  PROVE  Wrap(Wrap(a) - Wrap(b)) = a - b
  <1> DEFINE n == UINT64_MAX + 1
  <1>1. n \in Nat \ {0} /\ a - b \in 0 .. n - 1
    BY Constants
  <1> HIDE DEF n
  <1>2. ((a % n) - (b % n)) % n = a - b
    BY <1>1, Difference
  <1>. QED BY <1>2 DEF Wrap, n

-----------------------------------------------------------------------------
(* The clocks                                                              *)

(* A reading before it is wrapped.                                         *)
Reading(t) == IF clock = "ticks" THEN MicrosecondsOfTicks(t) ELSE MicrosecondsOfSpec(t)

LEMMA ReadingType ==
  ASSUME NEW t \in Nat
  PROVE  Reading(t) \in Nat
  <1>1. MicrosecondsOfSpec(t) \in Nat
    BY Constants, MicrosecondsAreAQuotient
  <1>2. t \div (NsPerUs * UsPerMs) \in Nat
    <2> DEFINE m == NsPerUs * UsPerMs
    <2>1. m \in Nat \ {0}
      BY Constants
    <2> HIDE DEF m
    <2>2. t \div m \in Nat
      BY <2>1
    <2>. QED BY <2>2 DEF m
  <1>3. MicrosecondsOfTicks(t) \in Nat
    BY Constants, <1>2 DEF MicrosecondsOfTicks
  <1>. QED BY <1>1, <1>3 DEF Reading

LEMMA ResolutionType == Resolution \in Nat \ {0} /\ Resolution <= NsPerUs * UsPerMs
  <1>1. NsPerUs <= NsPerUs * UsPerMs
    <2>1. PICK n \in Nat : UsPerMs = 1 + n
      BY Constants, UsPerMs - 1 \in Nat, UsPerMs = 1 + (UsPerMs - 1)
    <2>2. NsPerUs * UsPerMs = NsPerUs + NsPerUs * n /\ NsPerUs * n \in Nat
      BY Constants, <2>1
    <2>. QED BY Constants, <2>2
  <1>. QED BY Constants, <1>1, NsPerUs * UsPerMs \in Nat \ {0} DEF Resolution

LEMMA ReadingElapsed ==
  ASSUME NEW s \in Nat, NEW e \in Nat
  PROVE  (Reading(s + e) - Reading(s)) * NsPerUs - e \in 1 - Resolution .. Resolution - 1
  BY SpecElapsed, TicksElapsed DEF Reading, Resolution

(* What bench_run takes for the duration is within a unit of the clock of  *)
(* the true one, is not 0, and its product with the unit of the rate does  *)
(* not leave uint64_t.                                                     *)
LEMMA Duration ==
  ASSUME NEW s \in Starts, NEW e \in Elapsed
  PROVE  \E d \in 1 .. (e + Resolution) \div NsPerUs :
           /\ d * NsPerUs - e \in 1 - Resolution .. Resolution - 1
           /\ Wrap(time_now(s + e) - time_now(s)) = d
           /\ d <= UINT64_MAX /\ d * Mega <= UINT64_MAX
  <1> DEFINE d == Reading(s + e) - Reading(s)
             R == Resolution
             q == e \div NsPerUs
             b == q + UsPerMs + 1
  <1>1. /\ s \in Nat /\ e \in Nat /\ s + e \in Nat
        /\ e >= NsPerUs * UsPerMs /\ b * Mega <= UINT64_MAX
    BY CryptobenchAssumption
  <1>2. R \in Nat \ {0} /\ R <= NsPerUs * UsPerMs
    BY ResolutionType
  <1>3. d \in Int /\ d * NsPerUs - e \in 1 - R .. R - 1
    BY <1>1, ReadingType, ReadingElapsed
  <1>4. time_now(s + e) = Wrap(Reading(s + e)) /\ time_now(s) = Wrap(Reading(s))
    BY DEF time_now, Reading
  <1>q. q \in Nat /\ NsPerUs * q <= e /\ e < NsPerUs * q + NsPerUs
    BY <1>1, Constants
  <1>b. b = q + UsPerMs + 1
    OBVIOUS
  <1>d. d = Reading(s + e) - Reading(s)
    OBVIOUS
  <1>r. R = Resolution
    OBVIOUS
  <1> HIDE DEF d, R, q, b
  <1>5. d >= 1
    <2>1. d * NsPerUs > 0
      BY <1>1, <1>2, <1>3, Constants
    <2>2. ASSUME d <= 0 PROVE FALSE
      <3>1. PICK n \in Nat : d = -n
        BY <1>3, <2>2, -d \in Nat, d = -(-d)
      <3>2. n * NsPerUs \in Nat /\ d * NsPerUs = -(n * NsPerUs)
        BY <3>1, Constants
      <3>. QED BY <2>1, <3>2
    <2>. QED BY <1>3, <2>2
  <1>6. d <= (e + R) \div NsPerUs
    <2> DEFINE p == (e + R) \div NsPerUs
               m == (e + R) % NsPerUs
    <2>1. p \in Nat /\ m \in 0 .. NsPerUs - 1 /\ e + R = NsPerUs * p + m
      BY <1>1, <1>2, Constants
    <2> HIDE DEF p, m
    <2>2. d * NsPerUs < (p + 1) * NsPerUs
      BY <1>1, <1>2, <1>3, <2>1, Constants
    <2>3. d < p + 1
      BY <1>3, <2>1, <2>2, Constants, Cancels
    <2>. QED BY <1>3, <2>1, <2>3 DEF p
  <1>7. d <= b
    <2>1. d * NsPerUs < NsPerUs * q + NsPerUs + NsPerUs * UsPerMs
      BY <1>1, <1>2, <1>3, <1>q, Constants
    <2>2. b * NsPerUs = NsPerUs * q + NsPerUs + NsPerUs * UsPerMs
      BY <1>q, <1>b, Constants
    <2>3. d < b
      BY <1>3, <1>q, <1>b, <2>1, <2>2, Constants, Cancels
    <2>. QED BY <1>3, <1>q, <1>b, <2>3, Constants
  <1>8. d * Mega <= b * Mega /\ d <= d * Mega
    <2>1. PICK n \in Nat : b = d + n
      BY <1>3, <1>7, <1>q, <1>b, Constants, b - d \in Nat, b = d + (b - d)
    <2>2. b * Mega = d * Mega + n * Mega /\ n * Mega \in Nat
      BY <1>3, <2>1, Constants
    <2>3. PICK k \in Nat : Mega = k + 1
      BY Constants, Mega - 1 \in Nat, Mega = (Mega - 1) + 1
    <2>4. d * Mega = d * k + d /\ d * k \in Nat
      BY <1>3, <1>5, <2>3
    <2>. QED BY <1>3, <2>2, <2>4, Constants
  <1>9. d <= UINT64_MAX /\ d * Mega <= UINT64_MAX
    <2> DEFINE x == d * Mega
               y == b * Mega
    <2>1. x \in Int /\ y \in Int /\ x <= y /\ d <= x /\ y <= UINT64_MAX
      BY <1>1, <1>3, <1>q, <1>b, <1>8, Constants
    <2> HIDE DEF x, y
    <2>2. d <= UINT64_MAX /\ x <= UINT64_MAX
      BY <1>3, <2>1, Constants
    <2>. QED BY <2>2 DEF x
  <1>10. Wrap(time_now(s + e) - time_now(s)) = d
    BY <1>1, <1>3, <1>4, <1>5, <1>9, <1>d, Constants, ReadingType, WrapDifference
  <1>. QED BY <1>1, <1>2, <1>3, <1>5, <1>6, <1>9, <1>10, <1>r, Constants

-----------------------------------------------------------------------------
(* The inductive invariant                                                 *)

(* The work of a program and its product with UsPerSec are in uint64_t.    *)
ProgramSound ==
  /\ program.work \in Nat /\ program.work * UsPerSec \in 0 .. UINT64_MAX
  /\ \/ program.unit = 1
     \/ program.unit = Mega /\ program.work = TotalSize * 8 /\ program.last = LargestBlock

(* Every block size divides the total.                                     *)
BlocksDivide ==
  \/ program.unit = 1
  \/ block \in 1 .. LargestBlock /\ TotalSize % block = 0

IInv == ProgramSound /\ BlocksDivide /\ RatesTrue

LEMMA InitIInv == Init => IInv
  <1> SUFFICES ASSUME Init PROVE IInv
    OBVIOUS
  <1>1. ProgramSound
    <2> DEFINE Fits(w) == w \in Nat /\ w * UsPerSec \in 0 .. UINT64_MAX
    <2>1. Fits(TotalSize * 8) /\ Fits(EcdhRounds) /\ Fits(RsaRounds)
      BY ClockAssumption, CryptobenchAssumption
    <2> HIDE DEF Fits
    <2>2. /\ program.work \in {TotalSize * 8, EcdhRounds, RsaRounds}
          /\ \/ program.unit = 1
             \/ program.unit = Mega /\ program.work = TotalSize * 8
                /\ program.last = LargestBlock
      <3>1. CASE program = cryptobench
        BY <3>1 DEF cryptobench
      <3>2. CASE program = cryptobench_aegis
        BY <3>2 DEF cryptobench_aegis
      <3>3. CASE program = cryptobench_ecdh
        BY <3>3 DEF cryptobench_ecdh
      <3>4. CASE program = cryptobench_rsa
        BY <3>4 DEF cryptobench_rsa
      <3>5. CASE program = cryptobench_rsa_verification
        BY <3>5 DEF cryptobench_rsa_verification
      <3>. QED BY <3>1, <3>2, <3>3, <3>4, <3>5 DEF Init
    <2>3. Fits(program.work)
      BY <2>1, <2>2
    <2>. QED BY <2>2, <2>3 DEF Fits, ProgramSound
  <1>2. BlocksDivide
    <2>1. LargestBlock \in Nat \ {0} /\ TotalSize % 1 = 0
      BY CryptobenchAssumption
    <2>. QED BY <2>1 DEF Init, BlocksDivide
  <1>3. RatesTrue
    BY DEF Init, RatesTrue
  <1>. QED BY <1>1, <1>2, <1>3 DEF IInv

(* The work done is the work the rate is computed from.                    *)
LEMMA NothingLeftOut ==
  ASSUME ProgramSound, BlocksDivide
  PROVE  Done = program.work
  <1>1. CASE program.unit = 1
    BY <1>1 DEF Done
  <1>2. CASE program.unit # 1
    <2> DEFINE k == 8 * block
               n == TotalSize \div block
               w == program.work
    <2>1. /\ block \in Nat \ {0} /\ TotalSize % block = 0 /\ TotalSize \in Nat
          /\ w = TotalSize * 8
      BY <1>2, Constants, CryptobenchAssumption DEF ProgramSound, BlocksDivide
    <2>2. n \in Nat /\ TotalSize = block * n
      BY <2>1
    <2>w. Done = (w \div k) * 8 * block
      BY <1>2 DEF Done
    <2> HIDE DEF n, w
    <2>3. k \in Nat \ {0} /\ w = k * n + 0 /\ w \in Nat /\ 0 \in 0 .. k - 1
      BY <2>1, <2>2
    <2>k. k = 8 * block
      OBVIOUS
    <2> HIDE DEF k
    <2>4. w \div k = n
      BY <2>2, <2>3, Unique
    <2>5. n * 8 * block = w
      BY <2>1, <2>2, <2>3, <2>k
    <2>. QED BY <2>w, <2>4, <2>5 DEF w
  <1>. QED BY <1>1, <1>2

(* The divisor of the rate is not 0 and does not wrap.                     *)
LEMMA DivisorSound ==
  ASSUME ProgramSound, NEW d \in Nat \ {0}, d <= UINT64_MAX, d * Mega <= UINT64_MAX
  PROVE  d * program.unit \in Nat \ {0} /\ Wrap(d * program.unit) = d * program.unit
  <1>1. d * program.unit \in Nat \ {0} /\ d * program.unit <= UINT64_MAX
    <2>1. CASE program.unit = 1
      BY <2>1, Constants
    <2>2. CASE program.unit = Mega
      BY <2>2, Constants
    <2>. QED BY <2>1, <2>2 DEF ProgramSound
  <1>. QED BY <1>1, Constants, WrapKeeps

LEMMA NextIInv == IInv /\ [Next]_vars => IInv'
  <1> SUFFICES ASSUME IInv, [Next]_vars PROVE IInv'
    OBVIOUS
  <1>1. CASE Measure
    <2>1. PICK start \in Starts, e \in Elapsed, step \in IF clock = "wall" THEN Steps ELSE {0} :
            LET duration == Wrap(time_now(start + e + step) - time_now(start))
                divisor == Wrap(duration * program.unit)
                r(rate) == [rate |-> rate, done |-> Done, elapsed |-> e, stepped |-> step # 0]
            IN  /\ start + e + step >= 0
                /\ IF divisor # 0 THEN Emit(r(Wrap(program.work * UsPerSec) \div divisor))
                   ELSE \/ Emit(r(0))
                        \/ pc' = "trap" /\ UNCHANGED <<item, block, printed, row>>
      BY <1>1 DEF Measure
    <2> DEFINE duration == Wrap(time_now(start + e + step) - time_now(start))
               divisor == Wrap(duration * program.unit)
               r(rate) == [rate |-> rate, done |-> Done, elapsed |-> e, stepped |-> step # 0]
               good == Wrap(program.work * UsPerSec) \div divisor
    <2>2. program' = program /\ clock' = clock
      BY <1>1 DEF Measure
    <2>3. ProgramSound'
      BY <2>2 DEF IInv, ProgramSound
    <2>4. \/ UNCHANGED <<block, row>>
          \/ \E rate : Emit(r(rate)) /\ (divisor # 0 => rate = good)
      BY <2>1
    <2>5. BlocksDivide'
      <3>1. CASE block' = block
        BY <3>1, <2>2 DEF IInv, BlocksDivide
      <3>2. CASE block' = Double(block) /\ MoreBlocks(Double(block))
        <4>1. CASE program.unit = 1
          BY <4>1, <2>2 DEF BlocksDivide
        <4>2. CASE program.unit # 1
          <5>1. /\ block \in 1 .. LargestBlock /\ TotalSize % block = 0
                /\ block' = 2 * block /\ 2 * block <= LargestBlock
            BY <3>2, <4>2, CryptobenchAssumption
               DEF IInv, BlocksDivide, ProgramSound, Double, MoreBlocks
          <5>2. TotalSize % (2 * block) = 0
            BY <5>1, CryptobenchAssumption
          <5>3. block' \in 1 .. LargestBlock
            <6>1. PICK b \in 1 .. LargestBlock : b = block
              BY <5>1
            <6>2. 2 * b \in 1 .. LargestBlock
              BY <5>1, <6>1, CryptobenchAssumption
            <6>. QED BY <5>1, <6>1, <6>2
          <5>. QED BY <5>1, <5>2, <5>3 DEF BlocksDivide
        <4>. QED BY <4>1, <4>2
      <3>3. CASE block' = 1
        <4>1. TotalSize % 1 = 0 /\ 1 \in 1 .. LargestBlock
          BY CryptobenchAssumption
        <4>. QED BY <3>3, <4>1 DEF BlocksDivide
      <3>. QED BY <2>4, <3>1, <3>2, <3>3 DEF Emit
    <2>6. RatesTrue'
      <3>1. CASE row' = row
        BY <3>1, <2>2 DEF IInv, RatesTrue, Resolution
      <3>2. CASE \E rate : row' = r(rate) /\ (divisor # 0 => rate = good)
        <4>1. PICK rate : row' = r(rate) /\ (divisor # 0 => rate = good)
          BY <3>2
        <4>2. CASE step # 0
          BY <4>1, <4>2 DEF RatesTrue
        <4>3. CASE step = 0
          <5>1. start \in Nat /\ e \in Nat /\ start + e + step = start + e
            BY <4>3, CryptobenchAssumption
          <5>2. PICK d \in 1 .. (e + Resolution) \div NsPerUs :
                  /\ d * NsPerUs - e \in 1 - Resolution .. Resolution - 1
                  /\ Wrap(time_now(start + e) - time_now(start)) = d
                  /\ d <= UINT64_MAX /\ d * Mega <= UINT64_MAX
            BY Duration
          <5>3. d \in Nat \ {0}
            OBVIOUS
          <5>4. divisor = d * program.unit /\ divisor # 0
            BY <5>1, <5>2, <5>3, DivisorSound DEF IInv
          <5>5. Wrap(program.work * UsPerSec) = program.work * UsPerSec
            BY WrapKeeps DEF IInv, ProgramSound
          <5>6. /\ row'.done = program.work /\ row'.elapsed = e
                /\ row'.rate = (program.work * UsPerSec) \div (d * program.unit)
            BY <4>1, <5>4, <5>5, NothingLeftOut DEF IInv
          <5>. QED BY <2>2, <5>2, <5>6 DEF RatesTrue, Resolution
        <4>. QED BY <4>2, <4>3
      <3>. QED BY <2>4, <3>1, <3>2 DEF Emit
    <2>. QED BY <2>3, <2>5, <2>6 DEF IInv
  <1>2. CASE Overrun \/ UNCHANGED vars
    BY <1>2 DEF Overrun, vars, IInv, ProgramSound, BlocksDivide, RatesTrue, Resolution
  <1>. QED BY <1>1, <1>2 DEF Next, Terminated

(* RatesTrue for every clock, duration and size of the work: no rate is    *)
(* off by more than one unit of the clock, and no product overflows.       *)
THEOREM PrintedRatesTrue == Spec => []RatesTrue
  <1>1. Init => IInv
    BY InitIInv
  <1>2. IInv /\ [Next]_vars => IInv'
    BY NextIInv
  <1>3. IInv => RatesTrue
    BY DEF IInv
  <1>. QED BY <1>1, <1>2, <1>3, PTL DEF Spec

-----------------------------------------------------------------------------
(* The tables                                                              *)

(* A power of two above 1 is twice another one.                            *)
LEMMA Halves ==
  ASSUME NEW n \in Nat, n > 1, PowerOfTwo(n)
  PROVE  \E q \in 1 .. n - 1 : n = 2 * q /\ PowerOfTwo(q)
  <1>1. n % n = 0
    OBVIOUS
  <1>2. n % 2 = 0
    BY <1>1 DEF PowerOfTwo
  <1>3. PICK q \in 1 .. n - 1 : n = 2 * q
    BY <1>2, n \div 2 \in 1 .. n - 1, n = 2 * (n \div 2)
  <1>4. ASSUME NEW d \in 2 .. q, q % d = 0 PROVE d % 2 = 0
    <2>1. PICK k \in Nat : q = d * k
      BY <1>4, q \div d \in Nat, q = d * (q \div d)
    <2>2. n = d * (2 * k) + 0 /\ 2 * k \in Int /\ d \in Nat \ {0} /\ 0 \in 0 .. d - 1
      BY <1>3, <2>1
    <2>3. n % d = 0
      BY <2>2, Unique
    <2>4. d \in 2 .. n
      BY <1>3
    <2>. QED BY <2>3, <2>4 DEF PowerOfTwo
  <1>. QED BY <1>3, <1>4 DEF PowerOfTwo

(* A program has something to measure, and a largest size.                 *)
ProgramShape ==
  /\ Len(program.names) \in Nat \ {0}
  /\ program.last \in Nat \ {0}

(* The loops stand within the table, and at a size with no power of two    *)
(* between itself and its double.                                          *)
InTable ==
  /\ pc \in {"measure", "done", "trap"}
  /\ item \in 1 .. Len(program.names) /\ block \in 1 .. program.last
  /\ \A n \in block + 1 .. 2 * block - 1 : ~PowerOfTwo(n)
  /\ pc = "done" => item = Len(program.names) /\ 2 * block > program.last

(* Every row the loops are past is there.                                  *)
Printed ==
  \A i \in 1 .. Len(program.names) : \A size \in 1 .. program.last :
    PowerOfTwo(size) /\ (i < item \/ (i = item /\ (size < block \/ pc = "done"))) =>
      \E n \in 1 .. Len(printed) : printed[n] = <<program.names[i], size>>

(* What follows a row in the table.                                        *)
Follows(r, t) ==
  \/ t[1] = r[1] /\ t[2] > r[2]
  \/ \E i \in 1 .. Len(program.names) - 1 :
       r[1] = program.names[i] /\ t[1] = program.names[i + 1] /\ t[2] = 1

Names == {program.names[i] : i \in 1 .. Len(program.names)}

(* The rows follow each other, and the row yet to be printed the last one. *)
InOrder ==
  /\ printed \in Seq(Names \X (1 .. program.last))
  /\ \A n \in 1 .. Len(printed) - 1 : Follows(printed[n], printed[n + 1])
  /\ pc = "measure" /\ Len(printed) > 0 =>
       Follows(printed[Len(printed)], <<program.names[item], block>>)

TableInv ==
  /\ ProgramShape /\ InTable /\ Printed /\ InOrder
  /\ pc = "trap" => clock = "wall" \/ program.overruns

LEMMA InitTableInv == Init => TableInv
  <1> SUFFICES ASSUME Init PROVE TableInv
    OBVIOUS
  <1>1. /\ pc = "measure" /\ item = 1 /\ block = 1 /\ printed = << >>
        /\ LargestBlock \in Nat \ {0}
    BY CryptobenchAssumption DEF Init
  <1>2. ProgramShape
    <2>2. CASE program = cryptobench
      BY <1>1, <2>2 DEF cryptobench, ProgramShape
    <2>3. CASE program = cryptobench_aegis
      BY <1>1, <2>3 DEF cryptobench_aegis, ProgramShape
    <2>4. CASE program = cryptobench_ecdh
      BY <2>4 DEF cryptobench_ecdh, ProgramShape
    <2>5. \A x, y : Len(<<x, y>>) = 2
      OBVIOUS
    <2>6. CASE program = cryptobench_rsa
      <3>1. \E x, y : program.names = <<x, y>>
        BY <2>6, Zenon DEF cryptobench_rsa
      <3>2. program.last = 1
        BY <2>6, Zenon DEF cryptobench_rsa
      <3>. QED BY <2>5, <3>1, <3>2 DEF ProgramShape
    <2>7. CASE program = cryptobench_rsa_verification
      <3>1. \E x, y : program.names = <<x, y>>
        BY <2>7, Zenon DEF cryptobench_rsa_verification
      <3>2. program.last = 1
        BY <2>7, Zenon DEF cryptobench_rsa_verification
      <3>. QED BY <2>5, <3>1, <3>2 DEF ProgramShape
    <2>. QED BY <2>2, <2>3, <2>4, <2>6, <2>7 DEF Init
  <1>3. Len(program.names) \in Nat \ {0} /\ program.last \in Nat \ {0}
    BY <1>2 DEF ProgramShape
  <1>. QED BY <1>1, <1>2, <1>3 DEF TableInv, InTable, Printed, InOrder

(* A row is printed, and the loops go on.                                  *)
LEMMA EmitTable ==
  ASSUME TableInv, pc = "measure", NEW r, Emit(r), UNCHANGED <<program, clock>>
  PROVE  TableInv'
  <1> DEFINE L == Len(printed)
             N == Len(program.names)
             new == <<program.names[item], block>>
             last == program.last
  <1>1. /\ N \in Nat \ {0} /\ last \in Nat \ {0} /\ item \in 1 .. N /\ block \in 1 .. last
        /\ program.names[item] \in Names
    BY DEF TableInv, ProgramShape, InTable, Names
  <1>2. printed \in Seq(Names \X (1 .. last)) /\ L \in Nat
    BY DEF TableInv, InOrder
  <1>3. new \in Names \X (1 .. last) /\ new[1] = program.names[item] /\ new[2] = block
    BY <1>1
  <1>4. printed' = Append(printed, new)
    BY DEF Emit
  <1> HIDE DEF new
  <1>5. /\ printed' \in Seq(Names \X (1 .. last)) /\ Len(printed') = L + 1
        /\ printed'[L + 1] = new /\ \A n \in 1 .. L : printed'[n] = printed[n]
    BY <1>2, <1>3, <1>4
  <1>6. \A n \in 1 .. L : Follows(printed'[n], printed'[n + 1])
    <2> HIDE DEF L
    <2> TAKE n \in 1 .. L
    <2>1. CASE n < L
      <3>1. n \in 1 .. L - 1 /\ printed'[n] = printed[n] /\ printed'[n + 1] = printed[n + 1]
        BY <1>2, <1>5, <2>1
      <3>2. Follows(printed[n], printed[n + 1])
        BY <3>1 DEF TableInv, InOrder, L
      <3>. QED BY <3>1, <3>2
    <2>2. CASE n = L
      <3>1. L > 0 /\ printed'[n] = printed[L] /\ printed'[n + 1] = new
        BY <1>2, <1>5, <2>2
      <3>2. Follows(printed[L], new)
        BY <3>1 DEF TableInv, InOrder, L, new
      <3>. QED BY <3>1, <3>2
    <2>. QED BY <1>2, <2>1, <2>2
  <1>7. ASSUME NEW size \in 1 .. last, PowerOfTwo(size), size < 2 * block
        PROVE  size <= block
    BY <1>1, <1>7 DEF TableInv, InTable
  <1>8. ASSUME NEW i \in 1 .. N, NEW size \in 1 .. last, PowerOfTwo(size),
               i < item \/ (i = item /\ size <= block)
        PROVE  \E n \in 1 .. L + 1 : printed'[n] = <<program.names[i], size>>
    <2>1. CASE i = item /\ size = block
      <3>1. new = <<program.names[i], size>> /\ L + 1 \in 1 .. L + 1
        BY <1>2, <2>1 DEF new
      <3>. QED BY <1>5, <3>1
    <2>2. CASE ~(i = item /\ size = block)
      <3>1. i < item \/ (i = item /\ size < block)
        BY <1>1, <1>8, <2>2
      <3>2. PICK n \in 1 .. L : printed[n] = <<program.names[i], size>>
        BY <1>8, <3>1 DEF TableInv, Printed
      <3>3. n \in 1 .. L + 1 /\ printed'[n] = <<program.names[i], size>>
        BY <1>2, <1>5, <3>2
      <3>. QED BY <3>3
    <2>. QED BY <2>1, <2>2
  <1>9. program' = program /\ Names' = Names /\ Len(program.names)' = N /\ program'.last = last
    BY DEF Names
  <1> HIDE DEF L, N, last
  <1>10. CASE MoreBlocks(Double(block))
    <2>1. block' = 2 * block /\ item' = item /\ pc' = pc /\ 2 * block <= last
      BY <1>1, <1>10 DEF Emit, MoreBlocks, Double, last
    <2>2. \A n \in 2 * block + 1 .. 4 * block - 1 : ~PowerOfTwo(n)
      <3> SUFFICES ASSUME NEW n \in 2 * block + 1 .. 4 * block - 1, PowerOfTwo(n)
                   PROVE  FALSE
        OBVIOUS
      <3>1. n \in Nat /\ n > 1
        BY <1>1
      <3>2. PICK q \in 1 .. n - 1 : n = 2 * q /\ PowerOfTwo(q)
        BY <3>1, Halves
      <3>3. q \in block + 1 .. 2 * block - 1
        BY <1>1, <3>2
      <3>. QED BY <3>2, <3>3 DEF TableInv, InTable
    <2>3. InTable'
      BY <1>1, <1>9, <2>1, <2>2 DEF InTable, N, last
    <2>4. Printed'
      <3> SUFFICES ASSUME NEW i \in 1 .. N, NEW size \in 1 .. last, PowerOfTwo(size),
                          i < item' \/ (i = item' /\ size < block')
                   PROVE  \E n \in 1 .. L + 1 : printed'[n] = <<program.names[i], size>>
        BY <1>5, <1>9, <2>1 DEF Printed, N, last
      <3>1. i < item \/ (i = item /\ size < 2 * block)
        BY <1>1, <2>1
      <3>. QED BY <1>1, <1>7, <1>8, <3>1
    <2>5. InOrder'
      <3>1. Follows(new, <<program.names[item'], block'>>)
        BY <1>1, <1>3, <2>1 DEF Follows
      <3>. QED BY <1>2, <1>5, <1>6, <1>9, <3>1 DEF InOrder, Follows, last
    <2>. QED BY <2>1, <2>3, <2>4, <2>5 DEF TableInv, ProgramShape
  <1>11. CASE ~MoreBlocks(Double(block)) /\ item < N
    <2>1. /\ block' = 1 /\ item' = item + 1 /\ pc' = pc /\ last < 2 * block
      BY <1>1, <1>11 DEF Emit, MoreBlocks, Double, last, N
    <2>3. InTable'
      BY <1>1, <1>9, <1>11, <2>1 DEF InTable, N, last
    <2>4. Printed'
      <3> SUFFICES ASSUME NEW i \in 1 .. N, NEW size \in 1 .. last, PowerOfTwo(size),
                          i < item' \/ (i = item' /\ size < block')
                   PROVE  \E n \in 1 .. L + 1 : printed'[n] = <<program.names[i], size>>
        BY <1>5, <1>9, <2>1 DEF Printed, N, last
      <3>1. i < item \/ (i = item /\ size < 2 * block)
        BY <1>1, <2>1
      <3>. QED BY <1>1, <1>7, <1>8, <3>1
    <2>5. InOrder'
      <3>1. Follows(new, <<program.names[item'], block'>>)
        <4>1. item \in 1 .. Len(program.names) - 1
          BY <1>1, <1>11 DEF N
        <4>. QED BY <1>3, <2>1, <4>1 DEF Follows
      <3>. QED BY <1>2, <1>5, <1>6, <1>9, <3>1 DEF InOrder, Follows, last
    <2>. QED BY <2>1, <2>3, <2>4, <2>5 DEF TableInv, ProgramShape
  <1>12. CASE ~MoreBlocks(Double(block)) /\ ~(item < N)
    <2>1. block' = block /\ item' = item /\ pc' = "done" /\ last < 2 * block /\ item = N
      BY <1>1, <1>12 DEF Emit, MoreBlocks, Double, last, N
    <2>3. InTable'
      BY <1>1, <1>9, <2>1 DEF TableInv, InTable, N, last
    <2>4. Printed'
      <3> SUFFICES ASSUME NEW i \in 1 .. N, NEW size \in 1 .. last, PowerOfTwo(size)
                   PROVE  \E n \in 1 .. L + 1 : printed'[n] = <<program.names[i], size>>
        BY <1>5, <1>9 DEF Printed, N, last
      <3>1. size < 2 * block
        BY <1>1, <2>1
      <3>2. size <= block /\ (i < item \/ i = item)
        BY <1>1, <1>7, <2>1, <3>1
      <3>. QED BY <1>8, <3>2
    <2>5. InOrder'
      BY <1>2, <1>5, <1>6, <1>9, <2>1 DEF InOrder, Follows, last
    <2>. QED BY <2>1, <2>3, <2>4, <2>5 DEF TableInv, ProgramShape
  <1>. QED BY <1>10, <1>11, <1>12

LEMMA NextTableInv == IInv /\ TableInv /\ [Next]_vars => TableInv'
  <1> SUFFICES ASSUME IInv, TableInv, [Next]_vars PROVE TableInv'
    OBVIOUS
  <1>1. CASE Measure
    <2>1. PICK start \in Starts, e \in Elapsed, step \in IF clock = "wall" THEN Steps ELSE {0} :
            LET duration == Wrap(time_now(start + e + step) - time_now(start))
                divisor == Wrap(duration * program.unit)
                r(rate) == [rate |-> rate, done |-> Done, elapsed |-> e, stepped |-> step # 0]
            IN  /\ start + e + step >= 0
                /\ IF divisor # 0 THEN Emit(r(Wrap(program.work * UsPerSec) \div divisor))
                   ELSE \/ Emit(r(0))
                        \/ pc' = "trap" /\ UNCHANGED <<item, block, printed, row>>
      BY <1>1 DEF Measure
    <2> DEFINE divisor == Wrap(Wrap(time_now(start + e + step) - time_now(start)) * program.unit)
    <2>2. pc = "measure" /\ program' = program /\ clock' = clock
      BY <1>1 DEF Measure
    <2>3. CASE \E r : Emit(r)
      BY <2>2, <2>3, EmitTable
    <2>4. CASE divisor = 0 /\ pc' = "trap" /\ UNCHANGED <<item, block, printed, row>>
      <3>1. clock = "wall"
        <4> SUFFICES ASSUME clock # "wall" PROVE FALSE
          OBVIOUS
        <4>1. start \in Nat /\ e \in Nat /\ start + e + step = start + e
          BY CryptobenchAssumption
        <4>2. PICK d \in 1 .. (e + Resolution) \div NsPerUs :
                /\ Wrap(time_now(start + e) - time_now(start)) = d
                /\ d <= UINT64_MAX /\ d * Mega <= UINT64_MAX
          BY Duration
        <4>3. divisor # 0
          BY <4>1, <4>2, DivisorSound DEF IInv
        <4>. QED BY <2>4, <4>3
      <3>2. ProgramShape' /\ InTable'
        BY <2>2, <2>4 DEF TableInv, ProgramShape, InTable
      <3>3. Printed'
        BY <2>2, <2>4 DEF TableInv, Printed
      <3>4. InOrder'
        BY <2>2, <2>4 DEF TableInv, InOrder, Follows, Names
      <3>. QED BY <2>2, <3>1, <3>2, <3>3, <3>4 DEF TableInv
    <2>. QED BY <2>1, <2>3, <2>4
  <1>2. CASE Overrun
    <2> USE <1>2 DEF Overrun
    <2>1. ProgramShape' /\ InTable' /\ (pc' = "trap" => clock' = "wall" \/ program'.overruns)
      BY DEF TableInv, ProgramShape, InTable
    <2>2. Printed'
      BY DEF TableInv, Printed
    <2>3. InOrder'
      BY DEF TableInv, InOrder, Follows, Names
    <2>. QED BY <2>1, <2>2, <2>3 DEF TableInv
  <1>3. CASE UNCHANGED vars
    <2> USE <1>3 DEF vars
    <2>1. ProgramShape' /\ InTable' /\ (pc' = "trap" => clock' = "wall" \/ program'.overruns)
      BY DEF TableInv, ProgramShape, InTable
    <2>2. Printed'
      BY DEF TableInv, Printed
    <2>3. InOrder'
      BY DEF TableInv, InOrder, Follows, Names
    <2>. QED BY <2>1, <2>2, <2>3 DEF TableInv
  <1>. QED BY <1>1, <1>2, <1>3 DEF Next, Terminated

(* Whatever the largest block, each table is whole and in order, and       *)
(* nothing but a clock that was set, or the array the RSA programs leave,  *)
(* stops a program before its end.                                         *)
THEOREM TablesAreWhole == Spec => []TablesWhole
  <1>1. TableInv => TablesWhole
    <2> SUFFICES ASSUME TableInv PROVE TablesWhole
      OBVIOUS
    <2>1. ASSUME pc = "done", NEW i \in 1 .. Len(program.names), NEW size \in 1 .. program.last,
                 PowerOfTwo(size)
          PROVE  \E n \in 1 .. Len(printed) : printed[n] = <<program.names[i], size>>
      <3>1. i < item \/ i = item
        BY <2>1 DEF TableInv, ProgramShape, InTable
      <3>. QED BY <2>1, <3>1 DEF TableInv, Printed
    <2>2. \A n \in 1 .. Len(printed) - 1 : Follows(printed[n], printed[n + 1])
      BY DEF TableInv, InOrder
    <2>3. \A n \in 1 .. Len(printed) : printed[n][2] <= program.last
      <3>1. \A n \in 1 .. Len(printed) : printed[n] \in Names \X (1 .. program.last)
        BY DEF TableInv, InOrder
      <3>2. program.last \in Nat
        BY DEF TableInv, ProgramShape
      <3>. QED BY <3>1, <3>2
    <2>. QED BY <2>1, <2>2, <2>3 DEF TableInv, Follows, TablesWhole
  <1>. QED BY <1>1, InitIInv, NextIInv, InitTableInv, NextTableInv, PTL DEF Spec
==============================================================================
