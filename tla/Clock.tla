--------------------------------- MODULE Clock ---------------------------------
(***************************************************************************)
(* How the programs turn the readings of the system's clocks into integers *)
(* of one unit: ofb_now_ns (src/timer.c) and the time_now of the           *)
(* single-file benchmarks.  A time is a number of nanoseconds since the    *)
(* clock's zero; the factors are parameters.                               *)
(***************************************************************************)
EXTENDS Integers

CONSTANTS
  NsPerUs,    \* 1000
  UsPerMs,    \* 1000
  UsPerSec    \* 1000000

ASSUME ClockAssumption ==
  /\ NsPerUs \in Nat \ {0} /\ UsPerMs \in Nat \ {0} /\ UsPerSec \in Nat \ {0}

NsPerSec == NsPerUs * UsPerSec

(* The struct timespec, or timeval, of a time.                             *)
tv_sec(t) == t \div NsPerSec
tv_nsec(t) == t % NsPerSec

(* clock_gettime and gettimeofday read in microseconds.                    *)
MicrosecondsOfSpec(t) == tv_sec(t) * UsPerSec + (tv_nsec(t) \div NsPerUs)

(* GetTickCount64 counts whole milliseconds.                               *)
MicrosecondsOfTicks(t) == (t \div (NsPerUs * UsPerMs)) * UsPerMs

(* ofb_now_ns where there is clock_gettime, and where there is a counter   *)
(* of frequency counts per second, split so that the product with          *)
(* NsPerSec stays small.                                                   *)
NanosecondsOfSpec(t) == tv_sec(t) * NsPerSec + tv_nsec(t)

NanosecondsOfCounter(counter, frequency) ==
  (counter \div frequency) * NsPerSec + (((counter % frequency) * NsPerSec) \div frequency)
==============================================================================
