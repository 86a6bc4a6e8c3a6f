----------------------------- MODULE MCCryptobench -----------------------------
(* A millisecond of two microseconds of three nanoseconds each, a second   *)
(* of four microseconds, a mega of two and uint64_t of eleven bits: the    *)
(* readings of a measurement fall anywhere within the units of the clock.  *)
EXTENDS Cryptobench

MCStarts == 0 .. 12
MCElapsed == {6, 7, 11, 12, 17, 40}
MCSteps == {-40, -3, 0, 5}
==============================================================================
