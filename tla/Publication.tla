------------------------------ MODULE Publication ------------------------------
(***************************************************************************)
(* What the benchmark workflow promises its readers: the comparison either *)
(* appears with the median of every experiment of the matrix, or does not  *)
(* appear at all, and what has appeared stays as it is.                    *)
(***************************************************************************)
EXTENDS Integers, FiniteSets

CONSTANTS
  Experiments   \* a key measured with one backend on one architecture

VARIABLES
  outcome,      \* "open", "published" or "abandoned"
  measured,     \* the samples of every experiment
  medians       \* what readers see, as a function of experiments; doubled

vars == <<outcome, measured, medians>>

(* m is twice a median of the samples s: no more than half of them lie on  *)
(* either side of it.                                                      *)
IsMedian2(m, s) ==
  /\ 2 * Cardinality({i \in DOMAIN s : 2 * s[i] < m}) <= Cardinality(DOMAIN s)
  /\ 2 * Cardinality({i \in DOMAIN s : 2 * s[i] > m}) <= Cardinality(DOMAIN s)

Init == outcome = "open" /\ DOMAIN measured = Experiments /\ medians = << >>

Publish ==
  /\ outcome = "open" /\ outcome' = "published"
  /\ DOMAIN medians' = Experiments
  /\ \A e \in Experiments : IsMedian2(medians'[e], measured[e])
  /\ UNCHANGED measured

Abandon ==
  /\ outcome = "open" /\ outcome' = "abandoned"
  /\ UNCHANGED <<measured, medians>>

Next == Publish \/ Abandon

Spec == Init /\ [][Next]_vars
==============================================================================
