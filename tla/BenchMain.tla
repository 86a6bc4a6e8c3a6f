------------------------------- MODULE BenchMain -------------------------------
(***************************************************************************)
(* main of the AEAD benchmark (src/main.c): the arguments, the checks, the *)
(* loops over algorithms, sizes and operations, and the exit status.  What *)
(* run_case does for one case is modules AeadCase and Runner; here it      *)
(* prints its samples or fails.                                            *)
(***************************************************************************)
EXTENDS Cli, SequencesExt

CONSTANTS
  Algorithms,    \* info->algorithms, a sequence
  INT_MAX        \* a size beyond it cannot be run

(* BenchMain and TlsMain give the constants of Cli different values, so    *)
(* this is a hypothesis of the theorems and not assumed here.              *)
BenchMainAssumption ==
  /\ CliAssumption
  /\ WordOptions = {"--algorithm", "--operation", "--format"}
  /\ NumberOptions = {"--size", "--aad-size", "--samples", "--sample-ms"}
  /\ Least["--size"] = 1
  /\ Algorithms \in Seq(STRING)
  /\ INT_MAX \in Nat

Operations == <<"seal", "open">>

VARIABLES
  a, o  \* the loops: algorithm_index and, within s, the operation

loops == <<a, s, o>>
vars == <<pc, argv, i, options, size_set, status, loops, ran>>

Init ==
  /\ CliInit
  /\ a = 1 /\ s = 1 /\ o = 1

-----------------------------------------------------------------------------
(* The checks between the arguments and the loops, and the loops           *)

Check ==
  /\ pc = "check"
  /\ IF /\ options["--operation"] \in {"all", "seal", "open"}
        /\ options["--format"] \in {"jsonl", "text"}
       THEN pc' = "matrix" /\ UNCHANGED status
       ELSE Exit(2)
  /\ UNCHANGED <<argv, i, options, size_set, loops, ran>>

algorithm_selected(algorithm) == options["--algorithm"] \in {"all", algorithm}
OperationSelected(operation) == options["--operation"] \in {"all", operation}

Case == [algorithm |-> Algorithms[a], size |-> Sizes[s], operation |-> Operations[o]]

(* The innermost loop that has another turn takes it.                      *)
Advance ==
  IF o < Len(Operations) THEN o' = o + 1 /\ UNCHANGED <<a, s>>
  ELSE IF s < Len(Sizes) THEN o' = 1 /\ s' = s + 1 /\ UNCHANGED a
  ELSE o' = 1 /\ s' = 1 /\ a' = a + 1

SkipAlgorithm ==
  /\ pc = "matrix" /\ a <= Len(Algorithms) /\ ~algorithm_selected(Algorithms[a])
  /\ a' = a + 1
  /\ UNCHANGED <<pc, argv, i, options, size_set, status, s, o, ran>>

SkipOperation ==
  /\ pc = "matrix" /\ a <= Len(Algorithms) /\ algorithm_selected(Algorithms[a])
  /\ ~OperationSelected(Operations[o])
  /\ Advance
  /\ UNCHANGED <<pc, argv, i, options, size_set, status, ran>>

Runs ==
  /\ pc = "matrix" /\ a <= Len(Algorithms) /\ algorithm_selected(Algorithms[a])
  /\ OperationSelected(Operations[o])

RunCase ==
  /\ Runs
  /\ Case.size <= INT_MAX /\ options["--aad-size"] <= INT_MAX
  /\ ran' = Append(ran, Case)
  /\ Advance
  /\ UNCHANGED <<pc, argv, i, options, size_set, status>>

(* Mutant: a case that fails does not end the program.                     *)
GoesOn == Advance /\ UNCHANGED <<pc, status>>

GivesUp == Exit(1) /\ UNCHANGED loops

CaseFails ==
  /\ Runs
  /\ GivesUp
  /\ UNCHANGED <<argv, i, options, size_set, ran>>

(* After the loops an algorithm that is none is reported.                  *)
Finish ==
  /\ pc = "matrix" /\ a > Len(Algorithms)
  /\ IF options["--algorithm"] = "all" \/ options["--algorithm"] \in ToSet(Algorithms)
       THEN Exit(0) ELSE Exit(2)
  /\ UNCHANGED <<argv, i, options, size_set, loops, ran>>

Terminated == pc = "exit" /\ UNCHANGED vars

Next ==
  \/ Parse /\ UNCHANGED <<loops, ran>>
  \/ Check \/ SkipAlgorithm \/ SkipOperation \/ RunCase \/ CaseFails \/ Finish
  \/ Terminated

Spec == Init /\ [][Next]_vars

-----------------------------------------------------------------------------
(* Properties                                                              *)

(* The cases selected, as indices, and in the order they are promised:     *)
(* by algorithm, then size, then operation.                                *)
Selected ==
  {c \in (1 .. Len(Algorithms)) \X (1 .. Len(Sizes)) \X (1 .. Len(Operations)) :
     /\ options["--algorithm"] \in {"all", Algorithms[c[1]]}
     /\ options["--operation"] \in {"all", Operations[c[3]]}}

Before(c, d) ==
  \/ c[1] < d[1]
  \/ c[1] = d[1] /\ c[2] < d[2]
  \/ c[1] = d[1] /\ c[2] = d[2] /\ c[3] < d[3]

CaseAt(n) ==
  CHOOSE c \in Selected : Cardinality({d \in Selected : Before(d, c)}) = n - 1

Matrix ==
  [n \in 1 .. Cardinality(Selected) |->
     [algorithm |-> Algorithms[CaseAt(n)[1]], size |-> Sizes[CaseAt(n)[2]],
      operation |-> Operations[CaseAt(n)[3]]]]

(* The exit status tells what stdout holds: after 0 the whole matrix that  *)
(* was selected, each case once and in order, and at least one if there is *)
(* an algorithm at all (nothing only for --help and --list); after 1 a     *)
(* proper prefix, which samples of the case that failed may follow; after  *)
(* 2 nothing.  So a name that is no algorithm, for which the loops of main *)
(* run through without a case, is never a success.                         *)
StatusHonest ==
  pc = "exit" =>
    CASE status = 0 -> \/ ran = Matrix /\ (ran # << >> \/ Algorithms = << >>)
                       \/ ran = << >> /\ i <= Len(argv)
      [] status = 1 -> IsStrictPrefix(ran, Matrix)
      [] status = 2 -> ran = << >>

(* No case is started with an empty message, of which the run_batch of the *)
(* backend would read a byte that nothing wrote, nor with a size nobody    *)
(* asked for: every case has the size typed last, or its default if none   *)
(* was typed.  The loops of main go by the flag size_set and do not look   *)
(* at the size, so the first rests on what the parsing refuses and the     *)
(* second on a flag that agrees with the arguments.                        *)
CasesSound ==
  Runs => /\ Case.size >= 1
          /\ Case.size = IF Pairs("--size") = {} THEN DefaultSizes[s]
                         ELSE options["--size"]
==============================================================================
