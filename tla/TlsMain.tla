-------------------------------- MODULE TlsMain --------------------------------
(***************************************************************************)
(* main of the TLS benchmark (src/tls_main.c): the arguments, the check,   *)
(* the loop over ciphers with one handshake case and a transfer case per   *)
(* size, and the exit status.  What run_case does for one case is modules  *)
(* TlsCase and TlsRunner; here it prints its samples or fails.             *)
(***************************************************************************)
EXTENDS Cli, SequencesExt

CONSTANTS
  Ciphers  \* info->ciphers, a sequence

(* BenchMain and TlsMain give the constants of Cli different values, so    *)
(* this is a hypothesis of the theorems and not assumed here.              *)
TlsMainAssumption ==
  /\ CliAssumption
  /\ WordOptions = {"--benchmark", "--cipher", "--format", "--cert", "--key"}
  /\ NumberOptions = {"--size", "--samples", "--sample-ms"}
  /\ Ciphers \in Seq(STRING)

VARIABLES
  c,       \* the loop: cipher_index; within it s is 0 at the handshake
  matched  \* a cipher of the backend was selected

TlsLoops == <<c, s>>
TlsVars == <<pc, argv, i, options, size_set, status, TlsLoops, matched, ran>>

TlsInit ==
  /\ CliInit
  /\ c = 1 /\ s = 0
  /\ matched = FALSE

-----------------------------------------------------------------------------
(* The check between the arguments and the loops, and the loops            *)

TlsCheck ==
  /\ pc = "check"
  /\ IF /\ options["--benchmark"] \in {"all", "handshake", "transfer"}
        /\ options["--format"] \in {"jsonl", "text"}
       THEN pc' = "matrix" /\ UNCHANGED status
       ELSE Exit(2)
  /\ UNCHANGED <<argv, i, options, size_set, TlsLoops, matched, ran>>

(* Mutant: "all" is taken for a name.                                      *)
NamedOnly(cipher) == options["--cipher"] = cipher

CipherSelected(cipher) == options["--cipher"] \in {"all", cipher}

(* Whether the handshake (0) or a transfer (1 and up) is to be run.        *)
BenchmarkSelected(place) ==
  options["--benchmark"] \in {"all", IF place = 0 THEN "handshake" ELSE "transfer"}

CaseOf(place) ==
  [cipher |-> Ciphers[c],
   benchmark |-> IF place = 0 THEN "handshake" ELSE "transfer",
   size |-> IF place = 0 THEN 0 ELSE Sizes[place]]

(* Mutant: the next cipher starts at the last size.                        *)
SizeNotReset ==
  IF s < Len(Sizes) THEN s' = s + 1 /\ UNCHANGED c
  ELSE s' = s /\ c' = c + 1

(* The handshake, then every size, then the next cipher.                   *)
TlsAdvance ==
  IF s < Len(Sizes) THEN s' = s + 1 /\ UNCHANGED c
  ELSE s' = 0 /\ c' = c + 1

SkipCipher ==
  /\ pc = "matrix" /\ c <= Len(Ciphers) /\ ~CipherSelected(Ciphers[c])
  /\ c' = c + 1
  /\ UNCHANGED <<pc, argv, i, options, size_set, status, s, matched, ran>>

AtCase == pc = "matrix" /\ c <= Len(Ciphers) /\ CipherSelected(Ciphers[c])

SkipBenchmark ==
  /\ AtCase /\ ~BenchmarkSelected(s)
  /\ matched' = TRUE
  /\ TlsAdvance
  /\ UNCHANGED <<pc, argv, i, options, size_set, status, ran>>

TlsRuns == AtCase /\ BenchmarkSelected(s)

TlsRunCase ==
  /\ TlsRuns
  /\ matched' = TRUE
  /\ ran' = Append(ran, CaseOf(s))
  /\ TlsAdvance
  /\ UNCHANGED <<pc, argv, i, options, size_set, status>>

TlsCaseFails ==
  /\ TlsRuns
  /\ matched' = TRUE
  /\ Exit(1)
  /\ UNCHANGED <<argv, i, options, size_set, TlsLoops, ran>>

TlsFinish ==
  /\ pc = "matrix" /\ c > Len(Ciphers)
  /\ Exit(IF matched THEN 0 ELSE 2)
  /\ UNCHANGED <<argv, i, options, size_set, TlsLoops, matched, ran>>

TlsTerminated == pc = "exit" /\ UNCHANGED TlsVars

TlsNext ==
  \/ Parse /\ UNCHANGED <<TlsLoops, matched, ran>>
  \/ TlsCheck \/ SkipCipher \/ SkipBenchmark \/ TlsRunCase \/ TlsCaseFails \/ TlsFinish
  \/ TlsTerminated

TlsSpec == TlsInit /\ [][TlsNext]_TlsVars

-----------------------------------------------------------------------------
(* Properties                                                              *)

(* The cases selected, as indices, and in the order they are promised:     *)
(* by cipher, the handshake before the transfers, these by size.           *)
TlsSelected ==
  {p \in (1 .. Len(Ciphers)) \X (0 .. Len(Sizes)) :
     /\ options["--cipher"] \in {"all", Ciphers[p[1]]}
     /\ options["--benchmark"] \in {"all", IF p[2] = 0 THEN "handshake" ELSE "transfer"}}

TlsBefore(p, q) == p[1] < q[1] \/ (p[1] = q[1] /\ p[2] < q[2])

TlsCaseAt(n) ==
  CHOOSE p \in TlsSelected : Cardinality({q \in TlsSelected : TlsBefore(q, p)}) = n - 1

TlsMatrix ==
  [n \in 1 .. Cardinality(TlsSelected) |->
     LET cipher == Ciphers[TlsCaseAt(n)[1]]
         place == TlsCaseAt(n)[2]
     IN  IF place = 0 THEN [cipher |-> cipher, benchmark |-> "handshake", size |-> 0]
         ELSE [cipher |-> cipher, benchmark |-> "transfer", size |-> Sizes[place]]]

(* The exit status of main tells what stdout holds: after 0 every case     *)
(* that was selected, once and in order, and at least one (nothing only    *)
(* for --help and --list); after 1 a proper prefix, which samples of the   *)
(* case that failed may follow; after 2 nothing.                           *)
TlsStatusHonest ==
  pc = "exit" =>
    CASE status = 0 -> (ran = TlsMatrix /\ ran # << >>) \/ (ran = << >> /\ i <= Len(argv))
      [] status = 1 -> IsStrictPrefix(ran, TlsMatrix)
      [] status = 2 -> ran = << >>

(* A cipher that is one of the backend's is never reported as unsupported, *)
(* and one that is none always is: the flag matched, set only as a case is *)
(* reached, agrees with the list once the loops of main are over.          *)
MatchedExact ==
  pc = "matrix" /\ c > Len(Ciphers) =>
    (matched <=> \E n \in 1 .. Len(Ciphers) : options["--cipher"] \in {"all", Ciphers[n]})
==============================================================================
