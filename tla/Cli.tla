---------------------------------- MODULE Cli ----------------------------------
(***************************************************************************)
(* The loop over argv that begins the main of src/main.c and of            *)
(* src/tls_main.c, and parse_u64.  The two programs differ in their        *)
(* options and in the bounds of the numbers they take, which are constants *)
(* here; modules BenchMain and TlsMain add what main does afterwards.      *)
(***************************************************************************)
EXTENDS Integers, Sequences, FiniteSets

CONSTANTS
  UINT64_MAX,     \* the largest value of uint64_t, and of size_t
  Numeral,        \* the integer each numeral spells, a function on words
  ArgLists,       \* the argument lists, sequences of words
  WordOptions,    \* options whose value is taken as it is
  NumberOptions,  \* options whose value is a number
  Least,          \* the least number each of them takes
  Largest,        \* the largest one
  Unit,           \* what its value is multiplied by
  Values,         \* how many values the field has that it is stored in
  Defaults,       \* the value of each option that is not given
  DefaultSizes    \* default_sizes, a sequence

(* The largest number accepted fits the field it is stored in: main        *)
(* compares with UINT_MAX and SIZE_MAX, and a time with                    *)
(* UINT64_MAX / 1000000.                                                   *)
CliAssumption ==
  /\ UINT64_MAX \in Nat
  /\ Numeral \in [DOMAIN Numeral -> Int]
  /\ ArgLists \subseteq Seq(STRING)
  /\ WordOptions \cap NumberOptions = {}
  /\ DOMAIN Defaults = WordOptions \cup NumberOptions
  /\ \A o \in NumberOptions :
       /\ Least[o] \in {0, 1} /\ Largest[o] \in Nat /\ Unit[o] \in Nat \ {0}
       /\ Values[o] \in 1 .. UINT64_MAX + 1
       /\ Largest[o] <= (Values[o] - 1) \div Unit[o]
       /\ Defaults[o] \in 0 .. UINT64_MAX
  /\ "--size" \in NumberOptions
  /\ DefaultSizes \in Seq(Nat \ {0}) /\ DefaultSizes # << >>

VARIABLES
  pc,       \* "parse", then what main does next, "exit" at the end
  argv,     \* the arguments, the program's name left out
  i,        \* the argument the loop stands at
  options,  \* struct options: the value of each option
  size_set, \* its flag: a size was given
  status,   \* the exit status, -1 before there is one
  s,        \* size_index, in the loops of main over the cases
  ran       \* the cases all of whose samples were printed

CliInit ==
  /\ pc = "parse" /\ argv \in ArgLists /\ i = 1
  /\ options = Defaults /\ size_set = FALSE
  /\ status = -1
  /\ ran = << >>

Exit(code) == pc' = "exit" /\ status' = code

-----------------------------------------------------------------------------
(* parse_u64: what strtoull accepts whole and in range.  A minus sign      *)
(* negates the value, modulo the range of the type.                        *)
Parses(word) ==
  word \in DOMAIN Numeral /\ Numeral[word] \in -UINT64_MAX .. UINT64_MAX

parse_u64(word) == Numeral[word] % (UINT64_MAX + 1)

(* Mutant: the upper bound is dropped.                                     *)
NoUpperBound(option, word) ==
  Parses(word) /\ parse_u64(word) >= Least[option]

(* The number is one the option takes.                                     *)
Accepts(option, word) ==
  Parses(word) /\ parse_u64(word) \in Least[option] .. Largest[option]

-----------------------------------------------------------------------------
(* One turn of the loop                                                    *)

(* --help and --list print and end the program at once.                    *)
Stop ==
  /\ pc = "parse" /\ i <= Len(argv)
  /\ argv[i] \in {"--help", "--list"}
  /\ Exit(0)
  /\ UNCHANGED <<argv, i, options, size_set>>

(* Anything else needs a value, even what is no option.                    *)
Valued ==
  pc = "parse" /\ i < Len(argv) /\ argv[i] \notin {"--help", "--list"}

Missing ==
  /\ pc = "parse" /\ i = Len(argv)
  /\ argv[i] \notin {"--help", "--list"}
  /\ Exit(2)
  /\ UNCHANGED <<argv, i, options, size_set>>

(* Mutant: the first of several values counts.                             *)
FirstWins(option, value) ==
  IF options[option] = Defaults[option]
  THEN [options EXCEPT ![option] = value] ELSE options

Set(option, value) == [options EXCEPT ![option] = value]

SetWord ==
  /\ Valued /\ argv[i] \in WordOptions
  /\ options' = Set(argv[i], argv[i + 1])
  /\ i' = i + 2
  /\ UNCHANGED <<pc, argv, size_set, status>>

(* Mutant: the flag is set for every number.                               *)
AnyNumber(option) == option \in NumberOptions

GivesSize(option) == option = "--size"

SetNumber ==
  /\ Valued /\ argv[i] \in NumberOptions
  /\ Accepts(argv[i], argv[i + 1])
  /\ options' = Set(argv[i], (parse_u64(argv[i + 1]) * Unit[argv[i]]) % Values[argv[i]])
  /\ size_set' = (size_set \/ GivesSize(argv[i]))
  /\ i' = i + 2
  /\ UNCHANGED <<pc, argv, status>>

Invalid ==
  /\ Valued
  /\ \/ argv[i] \in NumberOptions /\ ~Accepts(argv[i], argv[i + 1])
     \/ argv[i] \notin WordOptions \cup NumberOptions
  /\ Exit(2)
  /\ UNCHANGED <<argv, i, options, size_set>>

(* The arguments are used up.                                              *)
Parsed ==
  /\ pc = "parse" /\ i > Len(argv)
  /\ pc' = "check"
  /\ UNCHANGED <<argv, i, options, size_set, status>>

Parse == Stop \/ Missing \/ SetWord \/ SetNumber \/ Invalid \/ Parsed

(* A size that was given replaces the defaults, whatever it is.            *)
Sizes == IF size_set THEN <<options["--size"]>> ELSE DefaultSizes

-----------------------------------------------------------------------------
(* What the options stand for once they are parsed                         *)

Options == WordOptions \cup NumberOptions

(* The arguments are pairs of an option and its value.                     *)
Pairs(option) == {p \in 1 .. Len(argv) : p % 2 = 1 /\ argv[p] = option}

(* For every option the last value given counts, the default if there is   *)
(* none, and a number is what its numeral spells, unless a minus sign      *)
(* wraps it round, times its unit; nothing is cut off by the field it is   *)
(* stored in, and no option is taken for a value or a value for an option. *)
OptionsExact ==
  pc \notin {"parse", "exit"} =>
    \A o \in Options :
      IF Pairs(o) = {} THEN options[o] = Defaults[o]
      ELSE LET last == CHOOSE p \in Pairs(o) : \A q \in Pairs(o) : q <= p
               word == argv[last + 1]
           IN  IF o \in WordOptions THEN options[o] = word
               ELSE /\ options[o] \in Least[o] .. UINT64_MAX
                    /\ options[o] = Unit[o] *
                         IF Numeral[word] >= 0 THEN Numeral[word]
                         ELSE Numeral[word] + UINT64_MAX + 1
==============================================================================
