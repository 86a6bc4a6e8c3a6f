------------------------------ MODULE MainProofs ------------------------------
(***************************************************************************)
(* Proofs about Cli, BenchMain and TlsMain: the two programs, for every    *)
(* list of arguments, every width of their integers, and any algorithms,   *)
(* ciphers and sizes.                                                      *)
(***************************************************************************)
EXTENDS BenchMain, TlsMain, FiniteSetTheorems, TLAPS

-----------------------------------------------------------------------------
(* The loop over argv, which both programs have                            *)

(* Where, before the argument the loop stands at, an option was given.     *)
Given(option) == {p \in 1 .. Len(argv) : p % 2 = 1 /\ p < i /\ argv[p] = option}

Stored(option, word) ==
  IF option \in WordOptions THEN word
  ELSE (parse_u64(word) * Unit[option]) % Values[option]

(* An option holds what it was given last, a number one that it takes.     *)
HoldsLast(option) ==
  \/ Given(option) = {} /\ options[option] = Defaults[option]
  \/ \E p \in Given(option) :
       /\ \A q \in Given(option) : q <= p
       /\ options[option] = Stored(option, argv[p + 1])
       /\ option \in NumberOptions => Accepts(option, argv[p + 1])

(* The loop stands at an option, never at a value, and the flag tells      *)
(* whether a size was given.                                               *)
ParseInv ==
  /\ argv \in ArgLists
  /\ i \in 1 .. Len(argv) + 1 /\ i % 2 = 1
  /\ DOMAIN options = Options
  /\ \A option \in Options : HoldsLast(option)
  /\ size_set \in BOOLEAN /\ (size_set <=> Given("--size") # {})
  /\ pc \notin {"parse", "exit"} => i > Len(argv)

LEMMA Odd ==
  \A n \in Nat : n % 2 = 1 =>
    (n + 2) % 2 = 1 /\ \A q \in Nat : q % 2 = 1 /\ q < n + 2 => q < n \/ q = n
  OBVIOUS

LEMMA Arguments ==
  ASSUME CliAssumption, argv \in ArgLists
  PROVE  argv \in Seq(STRING) /\ Len(argv) \in Nat
  BY DEF CliAssumption

LEMMA SizesGiven ==
  ASSUME CliAssumption
  PROVE  /\ Len(DefaultSizes) \in Nat \ {0} /\ Len(Sizes) \in Nat \ {0}
         /\ \A n \in 1 .. Len(DefaultSizes) : DefaultSizes[n] \in Nat \ {0}
  <1>1. DefaultSizes \in Seq(Nat \ {0}) /\ DefaultSizes # << >>
    BY DEF CliAssumption
  <1>2. /\ Len(DefaultSizes) \in Nat \ {0}
        /\ \A n \in 1 .. Len(DefaultSizes) : DefaultSizes[n] \in Nat \ {0}
    BY <1>1
  <1>. QED BY <1>2 DEF Sizes

LEMMA ParseInit ==
  ASSUME CliAssumption, CliInit
  PROVE  ParseInv
  <1>1. argv \in ArgLists /\ i = 1 /\ options = Defaults /\ pc = "parse"
    BY DEF CliInit
  <1>2. Len(argv) \in Nat
    BY <1>1, Arguments
  <1>3. \A option \in Options : Given(option) = {}
    BY <1>1, <1>2 DEF Given
  <1>4. DOMAIN options = Options
    BY <1>1 DEF CliAssumption, Options
  <1>5. i \in 1 .. Len(argv) + 1 /\ i % 2 = 1
    BY <1>1, <1>2
  <1>6. size_set = FALSE /\ Given("--size") = {}
    BY <1>1, <1>2 DEF Given, CliInit
  <1>. QED BY <1>1, <1>3, <1>4, <1>5, <1>6 DEF ParseInv, HoldsLast

(* A value is stored in the option before it, and i steps over the pair.   *)
LEMMA PairKept ==
  ASSUME CliAssumption, ParseInv, Valued, argv[i] \in Options,
         options' = Set(argv[i], Stored(argv[i], argv[i + 1])),
         argv[i] \in NumberOptions => Accepts(argv[i], argv[i + 1]),
         size_set' = (size_set \/ argv[i] = "--size"),
         i' = i + 2, argv' = argv, pc' = pc
  PROVE  ParseInv'
  <1>1. /\ i \in Nat /\ i % 2 = 1 /\ Len(argv) \in Nat /\ i < Len(argv)
        /\ pc = "parse" /\ i >= 1
    BY Arguments DEF ParseInv, Valued
  <1>2. i' \in 1 .. Len(argv) + 1 /\ i' % 2 = 1
    BY <1>1, Odd
  <1>3. /\ DOMAIN options' = Options
        /\ options'[argv[i]] = Stored(argv[i], argv[i + 1])
        /\ \A option \in Options : option # argv[i] => options'[option] = options[option]
    BY DEF Set, ParseInv
  <1>4. ASSUME NEW option \in Options
        PROVE  HoldsLast(option)'
    <2>1. /\ Given(option)' = Given(option) \cup IF option = argv[i] THEN {i} ELSE {}
          /\ \A q \in Given(option) : q \in Nat /\ q <= i
      BY <1>1, Odd DEF Given
    <2>2. CASE option = argv[i]
      <3>1. i \in Given(option)' /\ \A q \in Given(option)' : q <= i
        BY <1>1, <2>1, <2>2
      <3>2. options'[option] = Stored(option, argv'[i + 1])
        BY <1>3, <2>2
      <3>. QED BY <2>2, <3>1, <3>2 DEF HoldsLast, Accepts, Parses, parse_u64, Stored
    <2>3. CASE option # argv[i]
      <3>1. Given(option)' = Given(option) /\ options'[option] = options[option]
        BY <1>3, <2>1, <2>3
      <3>2. HoldsLast(option)
        BY DEF ParseInv
      <3>. QED BY <3>1, <3>2 DEF HoldsLast, Accepts, Parses, parse_u64, Stored
    <2>. QED BY <2>2, <2>3
  <1>5. size_set' \in BOOLEAN /\ (size_set' <=> Given("--size")' # {})
    <2>1. Given("--size")' = Given("--size") \cup IF argv[i] = "--size" THEN {i} ELSE {}
      BY <1>1, Odd DEF Given
    <2>. QED BY <2>1 DEF ParseInv
  <1>. QED BY <1>1, <1>2, <1>3, <1>4, <1>5 DEF ParseInv, Options

(* What leaves the arguments and the options alone.                        *)
LEMMA ParsedKept ==
  ASSUME ParseInv, UNCHANGED <<argv, i, options, size_set>>,
         pc' \notin {"parse", "exit"} => i > Len(argv)
  PROVE  ParseInv'
  <1>1. \A option \in Options : HoldsLast(option)'
    BY DEF ParseInv, HoldsLast, Given, Accepts, Parses, parse_u64, Stored
  <1>2. size_set' \in BOOLEAN /\ (size_set' <=> Given("--size")' # {})
    BY DEF ParseInv, Given
  <1>. QED BY <1>1, <1>2 DEF ParseInv, Options

LEMMA ParseKept ==
  ASSUME CliAssumption, ParseInv, Parse
  PROVE  ParseInv'
  <1>1. CASE SetWord
    <2>1. size_set' = (size_set \/ argv[i] = "--size")
      BY <1>1 DEF SetWord, CliAssumption, ParseInv
    <2>. QED BY <1>1, <2>1, PairKept DEF SetWord, Stored, Options, CliAssumption
  <1>2. CASE SetNumber
    <2>1. argv[i] \notin WordOptions
      BY <1>2 DEF SetNumber, CliAssumption
    <2>. QED BY <1>2, <2>1, PairKept DEF SetNumber, GivesSize, Stored, Options
  <1>3. CASE Stop \/ Missing \/ Invalid \/ Parsed
    BY <1>3, ParsedKept DEF Stop, Missing, Invalid, Parsed, Exit
  <1>. QED BY <1>1, <1>2, <1>3 DEF Parse

(* Nothing accepted is cut off: at most (Values - 1) \div Unit times Unit. *)
LEMMA NothingCutOff ==
  \A n, unit, values \in Nat :
    unit # 0 /\ values # 0 /\ n <= (values - 1) \div unit =>
      n * unit \in n .. values - 1 /\ (n * unit) % values = n * unit
  <1> TAKE n, unit, values \in Nat
  <1> HAVE unit # 0 /\ values # 0 /\ n <= (values - 1) \div unit
  <1> DEFINE most == (values - 1) \div unit
  <1>1. most \in Nat /\ most * unit <= values - 1
    OBVIOUS
  <1>2. n <= most
    OBVIOUS
  <1> HIDE DEF most
  <1>3. n * unit <= most * unit
    BY <1>1, <1>2
  <1>4. n * unit \in Nat /\ n * unit >= n
    OBVIOUS
  <1>5. n * unit \in 0 .. values - 1
    BY <1>1, <1>3, <1>4
  <1>6. \A x \in Nat : x < values => x % values = x
    OBVIOUS
  <1>. QED BY <1>4, <1>5, <1>6

(* A negative number wraps round once.                                     *)
LEMMA WrapsOnce ==
  \A n \in Int, max \in Nat :
    n \in -max .. max => n % (max + 1) = IF n >= 0 THEN n ELSE n + max + 1
  OBVIOUS

LEMMA StoredExact ==
  ASSUME CliAssumption, NEW option \in NumberOptions, NEW word,
         Accepts(option, word)
  PROVE  /\ Stored(option, word) \in Least[option] .. UINT64_MAX
         /\ Stored(option, word) = Unit[option] *
              IF Numeral[word] >= 0 THEN Numeral[word] ELSE Numeral[word] + UINT64_MAX + 1
  <1> DEFINE n == parse_u64(word)
  <1>1. /\ UINT64_MAX \in Nat /\ Numeral[word] \in Int
        /\ Numeral[word] \in -UINT64_MAX .. UINT64_MAX
    BY DEF CliAssumption, Accepts, Parses
  <1>2. n = IF Numeral[word] >= 0 THEN Numeral[word] ELSE Numeral[word] + UINT64_MAX + 1
    BY <1>1, WrapsOnce DEF parse_u64
  <1>3. /\ Least[option] \in Nat /\ Largest[option] \in Nat
        /\ Unit[option] \in Nat /\ Unit[option] # 0
        /\ Values[option] \in Nat /\ Values[option] # 0 /\ Values[option] <= UINT64_MAX + 1
        /\ Largest[option] <= (Values[option] - 1) \div Unit[option]
    <2>1. /\ Least[option] \in {0, 1} /\ Largest[option] \in Nat
          /\ Unit[option] \in Nat \ {0} /\ Values[option] \in 1 .. UINT64_MAX + 1
          /\ Largest[option] <= (Values[option] - 1) \div Unit[option]
      BY DEF CliAssumption
    <2>. QED BY <1>1, <2>1
  <1>4. n \in Nat /\ n >= Least[option] /\ n <= Largest[option]
    BY <1>1, <1>2, <1>3 DEF Accepts
  <1>5. Stored(option, word) = (n * Unit[option]) % Values[option]
    BY DEF Stored, CliAssumption
  <1> HIDE DEF n
  <1>6. (Values[option] - 1) \div Unit[option] \in Int
    BY <1>3
  <1>7. n <= (Values[option] - 1) \div Unit[option]
    BY <1>3, <1>4, <1>6
  <1>8. /\ n * Unit[option] \in n .. Values[option] - 1
        /\ Stored(option, word) = n * Unit[option]
    BY <1>3, <1>4, <1>5, <1>7, NothingCutOff
  <1>9. n * Unit[option] = Unit[option] * n
    BY <1>3, <1>4
  <1>. QED BY <1>1, <1>2, <1>3, <1>4, <1>8, <1>9

LEMMA NumberTaken ==
  ASSUME CliAssumption, ParseInv, NEW option \in NumberOptions
  PROVE  /\ options[option] = Defaults[option] \/ options[option] \in Least[option] .. UINT64_MAX
         /\ options[option] \in 0 .. UINT64_MAX
  <1>1. HoldsLast(option) /\ Least[option] \in Nat /\ UINT64_MAX \in Nat
        /\ Defaults[option] \in 0 .. UINT64_MAX
    <2>1. HoldsLast(option)
      BY DEF ParseInv, Options
    <2>2. /\ Least[option] \in {0, 1} /\ UINT64_MAX \in Nat
          /\ Defaults[option] \in 0 .. UINT64_MAX
      BY DEF CliAssumption
    <2>. QED BY <2>1, <2>2
  <1>2. CASE options[option] = Defaults[option]
    BY <1>1, <1>2
  <1>3. CASE options[option] # Defaults[option]
    <2>1. PICK p \in Given(option) :
            /\ options[option] = Stored(option, argv[p + 1])
            /\ Accepts(option, argv[p + 1])
      BY <1>1, <1>3 DEF HoldsLast
    <2>2. options[option] \in Least[option] .. UINT64_MAX
      BY <2>1, StoredExact
    <2>. QED BY <1>1, <2>2
  <1>. QED BY <1>2, <1>3

LEMMA ParseExact ==
  ASSUME CliAssumption, ParseInv
  PROVE  OptionsExact
  <1> SUFFICES ASSUME pc \notin {"parse", "exit"}, NEW option \in Options,
                      Pairs(option) # {}
               PROVE  LET last == CHOOSE p \in Pairs(option) :
                                    \A q \in Pairs(option) : q <= p
                          word == argv[last + 1]
                      IN  IF option \in WordOptions THEN options[option] = word
                          ELSE /\ options[option] \in Least[option] .. UINT64_MAX
                               /\ options[option] = Unit[option] *
                                    IF Numeral[word] >= 0 THEN Numeral[word]
                                    ELSE Numeral[word] + UINT64_MAX + 1
    <2>1. ASSUME pc \notin {"parse", "exit"}, NEW option \in Options, Pairs(option) = {}
          PROVE  options[option] = Defaults[option]
      BY <2>1 DEF ParseInv, HoldsLast, Pairs, Given
    <2>. QED BY <2>1 DEF OptionsExact
  <1>1. Given(option) = Pairs(option) /\ \A p \in Pairs(option) : p \in Nat
    BY Arguments DEF ParseInv, Given, Pairs
  <1>2. PICK p \in Pairs(option) :
          /\ \A q \in Pairs(option) : q <= p
          /\ options[option] = Stored(option, argv[p + 1])
          /\ option \in NumberOptions => Accepts(option, argv[p + 1])
    BY <1>1 DEF ParseInv, HoldsLast
  <1> DEFINE last == CHOOSE q \in Pairs(option) : \A r \in Pairs(option) : r <= q
  <1>3. last \in Pairs(option) /\ \A q \in Pairs(option) : q <= last
    BY <1>2
  <1>4. last = p
    BY <1>1, <1>2, <1>3
  <1> HIDE DEF last
  <1>5. CASE option \in WordOptions
    BY <1>2, <1>4, <1>5 DEF Stored, last
  <1>6. CASE option \notin WordOptions
    <2>1. option \in NumberOptions
      BY <1>6 DEF Options
    <2>. QED BY <1>2, <1>4, <1>6, <2>1, StoredExact DEF last
  <1>. QED BY <1>5, <1>6

-----------------------------------------------------------------------------
(* Elements of a finite, strictly ordered set are told apart by how many   *)
(* others come before them, which is how Matrix numbers the cases.         *)

StrictOrder(S, R) ==
  /\ \A x \in S : <<x, x>> \notin R
  /\ \A x, y, z \in S : <<x, y>> \in R /\ <<y, z>> \in R => <<x, z>> \in R
  /\ \A x, y \in S : x = y \/ <<x, y>> \in R \/ <<y, x>> \in R

Rank(S, R, x) == Cardinality({y \in S : <<y, x>> \in R})

LEMMA RankType ==
  ASSUME NEW S, IsFiniteSet(S), NEW R, StrictOrder(S, R), NEW x \in S
  PROVE  Rank(S, R, x) \in Nat /\ Rank(S, R, x) + 1 <= Cardinality(S)
  <1> DEFINE T == {y \in S : <<y, x>> \in R}
  <1>1. IsFiniteSet(T) /\ Cardinality(T) \in Nat
    BY FS_Subset, FS_CardinalityType
  <1>2. x \notin T
    BY DEF StrictOrder
  <1>3. Cardinality(T \cup {x}) = Cardinality(T) + 1
    BY <1>1, <1>2, FS_AddElement
  <1>4. T \cup {x} \in SUBSET S
    OBVIOUS
  <1> HIDE DEF T
  <1>5. Cardinality(T \cup {x}) <= Cardinality(S)
    BY <1>4, FS_Subset
  <1>. QED BY <1>1, <1>3, <1>5 DEF Rank, T

LEMMA RankGrows ==
  ASSUME NEW S, IsFiniteSet(S), NEW R, StrictOrder(S, R),
         NEW x \in S, NEW y \in S, <<x, y>> \in R
  PROVE  Rank(S, R, x) < Rank(S, R, y)
  <1> DEFINE T == {z \in S : <<z, x>> \in R}
             U == {z \in S : <<z, y>> \in R}
  <1>1. IsFiniteSet(T) /\ Cardinality(T) \in Nat
    BY FS_Subset, FS_CardinalityType
  <1>2. IsFiniteSet(U) /\ Cardinality(U) \in Nat
    BY FS_Subset, FS_CardinalityType
  <1>3. x \notin T /\ T \cup {x} \in SUBSET U
    BY DEF StrictOrder
  <1> HIDE DEF T, U
  <1>4. Cardinality(T \cup {x}) = Cardinality(T) + 1
    BY <1>1, <1>3, FS_AddElement
  <1>5. Cardinality(T \cup {x}) <= Cardinality(U)
    BY <1>2, <1>3, FS_Subset
  <1>. QED BY <1>1, <1>2, <1>4, <1>5 DEF Rank, T, U

LEMMA RankUnique ==
  ASSUME NEW S, IsFiniteSet(S), NEW R, StrictOrder(S, R),
         NEW x \in S, NEW y \in S, Rank(S, R, x) = Rank(S, R, y)
  PROVE  x = y
  <1>1. Rank(S, R, x) \in Nat /\ Rank(S, R, y) \in Nat
    BY RankType
  <1>2. CASE <<x, y>> \in R
    BY <1>1, <1>2, RankGrows
  <1>3. CASE <<y, x>> \in R
    BY <1>1, <1>3, RankGrows
  <1>. QED BY <1>2, <1>3 DEF StrictOrder

(* A prefix grows by one element.                                          *)
LEMMA Appended ==
  ASSUME NEW n \in Nat, NEW M, NEW r, NEW x,
         r = [k \in 1 .. n |-> M[k]], x = M[n + 1]
  PROVE  Append(r, x) = [k \in 1 .. n + 1 |-> M[k]]
  <1>1. r \in Seq({M[k] : k \in 1 .. n}) /\ Len(r) = n
    OBVIOUS
  <1>2. DOMAIN Append(r, x) = 1 .. n + 1
    BY <1>1
  <1>3. \A k \in 1 .. n + 1 : Append(r, x)[k] = M[k]
    BY <1>1
  <1>4. Append(r, x) \in Seq({M[k] : k \in 1 .. n} \cup {x})
    BY <1>1
  <1>. QED BY <1>2, <1>3, <1>4

LEMMA ProperPrefix ==
  ASSUME NEW m \in Nat, NEW n \in Nat, n < m, NEW M, M = [k \in 1 .. m |-> M[k]],
         NEW r, r = [k \in 1 .. n |-> M[k]]
  PROVE  IsStrictPrefix(r, M)
  <1>1. M \in Seq({M[k] : k \in 1 .. m}) /\ Len(M) = m
    OBVIOUS
  <1>2. r \in Seq({M[k] : k \in 1 .. m}) /\ Len(r) = n
    OBVIOUS
  <1>3. SubSeq(r, 1, n) = r
    BY <1>2
  <1>4. SubSeq(M, 1, n) = r
    BY <1>1
  <1>5. r # M
    BY <1>1, <1>2
  <1>. QED BY <1>1, <1>2, <1>3, <1>4, <1>5 DEF IsStrictPrefix, IsPrefix

-----------------------------------------------------------------------------
(* BenchMain: the cases come in the order of Before                        *)

LEMMA AeadOrdered ==
  ASSUME NEW A \in Nat, NEW L \in Nat,
         NEW S \in SUBSET ((1 .. A) \X (1 .. L) \X (1 .. 2))
  PROVE  /\ IsFiniteSet(S)
         /\ StrictOrder(S, {p \in S \X S : Before(p[1], p[2])})
  <1>1. IsFiniteSet(S)
    <2> DEFINE B == (1 .. A) \X ((1 .. L) \X (1 .. 2))
               f == [t \in S |-> <<t[1], <<t[2], t[3]>>>>]
    <2>1. IsFiniteSet(B)
      <3>1. \A n \in Nat : IsFiniteSet(1 .. n)
        BY FS_Interval
      <3>2. IsFiniteSet((1 .. L) \X (1 .. 2))
        BY <3>1, FS_Product
      <3>. QED BY <3>1, <3>2, FS_Product
    <2>2. f \in [S -> B]
      OBVIOUS
    <2>3. \A t, u \in S : f[t] = f[u] => t = u
      OBVIOUS
    <2>4. f \in Injection(S, B)
      BY <2>2, <2>3 DEF Injection, IsInjective
    <2>. QED BY <2>1, <2>4, FS_Injection
  <1>2. \A x \in S : x[1] \in Int /\ x[2] \in Int /\ x[3] \in Int /\ x = <<x[1], x[2], x[3]>>
    OBVIOUS
  <1>3. StrictOrder(S, {p \in S \X S : Before(p[1], p[2])})
    BY <1>2 DEF StrictOrder, Before
  <1>. QED BY <1>1, <1>3

AeadPlace == <<a, s, o>>

(* The cases the loops are past.                                           *)
AeadDone == {d \in Selected : Before(d, AeadPlace)}

(* The loops stand at a place of the matrix or right behind it, and at the *)
(* first case of an algorithm that is not selected; what was printed is    *)
(* the matrix up to there.                                                 *)
AeadInMatrix ==
  /\ a \in 1 .. Len(Algorithms) + 1 /\ s \in 1 .. Len(Sizes) /\ o \in 1 .. 2
  /\ \/ a <= Len(Algorithms) /\ algorithm_selected(Algorithms[a])
     \/ s = 1 /\ o = 1
  /\ ran = [k \in 1 .. Cardinality(AeadDone) |-> Matrix[k]]
  /\ options["--operation"] \in {"all", "seal", "open"}

(* The inductive invariant of BenchMain.                                   *)
AeadInv ==
  /\ pc \in {"parse", "check", "matrix", "exit"}
  /\ pc \in {"parse", "check"} => a = 1 /\ s = 1 /\ o = 1 /\ ran = << >>
  /\ pc = "matrix" => AeadInMatrix
  /\ pc = "exit" => status \in {0, 1, 2} /\ StatusHonest
  /\ ParseInv

(* The constants, and what the options can be.                             *)
LEMMA AeadConstants ==
  ASSUME BenchMainAssumption
  PROVE  CliAssumption /\ Len(Algorithms) \in Nat
  BY DEF BenchMainAssumption

LEMMA AeadSizes ==
  ASSUME BenchMainAssumption
  PROVE  Len(Sizes) \in Nat \ {0}
  BY AeadConstants, SizesGiven

(* In the middle of the matrix the next case printed is the next of it.    *)
LEMMA AeadNextCase ==
  ASSUME BenchMainAssumption, AeadInMatrix, AeadPlace \in Selected
  PROVE  /\ Cardinality(AeadDone) \in Nat
         /\ Cardinality(AeadDone) + 1 \in 1 .. Cardinality(Selected)
         /\ Matrix[Cardinality(AeadDone) + 1] = Case
  <1> DEFINE S == Selected
             R == {p \in S \X S : Before(p[1], p[2])}
             n == Cardinality(AeadDone)
             at == CaseAt(n + 1)
  <1>1. S \in SUBSET ((1 .. Len(Algorithms)) \X (1 .. Len(Sizes)) \X (1 .. 2))
    BY DEF Selected, Operations
  <1>2. IsFiniteSet(S) /\ StrictOrder(S, R)
    BY <1>1, AeadConstants, AeadSizes, AeadOrdered
  <1>3. \A d \in S : {e \in S : Before(e, d)} = {e \in S : <<e, d>> \in R}
    OBVIOUS
  <1>4. \A d \in S : Cardinality({e \in S : Before(e, d)}) = Rank(S, R, d)
    BY <1>3 DEF Rank
  <1>5. n = Rank(S, R, AeadPlace)
    BY <1>4 DEF AeadDone
  <1>6. n \in Nat /\ n + 1 <= Cardinality(S) /\ Cardinality(S) \in Nat
    BY <1>2, <1>5, RankType, FS_CardinalityType
  <1> HIDE DEF n, R
  <1>7. at \in S /\ Cardinality({e \in S : Before(e, at)}) = (n + 1) - 1
    BY <1>4, <1>5, <1>6 DEF CaseAt
  <1>8. Rank(S, R, at) = n
    BY <1>4, <1>6, <1>7
  <1>9. at = AeadPlace
    <2> HIDE DEF at, S
    <2>. QED BY <1>2, <1>5, <1>7, <1>8, RankUnique DEF S
  <1>10. n + 1 \in 1 .. Cardinality(S)
    BY <1>6
  <1>11. Matrix[n + 1] = Case
    <2>1. Matrix[n + 1] =
            [algorithm |-> Algorithms[at[1]], size |-> Sizes[at[2]],
             operation |-> Operations[at[3]]]
      <3> HIDE DEF at
      <3>. QED BY <1>10 DEF Matrix, at
    <2> HIDE DEF at
    <2>. QED BY <1>9, <2>1 DEF Case, AeadPlace
  <1>. QED BY <1>6, <1>10, <1>11 DEF n

(* What a turn of the loops leaves behind.                                 *)
LEMMA AeadEarlier ==
  \A L \in Nat, x \in Int : \A y \in 1 .. L : \A d \in Int \X (1 .. L) \X (1 .. 2) :
    /\ Before(d, <<x, y, 2>>) <=> Before(d, <<x, y, 1>>) \/ d = <<x, y, 1>>
    /\ Before(d, <<x, y + 1, 1>>) <=> Before(d, <<x, y, 2>>) \/ d = <<x, y, 2>>
    /\ Before(d, <<x + 1, 1, 1>>) <=> Before(d, <<x, L, 2>>) \/ d = <<x, L, 2>>
    /\ d[1] # x => (Before(d, <<x + 1, 1, 1>>) <=> Before(d, <<x, 1, 1>>))
    /\ ~Before(d, <<1, 1, 1>>) \/ d[1] < 1
  <1> TAKE L \in Nat, x \in Int
  <1> TAKE y \in 1 .. L
  <1> TAKE d \in Int \X (1 .. L) \X (1 .. 2)
  <1>1. PICK u \in Int, v \in 1 .. L, w \in 1 .. 2 : d = <<u, v, w>>
    OBVIOUS
  <1>. QED BY <1>1 DEF Before

LEMMA AeadSame ==
  ASSUME options' = options, size_set' = size_set
  PROVE  /\ Selected' = Selected /\ Matrix' = Matrix
         /\ Sizes' = Sizes
  BY DEF Selected, Matrix, CaseAt, Sizes

LEMMA AeadAdvanced ==
  ASSUME BenchMainAssumption, AeadInMatrix, a <= Len(Algorithms),
         Advance, options' = options, size_set' = size_set
  PROVE  /\ a' \in 1 .. Len(Algorithms) + 1 /\ s' \in 1 .. Len(Sizes) /\ o' \in 1 .. 2
         /\ a' = a \/ (s' = 1 /\ o' = 1)
         /\ AeadDone' = AeadDone \cup (Selected \cap {AeadPlace})
  <1> DEFINE S == Selected
             L == Len(Sizes)
             Moved == \A d \in S : Before(d, <<a', s', o'>>) <=>
                                   Before(d, <<a, s, o>>) \/ d = <<a, s, o>>
  <1>1. L \in Nat /\ L >= 1 /\ S \in SUBSET (Int \X (1 .. L) \X (1 .. 2)) /\ Len(Algorithms) \in Nat
    BY AeadConstants, AeadSizes DEF Selected, Operations
  <1>2. a \in Int /\ a >= 1 /\ s \in 1 .. L /\ o \in 1 .. 2
    BY DEF AeadInMatrix
  <1>3. AeadDone' = {d \in S : Before(d, <<a', s', o'>>)}
    BY AeadSame DEF AeadDone, AeadPlace, Before
  <1> HIDE DEF S, L, Moved
  <1>4. ASSUME o < 2
        PROVE  /\ a' \in 1 .. Len(Algorithms) + 1 /\ s' \in 1 .. L /\ o' \in 1 .. 2
               /\ a' = a \/ (s' = 1 /\ o' = 1)
               /\ Moved
    <2>1. o = 1 /\ o' = 2 /\ s' = s /\ a' = a
      BY <1>2, <1>4 DEF Advance, Operations
    <2>2. \A d \in S : Before(d, <<a, s, 2>>) <=> Before(d, <<a, s, 1>>) \/ d = <<a, s, 1>>
      BY <1>1, <1>2, AeadEarlier
    <2>3. Moved
      BY <2>1, <2>2 DEF Moved
    <2>4. a' \in 1 .. Len(Algorithms) + 1
      BY <2>1 DEF AeadInMatrix
    <2>. QED BY <1>2, <2>1, <2>3, <2>4
  <1>5. ASSUME ~(o < 2) /\ s < L
        PROVE  /\ a' \in 1 .. Len(Algorithms) + 1 /\ s' \in 1 .. L /\ o' \in 1 .. 2
               /\ a' = a \/ (s' = 1 /\ o' = 1)
               /\ Moved
    <2>1. o = 2 /\ o' = 1 /\ s' = s + 1 /\ a' = a /\ s + 1 \in 1 .. L
      BY <1>1, <1>2, <1>5 DEF Advance, Operations, L
    <2>2. \A d \in S : Before(d, <<a, s + 1, 1>>) <=>
                         Before(d, <<a, s, 2>>) \/ d = <<a, s, 2>>
      BY <1>1, <1>2, AeadEarlier
    <2>3. Moved
      BY <2>1, <2>2 DEF Moved
    <2>4. a' \in 1 .. Len(Algorithms) + 1
      BY <2>1 DEF AeadInMatrix
    <2>. QED BY <1>2, <2>1, <2>3, <2>4
  <1>6. ASSUME ~(o < 2) /\ ~(s < L)
        PROVE  /\ a' \in 1 .. Len(Algorithms) + 1 /\ s' \in 1 .. L /\ o' \in 1 .. 2
               /\ a' = a \/ (s' = 1 /\ o' = 1)
               /\ Moved
    <2>1. o = 2 /\ s = L /\ o' = 1 /\ s' = 1 /\ a' = a + 1 /\ 1 \in 1 .. L
      BY <1>1, <1>2, <1>6 DEF Advance, Operations, L
    <2>2. \A d \in S : Before(d, <<a + 1, 1, 1>>) <=>
                         Before(d, <<a, L, 2>>) \/ d = <<a, L, 2>>
      BY <1>1, <1>2, <2>1, AeadEarlier
    <2>3. a + 1 \in 1 .. Len(Algorithms) + 1
      BY <1>1, <1>2
    <2>4. Moved
      BY <2>1, <2>2 DEF Moved
    <2>. QED BY <1>2, <2>1, <2>3, <2>4
  <1>7. /\ a' \in 1 .. Len(Algorithms) + 1 /\ s' \in 1 .. L /\ o' \in 1 .. 2
        /\ a' = a \/ (s' = 1 /\ o' = 1)
        /\ Moved
    BY <1>2, <1>4, <1>5, <1>6
  <1>8. AeadDone' = AeadDone \cup (S \cap {AeadPlace})
    BY <1>3, <1>7 DEF Moved, AeadDone, AeadPlace, S
  <1>. QED BY <1>7, <1>8 DEF S, L

LEMMA AeadStart ==
  ASSUME BenchMainAssumption, a = 1, s = 1, o = 1
  PROVE  AeadDone = {}
  <1> DEFINE L == Len(Sizes)
  <1>1. L \in Nat /\ 1 \in 1 .. L
    BY AeadSizes
  <1> HIDE DEF L
  <1>2. \A d \in Int \X (1 .. L) \X (1 .. 2) : Before(d, <<1, 1, 1>>) => d[1] < 1
    BY <1>1, AeadEarlier
  <1>3. \A d \in Selected : d \in Int \X (1 .. L) \X (1 .. 2) /\ ~(d[1] < 1)
    BY AeadConstants DEF Selected, Operations, L
  <1>. QED BY <1>2, <1>3 DEF AeadDone, AeadPlace

LEMMA AeadEnd ==
  ASSUME BenchMainAssumption, AeadInMatrix, a > Len(Algorithms)
  PROVE  AeadDone = Selected
  <1>1. a \in Int /\ Len(Algorithms) \in Nat
    BY AeadConstants DEF AeadInMatrix
  <1>2. \A d \in Selected : d[1] \in Int /\ d[1] < a
    BY <1>1 DEF Selected
  <1>. QED BY <1>2 DEF AeadDone, AeadPlace, Before

(* Everything printed: the matrix itself.                                  *)
LEMMA AeadWhole ==
  ASSUME AeadInMatrix, AeadDone = Selected
  PROVE  ran = Matrix
  BY DEF AeadInMatrix, Matrix

(* What is selected of a known algorithm is something.                     *)
LEMMA AeadSomeCase ==
  ASSUME BenchMainAssumption, AeadInMatrix, ran = Matrix, Algorithms # << >>,
         options["--algorithm"] = "all" \/ options["--algorithm"] \in ToSet(Algorithms)
  PROVE  ran # << >>
  <1>1. Len(Algorithms) \in Nat \ {0} /\ Len(Sizes) \in Nat \ {0}
    BY AeadSizes DEF BenchMainAssumption
  <1>2. PICK n \in 1 .. Len(Algorithms) : options["--algorithm"] \in {"all", Algorithms[n]}
    BY <1>1 DEF ToSet, BenchMainAssumption
  <1>3. PICK w \in 1 .. 2 : options["--operation"] \in {"all", Operations[w]}
    BY DEF AeadInMatrix, Operations
  <1>4. <<n, 1, w>> \in Selected
    BY <1>1, <1>2, <1>3 DEF Selected, Operations
  <1>5. Selected \in SUBSET ((1 .. Len(Algorithms)) \X (1 .. Len(Sizes)) \X (1 .. 2))
    BY DEF Selected, Operations
  <1>6. IsFiniteSet(Selected)
    BY <1>1, <1>5, AeadOrdered
  <1>7. Cardinality(Selected) \in Nat \ {0}
    BY <1>4, <1>6, FS_CardinalityType, FS_EmptySet
  <1>8. 1 \in DOMAIN Matrix
    BY <1>7 DEF Matrix
  <1>. QED BY <1>8

LEMMA AeadCheckKept ==
  ASSUME BenchMainAssumption, AeadInv, Check
  PROVE  AeadInv'
  <1>1. /\ pc = "check" /\ ran = << >> /\ a = 1 /\ s = 1 /\ o = 1 /\ ParseInv
        /\ UNCHANGED <<argv, i, options, size_set, a, s, o, ran>>
        /\ \/ pc' = "matrix" /\ options["--operation"] \in {"all", "seal", "open"}
           \/ pc' = "exit" /\ status' = 2
    BY DEF AeadInv, Check, Exit, loops
  <1>2. ParseInv'
    <2>1. i > Len(argv)
      BY <1>1 DEF ParseInv
    <2>. QED BY <1>1, <2>1, ParsedKept
  <1>3. ASSUME pc' = "exit"
        PROVE  status' \in {0, 1, 2} /\ StatusHonest'
    BY <1>1, <1>3 DEF StatusHonest
  <1>4. ASSUME pc' = "matrix"
        PROVE  AeadInMatrix'
    <2>1. /\ AeadDone' = AeadDone /\ Matrix' = Matrix
          /\ Sizes' = Sizes
      BY <1>1, AeadSame DEF AeadDone, AeadPlace, Before
    <2>2. Cardinality(AeadDone) = 0
      BY <1>1, AeadStart, FS_EmptySet
    <2>3. ran' = [k \in 1 .. Cardinality(AeadDone') |-> Matrix'[k]]
      BY <1>1, <2>1, <2>2
    <2>. QED BY <1>1, <1>4, <2>1, <2>3, AeadConstants, AeadSizes DEF AeadInMatrix
  <1>. QED BY <1>1, <1>2, <1>3, <1>4 DEF AeadInv

LEMMA AeadSkipAlgorithmKept ==
  ASSUME BenchMainAssumption, AeadInv, SkipAlgorithm
  PROVE  AeadInv'
  <1>1. /\ pc = "matrix" /\ pc' = pc /\ a <= Len(Algorithms) /\ a' = a + 1
        /\ ~algorithm_selected(Algorithms[a])
        /\ UNCHANGED <<argv, i, options, size_set, status, s, o, ran>> /\ AeadInMatrix /\ ParseInv
    BY DEF SkipAlgorithm, AeadInv
  <1>2. /\ s = 1 /\ o = 1 /\ a \in Int /\ a >= 1 /\ Len(Algorithms) \in Nat
        /\ Len(Sizes) \in Nat /\ Len(Sizes) >= 1
    BY <1>1, AeadConstants, AeadSizes DEF AeadInMatrix
  <1>3. Selected' = Selected /\ Matrix' = Matrix /\ Sizes' = Sizes
    BY <1>1, AeadSame
  <1>4. \A d \in Selected :
          Before(d, <<a + 1, 1, 1>>) <=> Before(d, <<a, 1, 1>>)
    <2>1. \A d \in Selected :
            d \in Int \X (1 .. Len(Sizes)) \X (1 .. 2) /\ d[1] # a
      BY <1>1, <1>2 DEF Selected, Operations, algorithm_selected
    <2>. QED BY <1>2, <2>1, AeadEarlier
  <1>5. AeadDone' = AeadDone
    BY <1>1, <1>2, <1>3, <1>4 DEF AeadDone, AeadPlace, Before
  <1>6. a' \in 1 .. Len(Algorithms) + 1
    BY <1>1, <1>2
  <1>7. AeadInMatrix'
    BY <1>1, <1>2, <1>3, <1>5, <1>6 DEF AeadInMatrix
  <1>8. ParseInv'
    BY <1>1, ParsedKept DEF ParseInv
  <1>. QED BY <1>1, <1>7, <1>8 DEF AeadInv

LEMMA AeadSkipOperationKept ==
  ASSUME BenchMainAssumption, AeadInv, SkipOperation
  PROVE  AeadInv'
  <1>1. /\ pc = "matrix" /\ pc' = pc /\ a <= Len(Algorithms) /\ Advance
        /\ algorithm_selected(Algorithms[a]) /\ ~OperationSelected(Operations[o])
        /\ UNCHANGED <<argv, i, options, size_set, status, ran>> /\ AeadInMatrix /\ ParseInv
    BY DEF SkipOperation, AeadInv
  <1>2. AeadPlace \notin Selected
    BY <1>1 DEF AeadPlace, Selected, OperationSelected
  <1>3. /\ a' \in 1 .. Len(Algorithms) + 1 /\ s' \in 1 .. Len(Sizes) /\ o' \in 1 .. 2
        /\ a' = a \/ (s' = 1 /\ o' = 1)
        /\ AeadDone' = AeadDone
    BY <1>1, <1>2, AeadAdvanced
  <1>4. Matrix' = Matrix /\ Sizes' = Sizes
    BY <1>1, AeadSame
  <1>5. algorithm_selected(Algorithms[a])' \/ (s' = 1 /\ o' = 1)
    BY <1>1, <1>3 DEF algorithm_selected
  <1>6. AeadInMatrix'
    BY <1>1, <1>3, <1>4, <1>5 DEF AeadInMatrix
  <1>7. ParseInv'
    BY <1>1, ParsedKept DEF ParseInv
  <1>. QED BY <1>1, <1>6, <1>7 DEF AeadInv

LEMMA AeadRunCaseKept ==
  ASSUME BenchMainAssumption, AeadInv, RunCase
  PROVE  AeadInv'
  <1>1. /\ pc = "matrix" /\ pc' = pc /\ a <= Len(Algorithms) /\ Advance
        /\ algorithm_selected(Algorithms[a]) /\ OperationSelected(Operations[o])
        /\ ran' = Append(ran, Case)
        /\ UNCHANGED <<argv, i, options, size_set, status>> /\ AeadInMatrix /\ ParseInv
    BY DEF RunCase, Runs, AeadInv
  <1>2. AeadPlace \in Selected
    BY <1>1, AeadConstants DEF AeadPlace, Selected, OperationSelected,
         algorithm_selected, Operations, AeadInMatrix
  <1>3. /\ a' \in 1 .. Len(Algorithms) + 1 /\ s' \in 1 .. Len(Sizes) /\ o' \in 1 .. 2
        /\ a' = a \/ (s' = 1 /\ o' = 1)
        /\ AeadDone' = AeadDone \cup {AeadPlace}
    BY <1>1, <1>2, AeadAdvanced
  <1>4. /\ Selected' = Selected /\ Matrix' = Matrix
        /\ Sizes' = Sizes
    BY <1>1, AeadSame
  <1>5. /\ Cardinality(AeadDone) \in Nat
        /\ Matrix[Cardinality(AeadDone) + 1] = Case
    BY <1>1, <1>2, AeadNextCase
  <1>6. Cardinality(AeadDone') = Cardinality(AeadDone) + 1
    <2>1. Selected \in SUBSET ((1 .. Len(Algorithms)) \X (1 .. Len(Sizes)) \X (1 .. 2))
      BY DEF Selected, Operations
    <2>2. IsFiniteSet(Selected)
      BY <2>1, AeadConstants, AeadSizes, AeadOrdered
    <2>3. IsFiniteSet(AeadDone)
      BY <2>2, FS_Subset DEF AeadDone
    <2>4. AeadPlace \notin AeadDone
      BY <1>1, AeadConstants DEF AeadDone, AeadPlace, Before, AeadInMatrix
    <2>. QED BY <1>3, <2>3, <2>4, FS_AddElement
  <1>7. ran' = [k \in 1 .. Cardinality(AeadDone) + 1 |-> Matrix[k]]
    <2>1. ran = [k \in 1 .. Cardinality(AeadDone) |-> Matrix[k]]
      BY <1>1 DEF AeadInMatrix
    <2>. QED BY <1>1, <1>5, <2>1, Appended
  <1>8. algorithm_selected(Algorithms[a])' \/ (s' = 1 /\ o' = 1)
    BY <1>1, <1>3 DEF algorithm_selected
  <1>9. AeadInMatrix'
    BY <1>1, <1>3, <1>4, <1>6, <1>7, <1>8 DEF AeadInMatrix
  <1>10. ParseInv'
    BY <1>1, ParsedKept DEF ParseInv
  <1>. QED BY <1>1, <1>9, <1>10 DEF AeadInv

LEMMA AeadCaseFailsKept ==
  ASSUME BenchMainAssumption, AeadInv, CaseFails
  PROVE  AeadInv'
  <1>1. /\ pc = "matrix" /\ pc' = "exit" /\ status' = 1 /\ a <= Len(Algorithms)
        /\ algorithm_selected(Algorithms[a]) /\ OperationSelected(Operations[o])
        /\ UNCHANGED <<argv, i, options, size_set, a, s, o, ran>> /\ AeadInMatrix /\ ParseInv
    BY DEF CaseFails, GivesUp, Exit, loops, Runs, AeadInv
  <1>2. AeadPlace \in Selected
    BY <1>1, AeadConstants DEF AeadPlace, Selected, OperationSelected,
         algorithm_selected, Operations, AeadInMatrix
  <1> DEFINE n == Cardinality(AeadDone)
             m == Cardinality(Selected)
             M == Matrix
  <1>3. n \in Nat /\ n + 1 \in 1 .. m
    BY <1>1, <1>2, AeadNextCase
  <1>4. M = [k \in 1 .. m |-> M[k]]
    BY DEF Matrix
  <1>5. ran = [k \in 1 .. n |-> M[k]]
    BY <1>1 DEF AeadInMatrix
  <1>6. m \in Nat
    <2>1. Selected \in SUBSET ((1 .. Len(Algorithms)) \X (1 .. Len(Sizes)) \X (1 .. 2))
      BY DEF Selected, Operations
    <2>. QED BY <2>1, AeadConstants, AeadSizes, AeadOrdered, FS_CardinalityType
  <1>7. IsStrictPrefix(ran, M)
    <2> HIDE DEF n, m, M
    <2>1. n < m
      BY <1>3, <1>6
    <2>. QED BY <1>3, <1>4, <1>5, <1>6, <2>1, ProperPrefix
  <1>8. StatusHonest'
    <2>1. IsStrictPrefix(ran', Matrix')
      BY <1>1, <1>7, AeadSame DEF IsStrictPrefix, IsPrefix
    <2>. QED BY <1>1, <2>1 DEF StatusHonest
  <1>9. ParseInv'
    BY <1>1, ParsedKept DEF ParseInv
  <1>. QED BY <1>1, <1>8, <1>9 DEF AeadInv

LEMMA AeadFinishKept ==
  ASSUME BenchMainAssumption, AeadInv, Finish
  PROVE  AeadInv'
  <1> DEFINE known == \/ options["--algorithm"] = "all"
                      \/ options["--algorithm"] \in ToSet(Algorithms)
  <1>1. /\ pc = "matrix" /\ pc' = "exit" /\ status' = (IF known THEN 0 ELSE 2)
        /\ a > Len(Algorithms)
        /\ UNCHANGED <<argv, i, options, size_set, a, s, o, ran>> /\ AeadInMatrix /\ ParseInv
    BY DEF Finish, Exit, loops, AeadInv
  <1>2. ran = Matrix /\ Matrix' = Matrix
    BY <1>1, AeadEnd, AeadWhole, AeadSame
  <1>3. ASSUME ~known
        PROVE  ran = << >>
    <2>1. Selected = {}
      BY <1>3 DEF Selected, ToSet
    <2>2. AeadDone = {} /\ Cardinality(AeadDone) = 0
      BY <2>1, FS_EmptySet DEF AeadDone
    <2>. QED BY <1>1, <2>2 DEF AeadInMatrix
  <1>4. status' \in {0, 1, 2} /\ StatusHonest'
    <2>1. CASE known
      <3>1. pc' = "exit" /\ status' = 0 /\ ran' = Matrix'
        BY <1>1, <1>2, <2>1
      <3>2. ran' # << >> \/ Algorithms = << >>
        BY <1>1, <1>2, <2>1, AeadSomeCase
      <3>. QED BY <3>1, <3>2 DEF StatusHonest
    <2>2. CASE ~known
      <3>1. pc' = "exit" /\ status' = 2 /\ ran' = << >>
        BY <1>1, <1>3, <2>2
      <3>. QED BY <3>1 DEF StatusHonest
    <2>. QED BY <2>1, <2>2
  <1>5. ParseInv'
    BY <1>1, ParsedKept DEF ParseInv
  <1>. QED BY <1>1, <1>4, <1>5 DEF AeadInv

LEMMA AeadParseKept ==
  ASSUME BenchMainAssumption, AeadInv, Parse, UNCHANGED <<loops, ran>>
  PROVE  AeadInv'
  <1>1. ParseInv'
    BY AeadConstants, ParseKept DEF AeadInv
  <1>2. Parse /\ UNCHANGED <<a, s, o, ran>>
    BY DEF loops
  <1>3. /\ pc = "parse" /\ ran = << >> /\ a = 1 /\ s = 1 /\ o = 1
        /\ \/ pc' \in {"parse", "check"}
           \/ pc' = "exit" /\ status' = 0 /\ i <= Len(argv) /\ UNCHANGED <<argv, i>>
           \/ pc' = "exit" /\ status' = 2
    BY <1>2 DEF Parse, Stop, Missing, SetWord, SetNumber, Invalid, Parsed, Exit, Valued, AeadInv
  <1>4. ASSUME pc' = "exit"
        PROVE  status' \in {0, 1, 2} /\ StatusHonest'
    <2>1. CASE status' = 0
      <3>1. ran' = << >> /\ i' <= Len(argv')
        BY <1>2, <1>3, <1>4, <2>1
      <3>. QED BY <2>1, <3>1 DEF StatusHonest
    <2>2. CASE status' = 2
      <3>1. ran' = << >>
        BY <1>2, <1>3
      <3>. QED BY <2>2, <3>1 DEF StatusHonest
    <2>. QED BY <1>3, <1>4, <2>1, <2>2
  <1>. QED BY <1>1, <1>2, <1>3, <1>4 DEF AeadInv

LEMMA AeadNextInv ==
  ASSUME BenchMainAssumption, AeadInv, [Next]_(vars)
  PROVE  AeadInv'
  <1>1. CASE UNCHANGED vars
    <2>1. UNCHANGED <<pc, argv, i, options, size_set, status, a, s, o, ran>>
      BY <1>1 DEF vars, loops
    <2>2. ParseInv'
      BY <2>1, ParsedKept DEF AeadInv, ParseInv
    <2>3. /\ Selected' = Selected /\ Matrix' = Matrix
          /\ Sizes' = Sizes
      BY <2>1, AeadSame
    <2>4. AeadDone' = AeadDone
      BY <2>1, <2>3 DEF AeadDone, AeadPlace, Before
    <2>5. AeadInMatrix => AeadInMatrix'
      BY <2>1, <2>3, <2>4 DEF AeadInMatrix, algorithm_selected
    <2>6. StatusHonest => StatusHonest'
      BY <2>1, <2>3 DEF StatusHonest, IsStrictPrefix, IsPrefix
    <2>. QED BY <2>1, <2>2, <2>5, <2>6 DEF AeadInv
  <1>. QED
    BY <1>1, AeadParseKept, AeadCheckKept, AeadSkipAlgorithmKept, AeadSkipOperationKept,
       AeadRunCaseKept, AeadCaseFailsKept, AeadFinishKept
       DEF Next, Terminated

LEMMA AeadInitInv ==
  ASSUME BenchMainAssumption, Init
  PROVE  AeadInv
  <1>1. CliInit /\ a = 1 /\ s = 1 /\ o = 1 /\ ran = << >>
    BY DEF Init, CliInit
  <1>2. ParseInv
    BY <1>1, AeadConstants, ParseInit
  <1>. QED BY <1>1, <1>2 DEF AeadInv, CliInit

LEMMA AeadAlways ==
  ASSUME BenchMainAssumption
  PROVE  Spec => []AeadInv
  <1>1. Init => AeadInv
    BY AeadInitInv
  <1>2. AeadInv /\ [Next]_(vars) => AeadInv'
    BY AeadNextInv
  <1>. QED BY <1>1, <1>2, PTL DEF Spec

-----------------------------------------------------------------------------
(* Theorems about BenchMain                                                *)

(* After any list of arguments each option of the AEAD program has the     *)
(* value given last, or its default, and no number was cut off.            *)
THEOREM AeadOptionsExact ==
  ASSUME BenchMainAssumption
  PROVE  Spec => []OptionsExact
  <1>1. AeadInv => OptionsExact
    BY AeadConstants, ParseExact DEF AeadInv
  <1>2. Spec => []AeadInv
    BY AeadAlways
  <1>. QED BY <1>1, <1>2, PTL

(* For any lists of algorithms and sizes, the exit status of src/main.c    *)
(* tells what was printed: the whole matrix, a proper prefix, nothing.     *)
THEOREM ExitStatusHonest ==
  ASSUME BenchMainAssumption
  PROVE  Spec => []StatusHonest
  <1>1. AeadInv => StatusHonest
    BY DEF AeadInv, StatusHonest
  <1>2. Spec => []AeadInv
    BY AeadAlways
  <1>. QED BY <1>1, <1>2, PTL

(* For every list of arguments and any default sizes: run_case of          *)
(* src/main.c is entered with the size that was typed last, with the       *)
(* defaults if none was, and never with an empty message.                  *)
THEOREM CasesAreSound ==
  ASSUME BenchMainAssumption
  PROVE  Spec => []CasesSound
  <1>1. AeadInv => CasesSound
    <2> SUFFICES ASSUME AeadInv, Runs
                 PROVE  /\ Case.size >= 1
                        /\ Case.size = IF Pairs("--size") = {} THEN DefaultSizes[s]
                                       ELSE options["--size"]
      BY DEF CasesSound
    <2>1. CliAssumption /\ ParseInv /\ AeadInMatrix /\ pc = "matrix"
      BY AeadConstants DEF AeadInv, Runs
    <2>2. "--size" \in NumberOptions /\ Least["--size"] = 1 /\ UINT64_MAX \in Nat
      BY <2>1 DEF BenchMainAssumption, CliAssumption
    <2>3. Given("--size") = Pairs("--size")
      BY <2>1, Arguments DEF ParseInv, Given, Pairs
    <2>4. Case.size = Sizes[s] /\ s \in 1 .. Len(Sizes)
      BY <2>1 DEF Case, AeadInMatrix
    <2>5. CASE size_set
      <3>1. Sizes = <<options["--size"]>> /\ s = 1
        BY <2>4, <2>5 DEF Sizes
      <3>2. PICK p \in Given("--size") :
              /\ options["--size"] = Stored("--size", argv[p + 1])
              /\ Accepts("--size", argv[p + 1])
        BY <2>1, <2>2, <2>5 DEF ParseInv, HoldsLast, Options
      <3>3. options["--size"] \in 1 .. UINT64_MAX
        BY <2>1, <2>2, <3>2, StoredExact
      <3>. QED BY <2>1, <2>2, <2>3, <2>4, <2>5, <3>1, <3>3 DEF ParseInv
    <2>6. CASE ~size_set
      <3>1. Sizes = DefaultSizes /\ Pairs("--size") = {}
        BY <2>1, <2>3, <2>6 DEF Sizes, ParseInv
      <3>2. DefaultSizes[s] \in Nat \ {0}
        BY <2>1, <2>4, <3>1, SizesGiven
      <3>. QED BY <2>4, <3>1, <3>2
    <2>. QED BY <2>5, <2>6
  <1>2. Spec => []AeadInv
    BY AeadAlways
  <1>. QED BY <1>1, <1>2, PTL

-----------------------------------------------------------------------------
(* TlsMain: the same loops with one index less, the handshake at place 0,  *)
(* and a flag that a cipher was selected                                   *)

LEMMA TlsOrdered ==
  ASSUME NEW A \in Nat, NEW L \in Nat, NEW S \in SUBSET ((1 .. A) \X (0 .. L))
  PROVE  /\ IsFiniteSet(S)
         /\ StrictOrder(S, {p \in S \X S : TlsBefore(p[1], p[2])})
  <1>1. IsFiniteSet(S)
    <2>1. IsFiniteSet(1 .. A)
      BY FS_Interval
    <2>2. IsFiniteSet(0 .. L)
      BY FS_Interval
    <2>3. IsFiniteSet((1 .. A) \X (0 .. L))
      BY <2>1, <2>2, FS_Product
    <2>. QED BY <2>3, FS_Subset
  <1>2. \A x \in S : x[1] \in Int /\ x[2] \in Int /\ x = <<x[1], x[2]>>
    OBVIOUS
  <1>3. StrictOrder(S, {p \in S \X S : TlsBefore(p[1], p[2])})
    BY <1>2 DEF StrictOrder, TlsBefore
  <1>. QED BY <1>1, <1>3

TlsPlace == <<c, s>>

TlsDone == {d \in TlsSelected : TlsBefore(d, TlsPlace)}

(* The flag is set as the first case of a cipher is passed, whether it was *)
(* run or not.                                                             *)
TlsInMatrix ==
  /\ c \in 1 .. Len(Ciphers) + 1 /\ s \in 0 .. Len(Sizes)
  /\ \/ c <= Len(Ciphers) /\ CipherSelected(Ciphers[c])
     \/ s = 0
  /\ ran = [k \in 1 .. Cardinality(TlsDone) |-> TlsMatrix[k]]
  /\ matched \in BOOLEAN
  /\ matched <=> \E n \in 1 .. Len(Ciphers) :
                   CipherSelected(Ciphers[n]) /\ (n < c \/ (n = c /\ s > 0))
  /\ options["--benchmark"] \in {"all", "handshake", "transfer"}

(* The inductive invariant of TlsMain.                                     *)
TlsInv ==
  /\ pc \in {"parse", "check", "matrix", "exit"}
  /\ pc \in {"parse", "check"} => c = 1 /\ s = 0 /\ matched = FALSE /\ ran = << >>
  /\ pc = "matrix" => TlsInMatrix
  /\ pc = "exit" => status \in {0, 1, 2} /\ TlsStatusHonest
  /\ ParseInv

LEMMA TlsConstants ==
  ASSUME TlsMainAssumption
  PROVE  CliAssumption /\ Len(Ciphers) \in Nat
  BY DEF TlsMainAssumption

LEMMA TlsSizes ==
  ASSUME TlsMainAssumption
  PROVE  Len(Sizes) \in Nat \ {0}
  BY TlsConstants, SizesGiven

LEMMA TlsFinite ==
  ASSUME TlsMainAssumption
  PROVE  /\ TlsSelected \in SUBSET ((1 .. Len(Ciphers)) \X (0 .. Len(Sizes)))
         /\ IsFiniteSet(TlsSelected) /\ Cardinality(TlsSelected) \in Nat
         /\ StrictOrder(TlsSelected,
                        {p \in TlsSelected \X TlsSelected : TlsBefore(p[1], p[2])})
  <1>1. TlsSelected \in SUBSET ((1 .. Len(Ciphers)) \X (0 .. Len(Sizes)))
    BY DEF TlsSelected
  <1>2. /\ IsFiniteSet(TlsSelected)
        /\ StrictOrder(TlsSelected,
                       {p \in TlsSelected \X TlsSelected : TlsBefore(p[1], p[2])})
    BY <1>1, TlsConstants, TlsSizes, TlsOrdered
  <1>. QED BY <1>1, <1>2, FS_CardinalityType

(* In the middle of the matrix the next case printed is the next of it.    *)
LEMMA TlsNextCase ==
  ASSUME TlsMainAssumption, TlsInMatrix, TlsPlace \in TlsSelected
  PROVE  /\ Cardinality(TlsDone) \in Nat
         /\ Cardinality(TlsDone) + 1 \in 1 .. Cardinality(TlsSelected)
         /\ TlsMatrix[Cardinality(TlsDone) + 1] = CaseOf(s)
  <1> DEFINE S == TlsSelected
             R == {p \in S \X S : TlsBefore(p[1], p[2])}
             n == Cardinality(TlsDone)
             at == TlsCaseAt(n + 1)
  <1>1. IsFiniteSet(S) /\ StrictOrder(S, R) /\ Cardinality(S) \in Nat
    BY TlsFinite
  <1>2. \A d \in S : {e \in S : TlsBefore(e, d)} = {e \in S : <<e, d>> \in R}
    OBVIOUS
  <1>3. \A d \in S : Cardinality({e \in S : TlsBefore(e, d)}) = Rank(S, R, d)
    BY <1>2 DEF Rank
  <1>4. n = Rank(S, R, TlsPlace)
    BY <1>3 DEF TlsDone
  <1>5. n \in Nat /\ n + 1 <= Cardinality(S)
    BY <1>1, <1>4, RankType
  <1> HIDE DEF n, R
  <1>6. at \in S /\ Cardinality({e \in S : TlsBefore(e, at)}) = (n + 1) - 1
    BY <1>3, <1>4, <1>5 DEF TlsCaseAt
  <1>7. Rank(S, R, at) = n
    BY <1>3, <1>5, <1>6
  <1>8. at = TlsPlace
    <2> HIDE DEF at, S
    <2>. QED BY <1>1, <1>4, <1>6, <1>7, RankUnique DEF S
  <1>9. n + 1 \in 1 .. Cardinality(S)
    BY <1>1, <1>5
  <1>10. TlsMatrix[n + 1] = CaseOf(s)
    <2>1. TlsMatrix[n + 1] =
            IF at[2] = 0
            THEN [cipher |-> Ciphers[at[1]], benchmark |-> "handshake", size |-> 0]
            ELSE [cipher |-> Ciphers[at[1]], benchmark |-> "transfer", size |-> Sizes[at[2]]]
      <3> HIDE DEF at
      <3>. QED BY <1>9 DEF TlsMatrix, at
    <2> HIDE DEF at
    <2>. QED BY <1>8, <2>1 DEF CaseOf, TlsPlace
  <1>. QED BY <1>5, <1>9, <1>10 DEF n

LEMMA TlsEarlier ==
  \A L \in Nat, x \in Int : \A y \in 0 .. L : \A d \in Int \X (0 .. L) :
    /\ TlsBefore(d, <<x, y + 1>>) <=> TlsBefore(d, <<x, y>>) \/ d = <<x, y>>
    /\ TlsBefore(d, <<x + 1, 0>>) <=> TlsBefore(d, <<x, L>>) \/ d = <<x, L>>
    /\ d[1] # x => (TlsBefore(d, <<x + 1, 0>>) <=> TlsBefore(d, <<x, 0>>))
    /\ ~TlsBefore(d, <<1, 0>>) \/ d[1] < 1
  <1> TAKE L \in Nat, x \in Int
  <1> TAKE y \in 0 .. L
  <1> TAKE d \in Int \X (0 .. L)
  <1>1. PICK u \in Int, v \in 0 .. L : d = <<u, v>>
    OBVIOUS
  <1>. QED BY <1>1 DEF TlsBefore

LEMMA TlsSame ==
  ASSUME options' = options, size_set' = size_set
  PROVE  /\ TlsSelected' = TlsSelected /\ TlsMatrix' = TlsMatrix
         /\ Sizes' = Sizes
  BY DEF TlsSelected, TlsMatrix, TlsCaseAt, Sizes

(* A case is passed: run, or not to be run.                                *)
LEMMA TlsAdvanced ==
  ASSUME TlsMainAssumption, TlsInMatrix, AtCase, TlsAdvance,
         options' = options, size_set' = size_set, matched' = TRUE
  PROVE  /\ c' \in 1 .. Len(Ciphers) + 1 /\ s' \in 0 .. Len(Sizes)
         /\ c' = c \/ s' = 0
         /\ c < c' \/ (c = c' /\ s' > 0)
         /\ TlsDone' = TlsDone \cup (TlsSelected \cap {TlsPlace})
  <1> DEFINE S == TlsSelected
             L == Len(Sizes)
             Moved == \A d \in S : TlsBefore(d, <<c', s'>>) <=>
                                   TlsBefore(d, <<c, s>>) \/ d = <<c, s>>
  <1>1. L \in Nat /\ L >= 1 /\ S \in SUBSET (Int \X (0 .. L)) /\ Len(Ciphers) \in Nat
    BY TlsConstants, TlsSizes, TlsFinite
  <1>2. /\ c \in Int /\ c \in 1 .. Len(Ciphers) /\ s \in 0 .. L
    BY <1>1 DEF TlsInMatrix, AtCase
  <1>3. TlsDone' = {d \in S : TlsBefore(d, <<c', s'>>)}
    BY TlsSame DEF TlsDone, TlsPlace, TlsBefore
  <1> HIDE DEF S, L, Moved
  <1>4. ASSUME s < L
        PROVE  c' = c /\ s' = s + 1 /\ s + 1 \in 1 .. L /\ Moved
    <2>1. s' = s + 1 /\ c' = c /\ s + 1 \in 1 .. L
      BY <1>1, <1>2, <1>4 DEF TlsAdvance, L
    <2>2. \A d \in S : TlsBefore(d, <<c, s + 1>>) <=> TlsBefore(d, <<c, s>>) \/ d = <<c, s>>
      BY <1>1, <1>2, TlsEarlier
    <2>3. Moved
      BY <2>1, <2>2 DEF Moved
    <2>. QED BY <2>1, <2>3
  <1>5. ASSUME ~(s < L)
        PROVE  c' = c + 1 /\ s' = 0 /\ c + 1 \in 1 .. Len(Ciphers) + 1 /\ Moved
    <2>1. s = L /\ s' = 0 /\ c' = c + 1 /\ 0 \in 0 .. L
      BY <1>1, <1>2, <1>5 DEF TlsAdvance, L
    <2>2. \A d \in S : TlsBefore(d, <<c + 1, 0>>) <=> TlsBefore(d, <<c, L>>) \/ d = <<c, L>>
      BY <1>1, <1>2, <2>1, TlsEarlier
    <2>3. Moved
      BY <2>1, <2>2 DEF Moved
    <2>. QED BY <1>1, <1>2, <2>1, <2>3
  <1>6. Moved
    BY <1>4, <1>5
  <1>7. TlsDone' = TlsDone \cup (S \cap {TlsPlace})
    BY <1>3, <1>6 DEF Moved, TlsDone, TlsPlace, S
  <1>8. /\ c' \in 1 .. Len(Ciphers) + 1 /\ s' \in 0 .. L
        /\ c' = c \/ s' = 0
        /\ c < c' \/ (c = c' /\ s' > 0)
    <2>1. CASE s < L
      <3>1. c' = c /\ s' = s + 1 /\ s + 1 \in 1 .. L /\ s + 1 > 0
        BY <1>1, <1>2, <1>4, <2>1
      <3>. QED BY <1>1, <1>2, <3>1
    <2>2. CASE ~(s < L)
      <3>1. c' = c + 1 /\ s' = 0 /\ c + 1 \in 1 .. Len(Ciphers) + 1
        BY <1>2, <1>5, <2>2
      <3>2. c < c + 1 /\ 0 \in 0 .. L
        BY <1>1, <1>2
      <3>. QED BY <3>1, <3>2
    <2>. QED BY <2>1, <2>2
  <1>. QED BY <1>7, <1>8 DEF S, L

LEMMA TlsStart ==
  ASSUME TlsMainAssumption, c = 1, s = 0
  PROVE  TlsDone = {}
  <1> DEFINE L == Len(Sizes)
  <1>1. L \in Nat /\ 0 \in 0 .. L
    BY TlsSizes
  <1> HIDE DEF L
  <1>2. \A d \in Int \X (0 .. L) : TlsBefore(d, <<1, 0>>) => d[1] < 1
    BY <1>1, TlsEarlier
  <1>3. \A d \in TlsSelected : d \in Int \X (0 .. L) /\ ~(d[1] < 1)
    BY TlsConstants DEF TlsSelected, L
  <1>. QED BY <1>2, <1>3 DEF TlsDone, TlsPlace

LEMMA TlsEnd ==
  ASSUME TlsMainAssumption, TlsInMatrix, c > Len(Ciphers)
  PROVE  TlsDone = TlsSelected
  <1>1. c \in Int /\ Len(Ciphers) \in Nat
    BY TlsConstants DEF TlsInMatrix
  <1>2. \A d \in TlsSelected : d[1] \in Int /\ d[1] < c
    BY <1>1 DEF TlsSelected
  <1>. QED BY <1>2 DEF TlsDone, TlsPlace, TlsBefore

LEMMA TlsWhole ==
  ASSUME TlsInMatrix, TlsDone = TlsSelected
  PROVE  ran = TlsMatrix
  BY DEF TlsInMatrix, TlsMatrix

(* Behind the loops the flag tells whether a cipher of the list is         *)
(* selected, and then so is a case.                                        *)
LEMMA TlsMatched ==
  ASSUME TlsMainAssumption, TlsInMatrix, c > Len(Ciphers)
  PROVE  /\ matched <=> \E n \in 1 .. Len(Ciphers) : CipherSelected(Ciphers[n])
         /\ matched <=> TlsSelected # {}
  <1>1. c \in Int /\ Len(Ciphers) \in Nat /\ Len(Sizes) \in Nat /\ Len(Sizes) >= 1
    BY TlsConstants, TlsSizes DEF TlsInMatrix
  <1>2. matched <=> \E n \in 1 .. Len(Ciphers) : CipherSelected(Ciphers[n])
    BY <1>1 DEF TlsInMatrix
  <1>3. ASSUME NEW n \in 1 .. Len(Ciphers), CipherSelected(Ciphers[n])
        PROVE  TlsSelected # {}
    <2>1. CASE options["--benchmark"] = "transfer"
      <3>1. <<n, 1>> \in (1 .. Len(Ciphers)) \X (0 .. Len(Sizes))
        BY <1>1
      <3>. QED BY <1>3, <2>1, <3>1 DEF TlsSelected, CipherSelected
    <2>2. CASE options["--benchmark"] # "transfer"
      <3>1. <<n, 0>> \in (1 .. Len(Ciphers)) \X (0 .. Len(Sizes))
        BY <1>1
      <3>. QED BY <1>3, <2>2, <3>1 DEF TlsSelected, CipherSelected, TlsInMatrix
    <2>. QED BY <2>1, <2>2
  <1>4. ASSUME NEW d \in TlsSelected
        PROVE  \E n \in 1 .. Len(Ciphers) : CipherSelected(Ciphers[n])
    BY DEF TlsSelected, CipherSelected
  <1>. QED BY <1>2, <1>3, <1>4

LEMMA TlsCheckKept ==
  ASSUME TlsMainAssumption, TlsInv, TlsCheck
  PROVE  TlsInv'
  <1>1. /\ pc = "check" /\ ran = << >> /\ c = 1 /\ s = 0 /\ matched = FALSE /\ ParseInv
        /\ UNCHANGED <<argv, i, options, size_set, c, s, matched, ran>>
        /\ \/ pc' = "matrix" /\ options["--benchmark"] \in {"all", "handshake", "transfer"}
           \/ pc' = "exit" /\ status' = 2
    BY DEF TlsInv, TlsCheck, Exit, TlsLoops
  <1>2. ParseInv'
    <2>1. i > Len(argv)
      BY <1>1 DEF ParseInv
    <2>. QED BY <1>1, <2>1, ParsedKept
  <1>3. ASSUME pc' = "exit"
        PROVE  status' \in {0, 1, 2} /\ TlsStatusHonest'
    BY <1>1, <1>3 DEF TlsStatusHonest
  <1>4. ASSUME pc' = "matrix"
        PROVE  TlsInMatrix'
    <2>1. TlsDone' = TlsDone /\ TlsMatrix' = TlsMatrix /\ Sizes' = Sizes
      BY <1>1, TlsSame DEF TlsDone, TlsPlace, TlsBefore
    <2>2. Cardinality(TlsDone) = 0
      BY <1>1, TlsStart, FS_EmptySet
    <2>3. ran' = [k \in 1 .. Cardinality(TlsDone') |-> TlsMatrix'[k]]
      BY <1>1, <2>1, <2>2
    <2>4. /\ c' \in 1 .. Len(Ciphers) + 1 /\ s' \in 0 .. Len(Sizes) /\ s' = 0
          /\ ~\E n \in 1 .. Len(Ciphers) : n < c' \/ (n = c' /\ s' > 0)
      BY <1>1, TlsConstants, TlsSizes
    <2>. QED BY <1>1, <1>4, <2>1, <2>3, <2>4 DEF TlsInMatrix
  <1>. QED BY <1>1, <1>2, <1>3, <1>4 DEF TlsInv

LEMMA TlsSkipCipherKept ==
  ASSUME TlsMainAssumption, TlsInv, SkipCipher
  PROVE  TlsInv'
  <1>1. /\ pc = "matrix" /\ pc' = pc /\ c <= Len(Ciphers) /\ c' = c + 1
        /\ ~CipherSelected(Ciphers[c])
        /\ UNCHANGED <<argv, i, options, size_set, status, s, matched, ran>> /\ TlsInMatrix /\ ParseInv
    BY DEF SkipCipher, TlsInv
  <1>2. /\ s = 0 /\ c \in Int /\ c >= 1 /\ Len(Ciphers) \in Nat
        /\ Len(Sizes) \in Nat /\ Len(Sizes) >= 1
    BY <1>1, TlsConstants, TlsSizes DEF TlsInMatrix
  <1>3. TlsSelected' = TlsSelected /\ TlsMatrix' = TlsMatrix /\ Sizes' = Sizes
    BY <1>1, TlsSame
  <1>4. \A d \in TlsSelected : TlsBefore(d, <<c + 1, 0>>) <=> TlsBefore(d, <<c, 0>>)
    <2>1. \A d \in TlsSelected : d \in Int \X (0 .. Len(Sizes)) /\ d[1] # c
      BY <1>1, <1>2 DEF TlsSelected, CipherSelected
    <2>. QED BY <1>2, <2>1, TlsEarlier
  <1>5. TlsDone' = TlsDone
    BY <1>1, <1>2, <1>3, <1>4 DEF TlsDone, TlsPlace, TlsBefore
  <1>6. c' \in 1 .. Len(Ciphers) + 1 /\ s' \in 0 .. Len(Sizes)
    BY <1>1, <1>2
  <1>7. matched' <=> \E n \in 1 .. Len(Ciphers) :
                       CipherSelected(Ciphers[n]) /\ (n < c' \/ (n = c' /\ s' > 0))
    <2>1. matched <=> \E n \in 1 .. Len(Ciphers) : CipherSelected(Ciphers[n]) /\ n < c
      BY <1>1, <1>2 DEF TlsInMatrix
    <2>2. \A n \in 1 .. Len(Ciphers) :
            CipherSelected(Ciphers[n]) => (n < c + 1 <=> n < c)
      BY <1>1, <1>2
    <2>. QED BY <1>1, <1>2, <2>1, <2>2
  <1>8. TlsInMatrix'
    BY <1>1, <1>2, <1>3, <1>5, <1>6, <1>7 DEF TlsInMatrix, CipherSelected
  <1>9. ParseInv'
    BY <1>1, ParsedKept DEF ParseInv
  <1>. QED BY <1>1, <1>8, <1>9 DEF TlsInv

(* Where the flag and the place stand after a case is passed.              *)
LEMMA TlsPassed ==
  ASSUME TlsMainAssumption, TlsInMatrix, AtCase, TlsAdvance,
         options' = options, size_set' = size_set, matched' = TRUE,
         ran' = [k \in 1 .. Cardinality(TlsDone') |-> TlsMatrix[k]]
  PROVE  TlsInMatrix'
  <1>1. /\ c' \in 1 .. Len(Ciphers) + 1 /\ s' \in 0 .. Len(Sizes)
        /\ c' = c \/ s' = 0
        /\ c < c' \/ (c = c' /\ s' > 0)
    BY TlsAdvanced
  <1>2. TlsMatrix' = TlsMatrix /\ Sizes' = Sizes
    BY TlsSame
  <1>3. c \in 1 .. Len(Ciphers) /\ CipherSelected(Ciphers[c])
    BY TlsConstants DEF TlsInMatrix, AtCase
  <1>4. (c' <= Len(Ciphers) /\ CipherSelected(Ciphers[c])') \/ s' = 0
    BY <1>1, <1>3 DEF CipherSelected
  <1>5. \E n \in 1 .. Len(Ciphers) :
          options'["--cipher"] \in {"all", Ciphers[n]} /\ (n < c' \/ (n = c' /\ s' > 0))
    BY <1>1, <1>3 DEF CipherSelected
  <1>. QED BY <1>1, <1>2, <1>4, <1>5 DEF TlsInMatrix, CipherSelected

LEMMA TlsSkipBenchmarkKept ==
  ASSUME TlsMainAssumption, TlsInv, SkipBenchmark
  PROVE  TlsInv'
  <1>1. /\ pc = "matrix" /\ pc' = pc /\ AtCase /\ TlsAdvance /\ matched' = TRUE
        /\ ~BenchmarkSelected(s)
        /\ UNCHANGED <<argv, i, options, size_set, status, ran>> /\ TlsInMatrix /\ ParseInv
    BY DEF SkipBenchmark, AtCase, TlsInv
  <1>2. TlsPlace \notin TlsSelected
    BY <1>1 DEF TlsPlace, TlsSelected, BenchmarkSelected
  <1>3. TlsDone' = TlsDone
    BY <1>1, <1>2, TlsAdvanced
  <1>4. TlsInMatrix'
    <2>1. ran' = [k \in 1 .. Cardinality(TlsDone') |-> TlsMatrix[k]]
      BY <1>1, <1>3 DEF TlsInMatrix
    <2>. QED BY <1>1, <2>1, TlsPassed
  <1>5. ParseInv'
    BY <1>1, ParsedKept DEF ParseInv
  <1>. QED BY <1>1, <1>4, <1>5 DEF TlsInv

LEMMA TlsAtSelected ==
  ASSUME TlsMainAssumption, TlsInMatrix, TlsRuns
  PROVE  TlsPlace \in TlsSelected
  BY TlsConstants DEF TlsRuns, AtCase, TlsPlace, TlsSelected, BenchmarkSelected,
     CipherSelected, TlsInMatrix

LEMMA TlsRunCaseKept ==
  ASSUME TlsMainAssumption, TlsInv, TlsRunCase
  PROVE  TlsInv'
  <1>1. /\ pc = "matrix" /\ pc' = pc /\ AtCase /\ TlsAdvance /\ matched' = TRUE
        /\ ran' = Append(ran, CaseOf(s)) /\ TlsRuns
        /\ UNCHANGED <<argv, i, options, size_set, status>> /\ TlsInMatrix /\ ParseInv
    BY DEF TlsRunCase, TlsRuns, AtCase, TlsInv
  <1>2. TlsPlace \in TlsSelected
    BY <1>1, TlsAtSelected
  <1>3. TlsDone' = TlsDone \cup {TlsPlace}
    BY <1>1, <1>2, TlsAdvanced
  <1>4. Cardinality(TlsDone) \in Nat /\ TlsMatrix[Cardinality(TlsDone) + 1] = CaseOf(s)
    BY <1>1, <1>2, TlsNextCase
  <1>5. Cardinality(TlsDone') = Cardinality(TlsDone) + 1
    <2>1. IsFiniteSet(TlsDone)
      BY TlsFinite, FS_Subset DEF TlsDone
    <2>2. TlsPlace \notin TlsDone
      BY <1>1, TlsConstants DEF TlsDone, TlsPlace, TlsBefore, TlsInMatrix
    <2>. QED BY <1>3, <2>1, <2>2, FS_AddElement
  <1>6. ran' = [k \in 1 .. Cardinality(TlsDone) + 1 |-> TlsMatrix[k]]
    <2>1. ran = [k \in 1 .. Cardinality(TlsDone) |-> TlsMatrix[k]]
      BY <1>1 DEF TlsInMatrix
    <2>. QED BY <1>1, <1>4, <2>1, Appended
  <1>7. TlsInMatrix'
    BY <1>1, <1>5, <1>6, TlsPassed
  <1>8. ParseInv'
    BY <1>1, ParsedKept DEF ParseInv
  <1>. QED BY <1>1, <1>7, <1>8 DEF TlsInv

LEMMA TlsCaseFailsKept ==
  ASSUME TlsMainAssumption, TlsInv, TlsCaseFails
  PROVE  TlsInv'
  <1>1. /\ pc = "matrix" /\ pc' = "exit" /\ status' = 1 /\ TlsRuns
        /\ UNCHANGED <<argv, i, options, size_set, ran>> /\ TlsInMatrix /\ ParseInv
    BY DEF TlsCaseFails, Exit, TlsRuns, AtCase, TlsInv
  <1> DEFINE n == Cardinality(TlsDone)
             m == Cardinality(TlsSelected)
             M == TlsMatrix
  <1>2. n \in Nat /\ n + 1 \in 1 .. m /\ m \in Nat
    BY <1>1, TlsAtSelected, TlsNextCase, TlsFinite
  <1>3. M = [k \in 1 .. m |-> M[k]]
    BY DEF TlsMatrix
  <1>4. ran = [k \in 1 .. n |-> M[k]]
    BY <1>1 DEF TlsInMatrix
  <1>5. IsStrictPrefix(ran, M)
    <2> HIDE DEF n, m, M
    <2>1. n < m
      BY <1>2
    <2>. QED BY <1>2, <1>3, <1>4, <2>1, ProperPrefix
  <1>6. TlsStatusHonest'
    <2>1. IsStrictPrefix(ran', TlsMatrix')
      BY <1>1, <1>5, TlsSame DEF IsStrictPrefix, IsPrefix
    <2>. QED BY <1>1, <2>1 DEF TlsStatusHonest
  <1>7. ParseInv'
    BY <1>1, ParsedKept DEF ParseInv
  <1>. QED BY <1>1, <1>6, <1>7 DEF TlsInv

LEMMA TlsFinishKept ==
  ASSUME TlsMainAssumption, TlsInv, TlsFinish
  PROVE  TlsInv'
  <1>1. /\ pc = "matrix" /\ pc' = "exit" /\ status' = (IF matched THEN 0 ELSE 2)
        /\ c > Len(Ciphers)
        /\ UNCHANGED <<argv, i, options, size_set, ran>> /\ TlsInMatrix /\ ParseInv
    BY DEF TlsFinish, Exit, TlsLoops, TlsInv
  <1>2. ran = TlsMatrix /\ TlsMatrix' = TlsMatrix
    BY <1>1, TlsEnd, TlsWhole, TlsSame
  <1>3. matched <=> TlsSelected # {}
    BY <1>1, TlsMatched
  <1>4. Cardinality(TlsSelected) \in Nat /\ (Cardinality(TlsSelected) = 0 <=> TlsSelected = {})
    BY TlsFinite, FS_EmptySet
  <1>5. ran = << >> <=> Cardinality(TlsSelected) = 0
    BY <1>2, <1>4 DEF TlsMatrix
  <1>6. CASE matched
    <2>1. pc' = "exit" /\ status' = 0 /\ ran' = TlsMatrix' /\ ran' # << >>
      BY <1>1, <1>2, <1>3, <1>4, <1>5, <1>6
    <2>2. status' \in {0, 1, 2} /\ TlsStatusHonest'
      BY <2>1 DEF TlsStatusHonest
    <2>3. ParseInv'
      BY <1>1, ParsedKept DEF ParseInv
    <2>. QED BY <1>1, <2>2, <2>3 DEF TlsInv
  <1>7. CASE ~matched
    <2>1. pc' = "exit" /\ status' = 2 /\ ran' = << >>
      BY <1>1, <1>3, <1>4, <1>5, <1>7
    <2>2. status' \in {0, 1, 2} /\ TlsStatusHonest'
      BY <2>1 DEF TlsStatusHonest
    <2>3. ParseInv'
      BY <1>1, ParsedKept DEF ParseInv
    <2>. QED BY <1>1, <2>2, <2>3 DEF TlsInv
  <1>. QED BY <1>6, <1>7

LEMMA TlsParseKept ==
  ASSUME TlsMainAssumption, TlsInv, Parse, UNCHANGED <<TlsLoops, matched, ran>>
  PROVE  TlsInv'
  <1>1. ParseInv'
    BY TlsConstants, ParseKept DEF TlsInv
  <1>2. Parse /\ UNCHANGED <<c, s, matched, ran>>
    BY DEF TlsLoops
  <1>3. /\ pc = "parse" /\ ran = << >> /\ c = 1 /\ s = 0 /\ matched = FALSE
        /\ \/ pc' \in {"parse", "check"}
           \/ pc' = "exit" /\ status' = 0 /\ i <= Len(argv) /\ UNCHANGED <<argv, i>>
           \/ pc' = "exit" /\ status' = 2
    BY <1>2 DEF Parse, Stop, Missing, SetWord, SetNumber, Invalid, Parsed, Exit, Valued, TlsInv
  <1>4. ASSUME pc' = "exit"
        PROVE  status' \in {0, 1, 2} /\ TlsStatusHonest'
    <2>1. CASE status' = 0
      <3>1. ran' = << >> /\ i' <= Len(argv')
        BY <1>2, <1>3, <1>4, <2>1
      <3>. QED BY <2>1, <3>1 DEF TlsStatusHonest
    <2>2. CASE status' = 2
      <3>1. ran' = << >>
        BY <1>2, <1>3
      <3>. QED BY <2>2, <3>1 DEF TlsStatusHonest
    <2>. QED BY <1>3, <1>4, <2>1, <2>2
  <1>. QED BY <1>1, <1>2, <1>3, <1>4 DEF TlsInv

LEMMA TlsNextInv ==
  ASSUME TlsMainAssumption, TlsInv, [TlsNext]_(TlsVars)
  PROVE  TlsInv'
  <1>1. CASE UNCHANGED TlsVars
    <2>1. UNCHANGED <<pc, argv, i, options, size_set, status, c, s, matched, ran>>
      BY <1>1 DEF TlsVars, TlsLoops
    <2>2. ParseInv'
      BY <2>1, ParsedKept DEF TlsInv, ParseInv
    <2>3. TlsSelected' = TlsSelected /\ TlsMatrix' = TlsMatrix /\ Sizes' = Sizes
      BY <2>1, TlsSame
    <2>4. TlsDone' = TlsDone
      BY <2>1, <2>3 DEF TlsDone, TlsPlace, TlsBefore
    <2>5. TlsInMatrix => TlsInMatrix'
      BY <2>1, <2>3, <2>4 DEF TlsInMatrix, CipherSelected
    <2>6. TlsStatusHonest => TlsStatusHonest'
      BY <2>1, <2>3 DEF TlsStatusHonest, IsStrictPrefix, IsPrefix
    <2>. QED BY <2>1, <2>2, <2>5, <2>6 DEF TlsInv
  <1>. QED
    BY <1>1, TlsParseKept, TlsCheckKept, TlsSkipCipherKept, TlsSkipBenchmarkKept,
       TlsRunCaseKept, TlsCaseFailsKept, TlsFinishKept
       DEF TlsNext, TlsTerminated

LEMMA TlsInitInv ==
  ASSUME TlsMainAssumption, TlsInit
  PROVE  TlsInv
  <1>1. CliInit /\ c = 1 /\ s = 0 /\ matched = FALSE /\ ran = << >>
    BY DEF TlsInit, CliInit
  <1>2. ParseInv
    BY <1>1, TlsConstants, ParseInit
  <1>. QED BY <1>1, <1>2 DEF TlsInv, CliInit

LEMMA TlsAlways ==
  ASSUME TlsMainAssumption
  PROVE  TlsSpec => []TlsInv
  <1>1. TlsInit => TlsInv
    BY TlsInitInv
  <1>2. TlsInv /\ [TlsNext]_(TlsVars) => TlsInv'
    BY TlsNextInv
  <1>. QED BY <1>1, <1>2, PTL DEF TlsSpec

-----------------------------------------------------------------------------
(* Theorems about TlsMain                                                  *)

(* The same of the options of the TLS program.                             *)
THEOREM TlsOptionsExact ==
  ASSUME TlsMainAssumption
  PROVE  TlsSpec => []OptionsExact
  <1>1. TlsInv => OptionsExact
    BY TlsConstants, ParseExact DEF TlsInv
  <1>2. TlsSpec => []TlsInv
    BY TlsAlways
  <1>. QED BY <1>1, <1>2, PTL

(* For any lists of ciphers and sizes, the exit status of src/tls_main.c   *)
(* tells what was printed, and success means that something was.           *)
THEOREM TlsExitStatusHonest ==
  ASSUME TlsMainAssumption
  PROVE  TlsSpec => []TlsStatusHonest
  <1>1. TlsInv => TlsStatusHonest
    BY DEF TlsInv, TlsStatusHonest
  <1>2. TlsSpec => []TlsInv
    BY TlsAlways
  <1>. QED BY <1>1, <1>2, PTL

(* The flag by which src/tls_main.c tells an unsupported cipher agrees     *)
(* with the list of ciphers, whichever benchmark was asked for.            *)
THEOREM TlsMatchedExact ==
  ASSUME TlsMainAssumption
  PROVE  TlsSpec => []MatchedExact
  <1>1. ASSUME TlsInv
        PROVE  MatchedExact
    <2>1. TlsInMatrix /\ c > Len(Ciphers) =>
            (matched <=> \E n \in 1 .. Len(Ciphers) : CipherSelected(Ciphers[n]))
      BY TlsMatched
    <2>. QED BY <1>1, <2>1 DEF MatchedExact, TlsInv, CipherSelected
  <1>2. TlsSpec => []TlsInv
    BY TlsAlways
  <1>. QED BY <1>1, <1>2, PTL
==============================================================================
