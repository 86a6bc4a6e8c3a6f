---------------------------- MODULE PipelineProofs ----------------------------
(***************************************************************************)
(* Proofs about Pipeline and Summary, for every set of architectures,      *)
(* every matrix the programs run, every number of samples and all rates    *)
(* they may measure: what a job shows or uploads is whole, and what is     *)
(* published are the medians of all experiments, each of a single run.     *)
(***************************************************************************)
EXTENDS Pipeline, FiniteSetTheorems, WellFoundedInduction, TLAPS

-----------------------------------------------------------------------------
(* Numbers                                                                 *)

(* A set of numbers has a least one.                                       *)
LEMMA LeastNatural ==
  ASSUME NEW T \in SUBSET Nat, T # {}
  PROVE  \E n \in T : \A k \in T : n <= k
  <1>1. PICK n \in T : \A k \in T : ~(<<k, n>> \in OpToRel(<, Nat))
    BY WFMin, NatLessThanWellFounded
  <1>2. \A k \in T : ~(k < n)
    BY <1>1 DEF OpToRel
  <1>. QED BY <1>2

(* Of finitely many numbers one is the largest.                            *)
LEMMA Largest ==
  ASSUME NEW D, IsFiniteSet(D), D # {}, NEW f, \A i \in D : f[i] \in Nat
  PROVE  \E i \in D : \A j \in D : f[j] <= f[i]
  <1> DEFINE Above(i) == {j \in D : f[i] < f[j]}
             T == {Cardinality(Above(i)) : i \in D}
  <1>1. \A i \in D : IsFiniteSet(Above(i)) /\ Cardinality(Above(i)) \in Nat
    BY FS_Subset, FS_CardinalityType
  <1>2. T \in SUBSET Nat /\ T # {}
    BY <1>1
  <1>3. PICK i \in D : \A j \in D : Cardinality(Above(i)) <= Cardinality(Above(j))
    <2> HIDE DEF Above
    <2>1. PICK n \in T : \A k \in T : n <= k
      <3> HIDE DEF T
      <3>. QED BY <1>2, LeastNatural
    <2>. QED BY <2>1
  <1>4. ASSUME NEW j \in D, f[i] < f[j] PROVE FALSE
    <2>1. Above(j) \in SUBSET Above(i) /\ j \in Above(i) /\ j \notin Above(j)
      BY <1>4
    <2> HIDE DEF Above
    <2>2. Cardinality(Above(j)) = Cardinality(Above(i)) => Above(j) = Above(i)
      BY <1>1, <2>1, FS_Subset
    <2>3. Cardinality(Above(j)) <= Cardinality(Above(i))
      BY <1>1, <2>1, FS_Subset
    <2>. QED BY <1>1, <1>3, <2>1, <2>2, <2>3
  <1>5. \A j \in D : f[j] <= f[i]
    BY <1>4
  <1>. QED BY <1>5

(* A dividend is its quotient and its remainder.                           *)
LEMMA Division ==
  ASSUME NEW x \in Nat, NEW n \in Nat \ {0}
  PROVE  /\ x \div n \in Nat /\ x % n \in 0 .. n - 1
         /\ x = n * (x \div n) + (x % n)
  OBVIOUS

(* Where the s-th of n samples of the k-th case is, and back.              *)
LEMMA Folded ==
  ASSUME NEW n \in Nat \ {0}, NEW k \in Nat \ {0}, NEW s \in 1 .. n
  PROVE  /\ (k - 1) * n + s \in Nat \ {0}
         /\ ((((k - 1) * n + s) - 1) \div n) + 1 = k
         /\ ((((k - 1) * n + s) - 1) % n) + 1 = s
  <1> DEFINE x == ((k - 1) * n + s) - 1
  <1>1. PICK j \in Nat : j = k - 1
    OBVIOUS
  <1>2. PICK t \in Nat : t = s - 1 /\ t < n
    OBVIOUS
  <1>3. x = j * n + t /\ j * n \in Nat
    BY <1>1, <1>2
  <1>4. x \in Nat
    BY <1>3
  <1>5. x \div n = j /\ x % n = t
    <2>0. PICK q \in Nat : q = x \div n
      BY <1>4, Division
    <2>1. PICK r \in 0 .. n - 1 : r = x % n
      BY <1>4, Division
    <2>2. x = n * q + r
      BY <1>4, <2>0, <2>1, Division
    <2> HIDE DEF x
    <2>3. ASSUME q < j PROVE FALSE
      <3>1. PICK d \in Nat : j = q + 1 + d
        BY <2>3, j - q - 1 \in Nat, j = q + 1 + (j - q - 1)
      <3>2. j * n = n * q + n + d * n /\ d * n \in Nat /\ n * q \in Nat
        BY <3>1
      <3>. QED BY <1>2, <1>3, <2>2, <3>2
    <2>4. ASSUME j < q PROVE FALSE
      <3>1. PICK d \in Nat : q = j + 1 + d
        BY <2>4, q - j - 1 \in Nat, q = j + 1 + (q - j - 1)
      <3>2. n * q = j * n + n + d * n /\ d * n \in Nat /\ j * n \in Nat
        BY <3>1
      <3>. QED BY <1>2, <1>3, <2>2, <3>2
    <2>5. q = j
      BY <2>3, <2>4
    <2>. QED BY <1>3, <2>0, <2>1, <2>2, <2>5
  <1> HIDE DEF x
  <1>6. (k - 1) * n + s = x + 1
    BY DEF x
  <1>. QED BY <1>1, <1>2, <1>4, <1>5, <1>6 DEF x

(* Every line of a file is that of a sample of a case.                     *)
LEMMA Unfolded ==
  ASSUME NEW n \in Nat \ {0}, NEW m \in Nat, NEW l \in 1 .. m * n
  PROVE  \E k \in 1 .. m, s \in 1 .. n : l = (k - 1) * n + s
  <1>0. l - 1 \in Nat
    OBVIOUS
  <1>1. PICK q \in Nat : q = (l - 1) \div n
    BY <1>0, Division
  <1>2. PICK r \in 0 .. n - 1 : r = (l - 1) % n
    BY <1>0, Division
  <1>3. l - 1 = n * q + r
    BY <1>0, <1>1, <1>2, Division
  <1>4. ASSUME m <= q PROVE FALSE
    <2>1. PICK d \in Nat : q = m + d
      BY <1>4, q - m \in Nat, q = m + (q - m)
    <2>2. n * q = m * n + d * n /\ d * n \in Nat /\ m * n \in Nat
      BY <2>1
    <2>. QED BY <1>3, <2>2
  <1>5. q + 1 \in 1 .. m /\ r + 1 \in 1 .. n /\ (q + 1) - 1 = q
    BY <1>4
  <1>6. l = ((q + 1) - 1) * n + (r + 1)
    <2>1. (q + 1) - 1 = q /\ q * n = n * q /\ n * q \in Nat
      OBVIOUS
    <2>. QED BY <1>3, <2>1
  <1>. QED BY <1>5, <1>6

(* The k-th case takes its samples within the file.                        *)
LEMMA Within ==
  ASSUME NEW n \in Nat \ {0}, NEW m \in Nat, NEW k \in 1 .. m, NEW s \in 1 .. n
  PROVE  (k - 1) * n + s \in 1 .. m * n
  <1>1. PICK j \in Nat : j = k - 1
    OBVIOUS
  <1>2. PICK d \in Nat : m = j + 1 + d
    BY <1>1, m - k \in Nat, m = k + (m - k)
  <1>3. m * n = j * n + n + d * n /\ d * n \in Nat /\ j * n \in Nat
    BY <1>2
  <1>. QED BY <1>1, <1>3

-----------------------------------------------------------------------------
(* Medians                                                                 *)

Below(samples, v) == Cardinality({i \in DOMAIN samples : samples[i] < v})
UpTo(samples, v) == Cardinality({i \in DOMAIN samples : samples[i] <= v})

(* Not more samples are counted than there are.                            *)
LEMMA Counts ==
  ASSUME NEW samples, IsFiniteSet(DOMAIN samples), NEW v
  PROVE  /\ Below(samples, v) \in Nat /\ UpTo(samples, v) \in Nat
         /\ Below(samples, v) <= Cardinality(DOMAIN samples)
         /\ UpTo(samples, v) <= Cardinality(DOMAIN samples)
  BY FS_Subset, FS_CardinalityType DEF Below, UpTo

(* There is a sample at every rank.                                        *)
LEMMA RankedExists ==
  ASSUME NEW samples, IsFiniteSet(DOMAIN samples), \A i \in DOMAIN samples : samples[i] \in Nat,
         NEW rank \in 1 .. Cardinality(DOMAIN samples)
  PROVE  \E i \in DOMAIN samples : Below(samples, samples[i]) < rank /\ UpTo(samples, samples[i]) >= rank
  <1> DEFINE D == DOMAIN samples
             T == {n \in Nat : UpTo(samples, n) >= rank}
  <1>0. Cardinality(D) \in Nat /\ D # {}
    BY FS_CardinalityType, FS_EmptySet
  <1>1. T # {}
    <2>1. PICK i \in D : \A j \in D : samples[j] <= samples[i]
      BY <1>0, Largest
    <2>2. {j \in D : samples[j] <= samples[i]} = D
      BY <2>1
    <2>3. UpTo(samples, samples[i]) = Cardinality(D)
      BY <2>2 DEF UpTo
    <2>. QED BY <1>0, <2>3
  <1>2. PICK n \in T : \A k \in T : n <= k
    <2>1. T \in SUBSET Nat
      OBVIOUS
    <2> HIDE DEF T
    <2>. QED BY <1>1, <2>1, LeastNatural
  <1>3. n \in Nat /\ UpTo(samples, n) >= rank /\ rank \in Nat /\ rank >= 1
    BY <1>0, <1>2
  <1>4. Below(samples, n) \in Nat /\ UpTo(samples, n) \in Nat
    BY Counts
  <1>5. Below(samples, n) < rank
    <2>1. CASE n = 0
      <3>1. {i \in D : samples[i] < n} = {}
        BY <2>1
      <3>. QED BY <1>3, <3>1, FS_EmptySet DEF Below
    <2>2. CASE n # 0
      <3>1. n - 1 \in Nat /\ ~(n <= n - 1)
        BY <1>3, <2>2
      <3>2. ~(UpTo(samples, n - 1) >= rank)
        BY <1>2, <3>1
      <3>3. {i \in D : samples[i] < n} = {i \in D : samples[i] <= n - 1}
        BY <1>3
      <3>4. Below(samples, n) = UpTo(samples, n - 1)
        BY <3>3 DEF Below, UpTo
      <3>. QED BY <1>3, <1>4, <3>2, <3>4
    <2>. QED BY <2>1, <2>2
  <1>6. \E i \in D : samples[i] = n
    <2>1. SUFFICES ASSUME \A i \in D : samples[i] # n PROVE FALSE
      OBVIOUS
    <2>2. {i \in D : samples[i] < n} = {i \in D : samples[i] <= n}
      BY <1>3, <2>1
    <2>3. Below(samples, n) = UpTo(samples, n)
      BY <2>2 DEF Below, UpTo
    <2>. QED BY <1>3, <1>4, <1>5, <2>3
  <1>. QED BY <1>3, <1>5, <1>6

(* Ranked finds the sample at its rank.                                    *)
LEMMA RankedRight ==
  ASSUME NEW samples, IsFiniteSet(DOMAIN samples), \A i \in DOMAIN samples : samples[i] \in Nat,
         NEW rank \in 1 .. Cardinality(DOMAIN samples)
  PROVE  LET v == Ranked(samples, rank)
         IN  /\ \E i \in DOMAIN samples : samples[i] = v
             /\ Below(samples, v) < rank /\ UpTo(samples, v) >= rank
  <1>1. \E v \in {samples[i] : i \in DOMAIN samples} :
          Below(samples, v) < rank /\ UpTo(samples, v) >= rank
    BY RankedExists
  <1>. QED BY <1>1 DEF Ranked, Below, UpTo

(* statistics.median, wherever the samples lie among the rows: no more     *)
(* than half of them are on either side of it, and that of zeros is zero   *)
(* (aggregate of scripts/summarize_results.py).                            *)
THEOREM MedianInTheMiddle ==
  ASSUME NEW samples, IsFiniteSet(DOMAIN samples), \A i \in DOMAIN samples : samples[i] \in Nat,
         DOMAIN samples # {}
  PROVE  LET m == Median2(samples)
             n == Cardinality(DOMAIN samples)
         IN  /\ m \in Nat
             /\ 2 * Cardinality({i \in DOMAIN samples : 2 * samples[i] < m}) <= n
             /\ 2 * Cardinality({i \in DOMAIN samples : 2 * samples[i] > m}) <= n
             /\ (\A i \in DOMAIN samples : samples[i] = 0) => m = 0
  <1> DEFINE D == DOMAIN samples
             n == Cardinality(D)
             r == (n + 1) \div 2
             q == n \div 2 + 1
             a == Ranked(samples, r)
             b == Ranked(samples, q)
             less == {i \in D : 2 * samples[i] < a + b}
             more == {i \in D : 2 * samples[i] > a + b}
  <1>1. n \in Nat /\ n >= 1
    BY FS_CardinalityType, FS_EmptySet
  <1>2. r \in 1 .. n /\ q \in 1 .. n /\ r <= q /\ 2 * r >= n /\ 2 * (q - 1) <= n
    <2> HIDE DEF n
    <2>. QED BY <1>1
  <1>3. Median2(samples) = a + b
    BY DEF Median2
  <1>4. /\ \E i \in D : samples[i] = a
        /\ Below(samples, a) < r /\ UpTo(samples, a) >= r
        /\ \E i \in D : samples[i] = b
        /\ Below(samples, b) < q /\ UpTo(samples, b) >= q
    <2> HIDE DEF r, q
    <2>. QED BY <1>2, RankedRight
  <1>5. a \in Nat /\ b \in Nat
    BY <1>4
  <1>10. (\A i \in D : samples[i] = 0) => a = 0 /\ b = 0
    BY <1>4
  <1> HIDE DEF r, q, a, b
  <1>6. \A v : Below(samples, v) \in Nat /\ UpTo(samples, v) \in Nat
    BY Counts
  <1>7. a <= b
    <2> SUFFICES ASSUME b < a PROVE FALSE
      BY <1>5
    <2>1. {i \in D : samples[i] <= b} \in SUBSET {i \in D : samples[i] < a}
      BY <1>5
    <2>2. IsFiniteSet({i \in D : samples[i] < a})
      BY FS_Subset
    <2>3. UpTo(samples, b) <= Below(samples, a)
      BY <2>1, <2>2, FS_Subset DEF UpTo, Below
    <2>. QED BY <1>2, <1>4, <1>6, <2>3
  <1>8. 2 * Cardinality(less) <= n
    <2>1. less \in SUBSET {i \in D : samples[i] < b}
      BY <1>5, <1>7
    <2>2. IsFiniteSet({i \in D : samples[i] < b})
      BY FS_Subset
    <2> HIDE DEF less, n
    <2>3. Cardinality(less) <= Below(samples, b) /\ Cardinality(less) \in Nat
      BY <2>1, <2>2, FS_Subset, FS_CardinalityType DEF Below
    <2>. QED BY <1>1, <1>2, <1>4, <1>6, <2>3
  <1>9. 2 * Cardinality(more) <= n
    <2> DEFINE low == {i \in D : samples[i] <= a}
    <2>1. more \cap low = {}
      BY <1>5, <1>7
    <2>2. more \cup low \in SUBSET D
      OBVIOUS
    <2>3. IsFiniteSet(more) /\ IsFiniteSet(low)
      BY FS_Subset
    <2> HIDE DEF more, low
    <2>4. Cardinality(more \cup low) = Cardinality(more) + Cardinality(low) - Cardinality(more \cap low)
      BY <2>3, FS_Union
    <2>5. Cardinality(more \cap low) = 0 /\ Cardinality(more) \in Nat /\ Cardinality(low) \in Nat
      BY <2>1, <2>3, FS_EmptySet, FS_CardinalityType
    <2>6. Cardinality(more \cup low) <= n
      BY <2>2, FS_Subset
    <2>7. Cardinality(low) = UpTo(samples, a)
      BY DEF low, UpTo
    <2> HIDE DEF n
    <2>. QED BY <1>1, <1>2, <1>4, <2>4, <2>5, <2>6, <2>7
  <1>. QED BY <1>3, <1>5, <1>8, <1>9, <1>10

(* Publication counts as this module does.                                 *)
LEMMA SameCardinality == \A S : Published!Cardinality(S) = Cardinality(S)
  BY DEF Published!Cardinality, Cardinality

(* The samples are the n numbers of x, each of them kept in place g.       *)
Renamed(n, x, g, samples) ==
  /\ x \in [1 .. n -> Nat]
  /\ \A s, t \in 1 .. n : g[s] = g[t] => s = t
  /\ \A s \in 1 .. n : g[s] \in DOMAIN samples /\ samples[g[s]] = x[s]
  /\ \A i \in DOMAIN samples : \E s \in 1 .. n : i = g[s]

(* Renaming the samples does not change their median.                      *)
LEMMA MedianOf ==
  ASSUME NEW n \in Nat \ {0}, NEW x, NEW g, NEW samples, Renamed(n, x, g, samples)
  PROVE  /\ Published!IsMedian2(Median2(samples), x)
         /\ Median2(samples) \in Nat
         /\ (\A s \in 1 .. n : x[s] = 0) => Median2(samples) = 0
  <1> DEFINE D == DOMAIN samples
             m == Median2(samples)
  <1>r. /\ x \in [1 .. n -> Nat]
        /\ \A s, t \in 1 .. n : g[s] = g[t] => s = t
        /\ \A s \in 1 .. n : g[s] \in D /\ samples[g[s]] = x[s]
        /\ \A i \in D : \E s \in 1 .. n : i = g[s]
    BY DEF Renamed
  <1>0. IsFiniteSet(1 .. n) /\ 1 \in 1 .. n
    BY FS_Interval
  <1>1. ASSUME NEW T \in SUBSET (1 .. n), NEW U, U = {g[s] : s \in T}
        PROVE  IsFiniteSet(U) /\ Cardinality(U) = Cardinality(T)
    <2> DEFINE h == [s \in T |-> g[s]]
    <2>1. h \in Bijection(T, U)
      <3>1. h \in [T -> U] /\ \A s, t \in T : h[s] = h[t] => s = t
        BY <1>1, <1>r
      <3>2. \A u \in U : \E s \in T : h[s] = u
        BY <1>1
      <3> HIDE DEF h
      <3>. QED BY <3>1, <3>2 DEF Bijection, Injection, Surjection, IsInjective
    <2>2. ExistsBijection(T, U)
      BY <2>1 DEF ExistsBijection
    <2>3. IsFiniteSet(T)
      BY <1>0, FS_Subset
    <2>. QED BY <2>2, <2>3, FS_Bijection
  <1>2. IsFiniteSet(D) /\ Cardinality(D) = Cardinality(1 .. n)
    <2>1. \A i \in {g[s] : s \in 1 .. n} : i \in D
      BY <1>r
    <2>2. \A i \in D : i \in {g[s] : s \in 1 .. n}
      BY <1>r
    <2>3. D = {g[s] : s \in 1 .. n}
      BY <2>1, <2>2
    <2>. QED BY <1>1, <2>3
  <1>i. \A i \in D : \E s \in 1 .. n : i = g[s] /\ samples[i] = x[s]
    <2> SUFFICES ASSUME NEW i \in D PROVE \E s \in 1 .. n : i = g[s] /\ samples[i] = x[s]
      OBVIOUS
    <2>1. PICK s \in 1 .. n : i = g[s]
      BY <1>r
    <2>2. samples[g[s]] = x[s]
      BY <1>r
    <2>. QED BY <2>1, <2>2
  <1>s. \A s \in 1 .. n : g[s] \in D /\ samples[g[s]] = x[s] /\ x[s] \in Nat
    BY <1>r
  <1>3. D # {} /\ \A i \in D : samples[i] \in Nat
    <2>1. g[1] \in D
      BY <1>0, <1>s
    <2>2. ASSUME NEW i \in D PROVE samples[i] \in Nat
      BY <1>i, <1>s
    <2>. QED BY <2>1, <2>2
  <1>4. /\ m \in Nat
        /\ 2 * Cardinality({i \in D : 2 * samples[i] < m}) <= Cardinality(D)
        /\ 2 * Cardinality({i \in D : 2 * samples[i] > m}) <= Cardinality(D)
        /\ (\A i \in D : samples[i] = 0) => m = 0
    BY <1>2, <1>3, MedianInTheMiddle
  <1> HIDE DEF m
  <1>5. Cardinality({s \in 1 .. n : 2 * x[s] < m}) = Cardinality({i \in D : 2 * samples[i] < m})
    <2> DEFINE T == {t \in 1 .. n : 2 * x[t] < m}
               U == {i \in D : 2 * samples[i] < m}
    <2>1. ASSUME NEW i \in U PROVE \E s \in T : i = g[s]
      BY <1>i
    <2>2. ASSUME NEW s \in T PROVE g[s] \in U
      BY <1>s
    <2>3. T \in SUBSET (1 .. n)
      OBVIOUS
    <2> HIDE DEF T, U
    <2>4. U = {g[s] : s \in T}
      BY <2>1, <2>2
    <2>5. Cardinality(U) = Cardinality(T)
      BY <1>1, <2>3, <2>4
    <2>. QED BY <2>5 DEF T, U
  <1>6. Cardinality({s \in 1 .. n : 2 * x[s] > m}) = Cardinality({i \in D : 2 * samples[i] > m})
    <2> DEFINE T == {t \in 1 .. n : 2 * x[t] > m}
               U == {i \in D : 2 * samples[i] > m}
    <2>1. ASSUME NEW i \in U PROVE \E s \in T : i = g[s]
      BY <1>i
    <2>2. ASSUME NEW s \in T PROVE g[s] \in U
      BY <1>s
    <2>3. T \in SUBSET (1 .. n)
      OBVIOUS
    <2> HIDE DEF T, U
    <2>4. U = {g[s] : s \in T}
      BY <2>1, <2>2
    <2>5. Cardinality(U) = Cardinality(T)
      BY <1>1, <2>3, <2>4
    <2>. QED BY <2>5 DEF T, U
  <1>7. Published!IsMedian2(m, x)
    <2>1. DOMAIN x = 1 .. n
      BY <1>r
    <2>2. /\ 2 * Cardinality({s \in 1 .. n : 2 * x[s] < m}) <= Cardinality(1 .. n)
          /\ 2 * Cardinality({s \in 1 .. n : 2 * x[s] > m}) <= Cardinality(1 .. n)
      BY <1>2, <1>4, <1>5, <1>6
    <2>. QED BY <2>1, <2>2, SameCardinality DEF Published!IsMedian2
  <1>8. (\A s \in 1 .. n : x[s] = 0) => m = 0
    BY <1>4, <1>i
  <1>. QED BY <1>4, <1>7, <1>8 DEF m

-----------------------------------------------------------------------------
(* Cells and the rows of result files                                      *)

AllBackends == {"openssl", "libressl", "libressl-patched"}
Programs == {"aead", "tls"}

(* The file of a run that was not interrupted.                             *)
Whole(arch, backend, program) ==
  [run |-> <<backend, program>>, architecture |-> arch, version |-> "pinned",
   kept |-> RowCount(<<backend, program>>), cut |-> FALSE]

(* The files of all runs, and nothing else.                                *)
AllWhole(files) ==
  /\ DOMAIN files = {<<b, a, p>> : a \in Architectures, b \in AllBackends, p \in Programs}
  /\ \A a \in Architectures, b \in AllBackends, p \in Programs :
       files[<<b, a, p>>] = Whole(a, b, p)

(* A cell of a table: architecture, backend, program and case.             *)
Cells == {q \in Architectures \X AllBackends \X Programs \X Nat : q[4] \in 1 .. Len(Cases[q[3]])}

Index(q) == CHOOSE i \in 1 .. Len(Paths) : Paths[i] = <<q[2], q[1], q[3]>>

(* The line of a sample of it in its file, and its place among the rows.   *)
LineOf(k, s) == (k - 1) * Samples + s
LineCount(p) == Len(Cases[p]) * Samples
At(q, s) == <<Index(q), LineOf(q[4], s)>>

CaseOf(q) == Cases[q[3]][q[4]]
Rate(q) == rate[<<q[1], q[2], CaseOf(q).table, CaseOf(q).key>>]

Expected(q, s) ==
  [architecture |-> q[1], backend |-> q[2], version |-> "pinned",
   table |-> CaseOf(q).table, key |-> CaseOf(q).key, sample |-> s, rate |-> Rate(q)[s]]

(* The rows are one for each sample of each cell.                          *)
RowsKnown(rows) ==
  /\ DOMAIN rows = {At(qs[1], qs[2]) : qs \in Cells \X (1 .. Samples)}
  /\ \A q \in Cells, s \in 1 .. Samples : rows[At(q, s)] = Expected(q, s)

(* Numbers of cases and of rows.                                           *)
LEMMA CasesType ==
  /\ Samples \in Nat \ {0}
  /\ \A p \in Programs : /\ Len(Cases[p]) \in Nat \ {0}
                         /\ DOMAIN Cases[p] = 1 .. Len(Cases[p])
                         /\ \A b : RowCount(<<b, p>>) = Len(Cases[p]) * Samples
                         /\ \A b : RowCount(<<b, p>>) \in Nat
  <1>1. /\ Samples \in Nat \ {0}
        /\ \A p \in Programs : Len(Cases[p]) \in Nat \ {0} /\ DOMAIN Cases[p] = 1 .. Len(Cases[p])
    BY PipelineAssumption DEF Programs
  <1>2. \A p, b : RowCount(<<b, p>>) = Len(Cases[p]) * Samples
    BY DEF RowCount
  <1>. QED BY <1>1, <1>2

(* A line tells the case and the sample, and within a file every line does. *)
LEMMA LinesAre ==
  /\ \A k \in Nat \ {0}, s \in 1 .. Samples :
       ((LineOf(k, s) - 1) \div Samples) + 1 = k /\ ((LineOf(k, s) - 1) % Samples) + 1 = s
  /\ \A p \in Programs : \A k \in 1 .. Len(Cases[p]), s \in 1 .. Samples :
       LineOf(k, s) \in 1 .. LineCount(p)
  /\ \A p \in Programs : \A l \in 1 .. LineCount(p) :
       \E k \in 1 .. Len(Cases[p]), s \in 1 .. Samples : l = LineOf(k, s)
  /\ \A p \in Programs : LineCount(p) \in Nat /\ \A b : RowCount(<<b, p>>) = LineCount(p)
  <1>1. \A k \in Nat \ {0}, s \in 1 .. Samples :
          ((LineOf(k, s) - 1) \div Samples) + 1 = k /\ ((LineOf(k, s) - 1) % Samples) + 1 = s
    BY CasesType, Folded DEF LineOf
  <1>2. ASSUME NEW p \in Programs, NEW k \in 1 .. Len(Cases[p]), NEW s \in 1 .. Samples
        PROVE  LineOf(k, s) \in 1 .. LineCount(p)
    BY CasesType, Within DEF LineOf, LineCount
  <1>3. ASSUME NEW p \in Programs, NEW l \in 1 .. LineCount(p)
        PROVE  \E k \in 1 .. Len(Cases[p]), s \in 1 .. Samples : l = LineOf(k, s)
    BY CasesType, Unfolded DEF LineOf, LineCount
  <1>4. \A p \in Programs : LineCount(p) \in Nat /\ \A b : RowCount(<<b, p>>) = LineCount(p)
    BY CasesType DEF LineCount
  <1>. QED BY <1>1, <1>2, <1>3, <1>4

(* The runs of a job, by backend and program.                              *)
LEMMA RunsByBackend ==
  ASSUME NEW a \in Architectures
  PROVE  /\ \A r \in DOMAIN Runs(<<"openssl", a>>) : Runs(<<"openssl", a>>)[r] \in {"openssl"} \X Programs
         /\ \A p \in Programs : \E r \in DOMAIN Runs(<<"openssl", a>>) : Runs(<<"openssl", a>>)[r] = <<"openssl", p>>
         /\ \A r \in DOMAIN Runs(<<"libressl", a>>) : Runs(<<"libressl", a>>)[r] \in {"libressl", "libressl-patched"} \X Programs
         /\ \A b \in {"libressl", "libressl-patched"}, p \in Programs :
              \E r \in DOMAIN Runs(<<"libressl", a>>) : Runs(<<"libressl", a>>)[r] = <<b, p>>
  <1>1. /\ Backends["openssl"] = <<"openssl">> /\ Len(Backends["openssl"]) = 1
        /\ Backends["libressl"] = <<"libressl", "libressl-patched">> /\ Len(Backends["libressl"]) = 2
    BY DEF Backends
  <1>2. Runs(<<"openssl", a>>) = [i \in 1 .. 2 |-> <<"openssl", IF i = 1 THEN "aead" ELSE "tls">>]
    <2>0. 2 * 1 = 2
      OBVIOUS
    <2>1. Runs(<<"openssl", a>>) = [i \in 1 .. 2 |-> <<Backends["openssl"][(i + 1) \div 2], IF i % 2 = 1 THEN "aead" ELSE "tls">>]
      BY <1>1, <2>0, Zenon DEF Runs
    <2>2. \A i \in 1 .. 2 : (i + 1) \div 2 = 1 /\ (i % 2 = 1 <=> i = 1)
      OBVIOUS
    <2>. QED BY <1>1, <2>1, <2>2
  <1>3. Runs(<<"libressl", a>>) =
          [i \in 1 .. 4 |-> <<IF i <= 2 THEN "libressl" ELSE "libressl-patched",
                              IF i \in {1, 3} THEN "aead" ELSE "tls">>]
    <2>0. 2 * 2 = 4
      OBVIOUS
    <2>1. Runs(<<"libressl", a>>) = [i \in 1 .. 4 |-> <<Backends["libressl"][(i + 1) \div 2], IF i % 2 = 1 THEN "aead" ELSE "tls">>]
      BY <1>1, <2>0, Zenon DEF Runs
    <2>2. \A i \in 1 .. 4 : (i + 1) \div 2 = (IF i <= 2 THEN 1 ELSE 2) /\ (i % 2 = 1 <=> i \in {1, 3})
      OBVIOUS
    <2>. QED BY <1>1, <2>1, <2>2
  <1>4. \A r \in DOMAIN Runs(<<"openssl", a>>) : Runs(<<"openssl", a>>)[r] \in {"openssl"} \X Programs
    BY <1>2 DEF Programs
  <1>5. \A p \in Programs : \E r \in DOMAIN Runs(<<"openssl", a>>) : Runs(<<"openssl", a>>)[r] = <<"openssl", p>>
    <2>1. 1 \in 1 .. 2 /\ 2 \in 1 .. 2
      OBVIOUS
    <2>. QED BY <1>2, <2>1 DEF Programs
  <1>6. \A r \in DOMAIN Runs(<<"libressl", a>>) : Runs(<<"libressl", a>>)[r] \in {"libressl", "libressl-patched"} \X Programs
    BY <1>3 DEF Programs
  <1>7. \A b \in {"libressl", "libressl-patched"}, p \in Programs :
           \E r \in DOMAIN Runs(<<"libressl", a>>) : Runs(<<"libressl", a>>)[r] = <<b, p>>
    <2>1. 1 \in 1 .. 4 /\ 2 \in 1 .. 4 /\ 3 \in 1 .. 4 /\ 4 \in 1 .. 4
      OBVIOUS
    <2>. QED BY <1>3, <2>1 DEF Programs
  <1>. QED BY <1>4, <1>5, <1>6, <1>7

(* The lines of a file that is not cut are its rows.                       *)
LEMMA UncutLines ==
  ASSUME NEW file, file.kept \in Nat, file.cut = FALSE
  PROVE  /\ DOMAIN Lines(file) = 1 .. file.kept
         /\ \A i \in 1 .. file.kept : Lines(file)[i] = Row(file, i)
  <1> DEFINE s == [i \in 1 .. file.kept |-> Row(file, i)]
             S == {Row(file, i) : i \in 1 .. file.kept}
  <1>1. s \in Seq(S) /\ Len(s) = file.kept
    OBVIOUS
  <1>2. DOMAIN s = 1 .. file.kept /\ \A i \in 1 .. file.kept : s[i] = Row(file, i)
    OBVIOUS
  <1>3. Lines(file) = s \o << >>
    BY DEF Lines
  <1> HIDE DEF s, S
  <1>4. s \o << >> = s
    BY <1>1
  <1>. QED BY <1>2, <1>3, <1>4

(* Every file has one place in the order of names.                         *)
LEMMA Indexed ==
  ASSUME NEW a \in Architectures, NEW b \in AllBackends, NEW p \in Programs
  PROVE  \E i \in 1 .. Len(Paths) : Paths[i] = <<b, a, p>>
  <1>1. CASE b = "openssl"
    <2> DEFINE job == <<"openssl", a>>
    <2>1. job \in Jobs
      BY DEF Jobs
    <2>2. PICK r \in DOMAIN Runs(job) : Runs(job)[r] = <<"openssl", p>>
      BY RunsByBackend
    <2>3. FileName(job, Runs(job)[r]) = <<b, a, p>>
      BY <1>1, <2>2 DEF FileName
    <2> HIDE DEF job
    <2>. QED BY <2>1, <2>3, PipelineAssumption
  <1>2. CASE b \in {"libressl", "libressl-patched"}
    <2> DEFINE job == <<"libressl", a>>
    <2>1. job \in Jobs
      BY DEF Jobs
    <2>2. PICK r \in DOMAIN Runs(job) : Runs(job)[r] = <<b, p>>
      BY <1>2, RunsByBackend
    <2>3. FileName(job, Runs(job)[r]) = <<b, a, p>>
      BY <2>2 DEF FileName
    <2> HIDE DEF job
    <2>. QED BY <2>1, <2>3, PipelineAssumption
  <1>. QED BY <1>1, <1>2 DEF AllBackends

(* The parts of a cell, and the file it is in.                             *)
LEMMA CellsType ==
  ASSUME NEW q \in Cells
  PROVE  /\ q[1] \in Architectures /\ q[2] \in AllBackends /\ q[3] \in Programs
         /\ q[4] \in 1 .. Len(Cases[q[3]]) /\ q = <<q[1], q[2], q[3], q[4]>>
         /\ Index(q) \in 1 .. Len(Paths) /\ Paths[Index(q)] = <<q[2], q[1], q[3]>>
         /\ q[4] \in Nat \ {0}
  <1>1. /\ q[1] \in Architectures /\ q[2] \in AllBackends /\ q[3] \in Programs
        /\ q[4] \in 1 .. Len(Cases[q[3]]) /\ q = <<q[1], q[2], q[3], q[4]>>
    BY DEF Cells
  <1>2. \E i \in 1 .. Len(Paths) : Paths[i] = <<q[2], q[1], q[3]>>
    BY <1>1, Indexed
  <1>3. q[4] \in Nat \ {0}
    BY <1>1, CasesType
  <1>. QED BY <1>1, <1>2, <1>3 DEF Index

(* No two samples are in one place.                                        *)
LEMMA AtSeparates ==
  ASSUME NEW q \in Cells, NEW r \in Cells, NEW s \in 1 .. Samples, NEW t \in 1 .. Samples,
         At(q, s) = At(r, t)
  PROVE  q = r /\ s = t
  <1>1. Index(q) = Index(r) /\ LineOf(q[4], s) = LineOf(r[4], t)
    BY DEF At
  <1>2. <<q[2], q[1], q[3]>> = <<r[2], r[1], r[3]>>
    BY <1>1, CellsType
  <1>3. q[4] = r[4] /\ s = t
    <2>0. Samples \in Nat \ {0} /\ q[4] \in Nat \ {0} /\ r[4] \in Nat \ {0}
      BY CellsType, CasesType
    <2>1. /\ ((LineOf(q[4], s) - 1) \div Samples) + 1 = q[4]
          /\ ((LineOf(q[4], s) - 1) % Samples) + 1 = s
      BY <2>0, LinesAre
    <2>2. /\ ((LineOf(r[4], t) - 1) \div Samples) + 1 = r[4]
          /\ ((LineOf(r[4], t) - 1) % Samples) + 1 = t
      BY <2>0, LinesAre
    <2>. QED BY <1>1, <2>1, <2>2
  <1>4. q[1] = r[1] /\ q[2] = r[2] /\ q[3] = r[3]
    BY <1>2
  <1>. QED BY <1>3, <1>4, CellsType

(* The row of a sample.                                                    *)
LEMMA RowOf ==
  ASSUME NEW q \in Cells, NEW s \in 1 .. Samples
  PROVE  Row(Whole(q[1], q[2], q[3]), LineOf(q[4], s)) = Expected(q, s)
  <1> DEFINE file == Whole(q[1], q[2], q[3])
             l == LineOf(q[4], s)
  <1>0. Samples \in Nat \ {0} /\ q[4] \in Nat \ {0}
    BY CellsType, CasesType
  <1>1. ((l - 1) \div Samples) + 1 = q[4] /\ ((l - 1) % Samples) + 1 = s
    BY <1>0, LinesAre
  <1>2. /\ file.run[2] = q[3] /\ file.run[1] = q[2]
        /\ file.architecture = q[1] /\ file.version = "pinned"
    BY DEF Whole
  <1> HIDE DEF file, l
  <1>3. Row(file, l) =
          [architecture |-> q[1], backend |-> q[2], version |-> "pinned",
           table |-> Cases[q[3]][q[4]].table, key |-> Cases[q[3]][q[4]].key, sample |-> s,
           rate |-> rate[<<q[1], q[2], Cases[q[3]][q[4]].table, Cases[q[3]][q[4]].key>>][s]]
    BY <1>1, <1>2, Zenon DEF Row
  <1>. QED BY <1>3 DEF file, l, Expected, CaseOf, Rate

(* The merged files hold one row for each sample of each cell.             *)
LEMMA RowsOfFiles ==
  ASSUME NEW files, AllWhole(files)
  PROVE  RowsKnown(load_rows(Contents(files)))
  <1> DEFINE C == Contents(files)
             rows == load_rows(C)
  <1>1. /\ DOMAIN C = {i \in 1 .. Len(Paths) : Paths[i] \in DOMAIN files}
        /\ \A i \in DOMAIN C : C[i] = Lines(files[Paths[i]])
    BY DEF Contents
  <1>2. ASSUME NEW a \in Architectures, NEW b \in AllBackends, NEW p \in Programs
        PROVE  /\ <<b, a, p>> \in DOMAIN files
               /\ DOMAIN Lines(files[<<b, a, p>>]) = 1 .. LineCount(p)
               /\ \A l \in 1 .. LineCount(p) :
                    Lines(files[<<b, a, p>>])[l] = Row(Whole(a, b, p), l)
    <2>1. files[<<b, a, p>>] = Whole(a, b, p) /\ <<b, a, p>> \in DOMAIN files
      BY DEF AllWhole
    <2>2. Whole(a, b, p).kept = LineCount(p) /\ Whole(a, b, p).cut = FALSE
      BY LinesAre DEF Whole
    <2>3. LineCount(p) \in Nat
      BY LinesAre
    <2>. QED BY <2>1, <2>2, <2>3, UncutLines
  <1>3. ASSUME NEW i \in DOMAIN C
        PROVE  \E a \in Architectures, b \in AllBackends, p \in Programs : Paths[i] = <<b, a, p>>
    BY <1>1 DEF AllWhole
  <1>4. /\ DOMAIN rows = UNION {{f} \X DOMAIN C[f] : f \in DOMAIN C}
        /\ \A f \in DOMAIN C : \A l \in DOMAIN C[f] : rows[<<f, l>>] = C[f][l]
    BY DEF load_rows
  <1> HIDE DEF C, rows
  <1>5. ASSUME NEW q \in Cells, NEW s \in 1 .. Samples
        PROVE  At(q, s) \in DOMAIN rows /\ rows[At(q, s)] = Expected(q, s)
    <2> DEFINE l == LineOf(q[4], s)
    <2>1. Index(q) \in DOMAIN C /\ C[Index(q)] = Lines(files[<<q[2], q[1], q[3]>>])
      BY <1>1, <1>2, CellsType
    <2>2. l \in 1 .. LineCount(q[3])
      BY CellsType, LinesAre
    <2> HIDE DEF l
    <2>3. l \in DOMAIN C[Index(q)] /\ C[Index(q)][l] = Row(Whole(q[1], q[2], q[3]), l)
      <3>1. q[1] \in Architectures /\ q[2] \in AllBackends /\ q[3] \in Programs
        BY CellsType
      <3>2. DOMAIN C[Index(q)] = 1 .. LineCount(q[3])
        <4>1. DOMAIN Lines(files[<<q[2], q[1], q[3]>>]) = 1 .. LineCount(q[3])
          BY <1>2, <3>1
        <4>. QED BY <2>1, <4>1
      <3>3. Lines(files[<<q[2], q[1], q[3]>>])[l] = Row(Whole(q[1], q[2], q[3]), l)
        BY <1>2, <2>2, <3>1, Zenon
      <3>. QED BY <2>1, <2>2, <3>2, <3>3, Zenon
    <2>4. At(q, s) = <<Index(q), l>>
      BY DEF At, l
    <2>5. <<Index(q), l>> \in DOMAIN rows /\ rows[<<Index(q), l>>] = Row(Whole(q[1], q[2], q[3]), l)
      BY <1>4, <2>1, <2>3
    <2>6. Row(Whole(q[1], q[2], q[3]), l) = Expected(q, s)
      BY RowOf DEF l
    <2>. QED BY <2>4, <2>5, <2>6
  <1>6. ASSUME NEW place \in DOMAIN rows
        PROVE  \E q \in Cells, s \in 1 .. Samples : place = At(q, s)
    <2>1. PICK f \in DOMAIN C : \E l \in DOMAIN C[f] : place = <<f, l>>
      BY <1>4
    <2>l. PICK l \in DOMAIN C[f] : place = <<f, l>>
      BY <2>1
    <2>2. PICK a \in Architectures, b \in AllBackends, p \in Programs : Paths[f] = <<b, a, p>>
      BY <1>3
    <2>3. l \in 1 .. LineCount(p)
      <3>1. C[f] = Lines(files[<<b, a, p>>])
        BY <1>1, <2>2, Zenon
      <3>. QED BY <1>2, <3>1, Zenon
    <2>4. PICK k \in 1 .. Len(Cases[p]), s \in 1 .. Samples : l = LineOf(k, s)
      BY <2>3, LinesAre
    <2> DEFINE q == <<a, b, p, k>>
    <2>5. q \in Cells /\ q[1] = a /\ q[2] = b /\ q[3] = p /\ q[4] = k
      <3>1. k \in Nat
        BY CasesType
      <3>. QED BY <3>1 DEF Cells
    <2> HIDE DEF q
    <2>6. Index(q) = f
      <3>1. Paths[Index(q)] = Paths[f] /\ Index(q) \in 1 .. Len(Paths) /\ f \in 1 .. Len(Paths)
        BY <1>1, <2>2, <2>5, CellsType
      <3>. QED BY <3>1, PipelineAssumption
    <2>7. place = At(q, s)
      BY <2>l, <2>4, <2>5, <2>6 DEF At
    <2>. QED BY <2>5, <2>7
  <1>7. DOMAIN rows = {At(qs[1], qs[2]) : qs \in Cells \X (1 .. Samples)}
    <2>1. ASSUME NEW place \in DOMAIN rows
          PROVE  place \in {At(qs[1], qs[2]) : qs \in Cells \X (1 .. Samples)}
      <3>1. PICK q \in Cells, s \in 1 .. Samples : place = At(q, s)
        BY <1>6
      <3>2. <<q, s>> \in Cells \X (1 .. Samples) /\ <<q, s>>[1] = q /\ <<q, s>>[2] = s
        OBVIOUS
      <3>. QED BY <3>1, <3>2
    <2>. QED BY <1>5, <2>1
  <1>. QED BY <1>5, <1>7 DEF RowsKnown, C, rows

-----------------------------------------------------------------------------
(* What the comparison shows                                               *)

(* The rows of one cell of the tables, kept apart one field after another. *)
OfTable(rows, a, t) == Select(Select(rows, "architecture", a), "table", t)
OfKey(rows, a, t, key) == Select(OfTable(rows, a, t), "key", key)
OfCell(rows, a, t, key, b) == Select(OfKey(rows, a, t, key), "backend", b)

(* They are the rows with these four fields.                               *)
LEMMA OfCellSelects ==
  ASSUME NEW rows, NEW a, NEW t, NEW key, NEW b
  PROVE  /\ \A p : p \in DOMAIN OfCell(rows, a, t, key, b) <=>
              /\ p \in DOMAIN rows
              /\ rows[p].architecture = a /\ rows[p].table = t
              /\ rows[p].key = key /\ rows[p].backend = b
         /\ \A p \in DOMAIN OfCell(rows, a, t, key, b) : OfCell(rows, a, t, key, b)[p] = rows[p]
  <1> DEFINE A == Select(rows, "architecture", a)
             T == OfTable(rows, a, t)
             K == OfKey(rows, a, t, key)
             B == OfCell(rows, a, t, key, b)
  <1>1. /\ DOMAIN A = {p \in DOMAIN rows : rows[p]["architecture"] = a}
        /\ \A p \in DOMAIN A : A[p] = rows[p]
    BY DEF Select
  <1>2. /\ DOMAIN T = {p \in DOMAIN A : A[p]["table"] = t}
        /\ \A p \in DOMAIN T : T[p] = A[p]
    BY DEF OfTable, Select
  <1>3. /\ DOMAIN K = {p \in DOMAIN T : T[p]["key"] = key}
        /\ \A p \in DOMAIN K : K[p] = T[p]
    BY DEF OfKey, Select
  <1>4. /\ DOMAIN B = {p \in DOMAIN K : K[p]["backend"] = b}
        /\ \A p \in DOMAIN B : B[p] = K[p]
    BY DEF OfCell, Select
  <1> HIDE DEF A, T, K, B
  <1>5. \A p \in DOMAIN B : B[p] = rows[p]
    BY <1>1, <1>2, <1>3, <1>4
  <1>6. \A p : p \in DOMAIN B <=>
           /\ p \in DOMAIN rows
           /\ rows[p].architecture = a /\ rows[p].table = t
           /\ rows[p].key = key /\ rows[p].backend = b
    BY <1>1, <1>2, <1>3, <1>4
  <1>. QED BY <1>5, <1>6 DEF B

(* What render shows.                                                      *)
LEMMA Rendered ==
  ASSUME NEW rows
  PROVE  /\ DOMAIN render(rows) = Values(rows, "architecture")
         /\ \A a \in DOMAIN render(rows) :
              LET ofA == Select(rows, "architecture", a)
              IN  /\ \A b \in Values(ofA, "backend") :
                       render(rows)[a].versions[b] = LastRow(Select(ofA, "backend", b)).version
                  /\ DOMAIN render(rows)[a].tables = Values(ofA, "table")
         /\ \A a \in DOMAIN render(rows) : \A t \in DOMAIN render(rows)[a].tables :
              /\ DOMAIN render(rows)[a].tables[t] = Values(OfTable(rows, a, t), "key")
              /\ \A key \in DOMAIN render(rows)[a].tables[t] :
                   LET row == render(rows)[a].tables[t][key]
                       backends == Values(Select(rows, "architecture", a), "backend")
                   IN  /\ row.ratios = append_ratios(row.cells, backends)
                       /\ DOMAIN row.cells = Values(OfKey(rows, a, t, key), "backend")
                       /\ \A b \in DOMAIN row.cells :
                            row.cells[b] = Median2(Rates(OfCell(rows, a, t, key, b)))
  <1> DEFINE R == render(rows)
             ofA(a) == Select(rows, "architecture", a)
  <1>1. R = [a \in Values(rows, "architecture") |-> render_architecture(ofA(a))]
    BY DEF render
  <1>2. DOMAIN R = Values(rows, "architecture") /\ \A a \in DOMAIN R : R[a] = render_architecture(ofA(a))
    BY <1>1
  <1> HIDE DEF R
  <1>3. ASSUME NEW a \in DOMAIN R
        PROVE  /\ \A b \in Values(ofA(a), "backend") :
                    R[a].versions[b] = LastRow(Select(ofA(a), "backend", b)).version
               /\ DOMAIN R[a].tables = Values(ofA(a), "table")
               /\ \A t \in DOMAIN R[a].tables :
                    R[a].tables[t] =
                      [key \in DOMAIN aggregate(OfTable(rows, a, t)) |->
                         [cells |-> aggregate(OfTable(rows, a, t))[key],
                          ratios |-> append_ratios(aggregate(OfTable(rows, a, t))[key],
                                                   Values(ofA(a), "backend"))]]
    <2> HIDE DEF ofA
    <2>1. R[a] = render_architecture(ofA(a))
      BY <1>2
    <2>2. R[a].versions = [b \in Values(ofA(a), "backend") |-> LastRow(Select(ofA(a), "backend", b)).version]
      BY <2>1 DEF render_architecture
    <2>3. R[a].tables = [t \in Values(ofA(a), "table") |->
            [key \in DOMAIN aggregate(Select(ofA(a), "table", t)) |->
               [cells |-> aggregate(Select(ofA(a), "table", t))[key],
                ratios |-> append_ratios(aggregate(Select(ofA(a), "table", t))[key],
                                         Values(ofA(a), "backend"))]]]
      BY <2>1 DEF render_architecture
    <2>4. \A t : Select(ofA(a), "table", t) = OfTable(rows, a, t)
      BY DEF OfTable, ofA
    <2>. QED BY <2>2, <2>3, <2>4
  <1>4. ASSUME NEW a \in DOMAIN R, NEW t \in DOMAIN R[a].tables
        PROVE  /\ DOMAIN R[a].tables[t] = Values(OfTable(rows, a, t), "key")
               /\ \A key \in DOMAIN R[a].tables[t] :
                    /\ R[a].tables[t][key].ratios =
                         append_ratios(R[a].tables[t][key].cells, Values(ofA(a), "backend"))
                    /\ DOMAIN R[a].tables[t][key].cells = Values(OfKey(rows, a, t, key), "backend")
                    /\ \A b \in DOMAIN R[a].tables[t][key].cells :
                         R[a].tables[t][key].cells[b] = Median2(Rates(OfCell(rows, a, t, key, b)))
    <2> DEFINE T == OfTable(rows, a, t)
               data == aggregate(T)
    <2> HIDE DEF ofA
    <2>1. R[a].tables[t] = [key \in DOMAIN data |->
            [cells |-> data[key], ratios |-> append_ratios(data[key], Values(ofA(a), "backend"))]]
      BY <1>3
    <2>2. data = [key \in Values(T, "key") |->
            [backend \in Values(Select(T, "key", key), "backend") |->
               Median2(Rates(Select(Select(T, "key", key), "backend", backend)))]]
      BY DEF aggregate
    <2>3. \A key : Select(T, "key", key) = OfKey(rows, a, t, key)
      BY DEF OfKey
    <2> HIDE DEF data, T
    <2>4. /\ DOMAIN data = Values(T, "key")
          /\ \A key \in DOMAIN data :
               data[key] = [backend \in Values(OfKey(rows, a, t, key), "backend") |->
                              Median2(Rates(OfCell(rows, a, t, key, backend)))]
      BY <2>2, <2>3 DEF OfCell
    <2>5. DOMAIN R[a].tables[t] = Values(OfTable(rows, a, t), "key")
      BY <2>1, <2>4 DEF T
    <2>6. ASSUME NEW key \in DOMAIN R[a].tables[t]
          PROVE  /\ R[a].tables[t][key].ratios =
                      append_ratios(R[a].tables[t][key].cells, Values(ofA(a), "backend"))
                 /\ R[a].tables[t][key].cells =
                      [backend \in Values(OfKey(rows, a, t, key), "backend") |->
                              Median2(Rates(OfCell(rows, a, t, key, backend)))]
      BY <2>1, <2>4
    <2>. QED BY <2>5, <2>6
  <1>. QED BY <1>2, <1>3, <1>4 DEF R

(* A cell is told by its architecture, backend, table and key.             *)
LEMMA SameCell ==
  ASSUME NEW q \in Cells, NEW r \in Cells, q[1] = r[1], q[2] = r[2],
         CaseOf(q).table = CaseOf(r).table, CaseOf(q).key = CaseOf(r).key
  PROVE  q = r
  <1>1. /\ q[4] \in DOMAIN Cases[q[3]] /\ r[4] \in DOMAIN Cases[r[3]]
        /\ q[3] \in {"aead", "tls"} /\ r[3] \in {"aead", "tls"}
    BY CellsType, CasesType DEF Programs
  <1>2. Cases[q[3]][q[4]].table = Cases[r[3]][r[4]].table /\ Cases[q[3]][q[4]].key = Cases[r[3]][r[4]].key
    BY DEF CaseOf
  <1>3. q[3] = r[3] /\ q[4] = r[4]
    <2>1. \A p, o \in {"aead", "tls"} : \A i \in DOMAIN Cases[p], j \in DOMAIN Cases[o] :
            Cases[p][i].table = Cases[o][j].table /\ Cases[p][i].key = Cases[o][j].key
              => p = o /\ i = j
      BY PipelineAssumption
    <2>. QED BY <1>1, <1>2, <2>1
  <1>4. q = <<q[1], q[2], q[3], q[4]>> /\ r = <<r[1], r[2], r[3], r[4]>>
    BY CellsType
  <1>. QED BY <1>3, <1>4

(* What every row says.                                                    *)
LEMMA KnownRow ==
  ASSUME NEW rows, RowsKnown(rows), NEW place \in DOMAIN rows
  PROVE  \E q \in Cells, s \in 1 .. Samples :
           /\ place = At(q, s)
           /\ rows[place].architecture = q[1] /\ rows[place].backend = q[2]
           /\ rows[place].table = CaseOf(q).table /\ rows[place].key = CaseOf(q).key
           /\ rows[place].version = "pinned" /\ rows[place].sample = s
           /\ rows[place].rate = Rate(q)[s]
  <1>1. PICK qs \in Cells \X (1 .. Samples) : place = At(qs[1], qs[2])
    BY DEF RowsKnown
  <1>2. rows[place] = Expected(qs[1], qs[2]) /\ qs[1] \in Cells /\ qs[2] \in 1 .. Samples
    BY <1>1 DEF RowsKnown
  <1>. QED BY <1>1, <1>2 DEF Expected

(* The row of a sample of a cell is there, and says what was measured.     *)
LEMMA RowAt ==
  ASSUME NEW rows, RowsKnown(rows), NEW q \in Cells, NEW s \in 1 .. Samples
  PROVE  /\ At(q, s) \in DOMAIN rows
         /\ rows[At(q, s)].architecture = q[1] /\ rows[At(q, s)].backend = q[2]
         /\ rows[At(q, s)].table = CaseOf(q).table /\ rows[At(q, s)].key = CaseOf(q).key
         /\ rows[At(q, s)].version = "pinned" /\ rows[At(q, s)].sample = s
         /\ rows[At(q, s)].rate = Rate(q)[s]
  <1>1. rows[At(q, s)] = Expected(q, s)
    BY DEF RowsKnown
  <1>2. At(q, s) \in DOMAIN rows
    <2>1. <<q, s>> \in Cells \X (1 .. Samples) /\ <<q, s>>[1] = q /\ <<q, s>>[2] = s
      OBVIOUS
    <2>. QED BY <2>1 DEF RowsKnown
  <1>. QED BY <1>1, <1>2 DEF Expected

(* What is measured are the rates of the cells.                            *)
ExperimentOf(q) == <<q[1], q[2], CaseOf(q).table, CaseOf(q).key>>

(* These are the experiments of the matrix.                                *)
LEMMA ExperimentsAre == Experiments = {ExperimentOf(q) : q \in Cells}
  <1>1. ToSet(Backends["openssl"]) \cup ToSet(Backends["libressl"]) = AllBackends
    <2>1. Backends["openssl"] = <<"openssl">> /\ Backends["libressl"] = <<"libressl", "libressl-patched">>
      BY DEF Backends
    <2>2. ToSet(<<"openssl">>) = {"openssl"}
      BY DEF ToSet
    <2>3. ToSet(<<"libressl", "libressl-patched">>) = {"libressl", "libressl-patched"}
      BY DEF ToSet
    <2>. QED BY <2>1, <2>2, <2>3 DEF AllBackends
  <1>2. \A p \in Programs : ToSet(Cases[p]) = {Cases[p][k] : k \in 1 .. Len(Cases[p])}
    BY CasesType DEF ToSet
  <1>3. ASSUME NEW e \in Experiments PROVE \E q \in Cells : e = ExperimentOf(q)
    <2>1. PICK a \in Architectures, b \in AllBackends, c \in ToSet(Cases["aead"]) \cup ToSet(Cases["tls"]) :
            e = <<a, b, c.table, c.key>>
      BY <1>1 DEF Experiments
    <2>2. PICK p \in Programs : c \in ToSet(Cases[p])
      BY DEF Programs
    <2>3. PICK k \in 1 .. Len(Cases[p]) : c = Cases[p][k]
      BY <1>2, <2>2
    <2> DEFINE q == <<a, b, p, k>>
    <2>4. k \in Nat
      BY CasesType
    <2>5. q \in Cells /\ q[1] = a /\ q[2] = b /\ q[3] = p /\ q[4] = k
      BY <2>4 DEF Cells
    <2> HIDE DEF q
    <2>. QED BY <2>1, <2>3, <2>5 DEF ExperimentOf, CaseOf
  <1>4. ASSUME NEW q \in Cells PROVE ExperimentOf(q) \in Experiments
    <2>1. q[1] \in Architectures /\ q[2] \in AllBackends /\ q[3] \in Programs /\ q[4] \in 1 .. Len(Cases[q[3]])
      BY CellsType
    <2>2. CaseOf(q) \in ToSet(Cases["aead"]) \cup ToSet(Cases["tls"])
      BY <1>2, <2>1 DEF CaseOf, Programs
    <2>. QED BY <1>1, <2>1, <2>2 DEF Experiments, ExperimentOf
  <1>. QED BY <1>3, <1>4

(* Every cell has a rate for each of its samples.                          *)
LEMMA RateType ==
  ASSUME rate \in Readings, NEW q \in Cells
  PROVE  Rate(q) \in [1 .. Samples -> Nat] /\ Rate(q) = rate[ExperimentOf(q)]
  <1>1. rate \in [Experiments -> [1 .. Samples -> Nat]]
    BY PipelineAssumption
  <1>2. ExperimentOf(q) \in Experiments
    BY ExperimentsAre
  <1>3. Rate(q) = rate[ExperimentOf(q)]
    BY DEF Rate, ExperimentOf
  <1>. QED BY <1>1, <1>2, <1>3

(* A cell of the comparison is the median of the samples of one cell, and  *)
(* there is one for each.                                                  *)
LEMMA CellShown ==
  ASSUME rate \in Readings, NEW rows, RowsKnown(rows), NEW q \in Cells
  PROVE  LET cells == render(rows)[q[1]].tables[CaseOf(q).table][CaseOf(q).key].cells
         IN  /\ q[1] \in DOMAIN render(rows)
             /\ CaseOf(q).table \in DOMAIN render(rows)[q[1]].tables
             /\ CaseOf(q).key \in DOMAIN render(rows)[q[1]].tables[CaseOf(q).table]
             /\ q[2] \in DOMAIN cells
             /\ Published!IsMedian2(cells[q[2]], Rate(q)) /\ cells[q[2]] \in Nat
             /\ (\A s \in 1 .. Samples : Rate(q)[s] = 0) => cells[q[2]] = 0
  <1> DEFINE a == q[1]
             b == q[2]
             t == CaseOf(q).table
             key == CaseOf(q).key
             R == render(rows)
             A == Select(rows, "architecture", a)
             T == OfTable(rows, a, t)
             K == OfKey(rows, a, t, key)
             B == OfCell(rows, a, t, key, b)
  <1>1. Samples \in Nat \ {0} /\ 1 \in 1 .. Samples
    BY CasesType
  <1> DEFINE p == At(q, 1)
  <1>2. /\ p \in DOMAIN rows /\ rows[p]["architecture"] = a /\ rows[p]["table"] = t
        /\ rows[p]["key"] = key /\ rows[p]["backend"] = b
    BY <1>1, RowAt
  <1> HIDE DEF p, a, b, t, key
  <1>3. a \in Values(rows, "architecture")
    BY <1>2 DEF Values
  <1>4. p \in DOMAIN A /\ A[p] = rows[p]
    BY <1>2 DEF Select
  <1>5. p \in DOMAIN T /\ T[p] = rows[p]
    BY <1>2, <1>4 DEF OfTable, Select
  <1>6. p \in DOMAIN K /\ K[p] = rows[p]
    BY <1>2, <1>5 DEF OfKey, Select
  <1>7. t \in Values(A, "table") /\ key \in Values(T, "key") /\ b \in Values(K, "backend")
    BY <1>2, <1>4, <1>5, <1>6 DEF Values
  <1>8. a \in DOMAIN R /\ t \in DOMAIN R[a].tables /\ key \in DOMAIN R[a].tables[t]
    BY <1>3, <1>7, Rendered
  <1>9. b \in DOMAIN R[a].tables[t][key].cells /\ R[a].tables[t][key].cells[b] = Median2(Rates(B))
    BY <1>7, <1>8, Rendered
  <1> DEFINE g == [s \in 1 .. Samples |-> At(q, s)]
             samples == Rates(B)
  <1>10. DOMAIN B = {At(q, s) : s \in 1 .. Samples} /\ \A u \in DOMAIN B : B[u] = rows[u]
    <2>1. \A u : u \in DOMAIN B <=>
             /\ u \in DOMAIN rows
             /\ rows[u].architecture = a /\ rows[u].table = t
             /\ rows[u].key = key /\ rows[u].backend = b
      BY OfCellSelects
    <2>2. \A u \in DOMAIN B : B[u] = rows[u]
      BY OfCellSelects
    <2>3. ASSUME NEW s \in 1 .. Samples PROVE At(q, s) \in DOMAIN B
      BY <2>1, RowAt DEF a, b, t, key
    <2>4. ASSUME NEW u \in DOMAIN B PROVE \E s \in 1 .. Samples : u = At(q, s)
      <3>1. PICK r \in Cells, s \in 1 .. Samples :
              /\ u = At(r, s)
              /\ rows[u].architecture = r[1] /\ rows[u].backend = r[2]
              /\ rows[u].table = CaseOf(r).table /\ rows[u].key = CaseOf(r).key
        BY <2>1, KnownRow
      <3>2. r = q
        BY <2>1, <3>1, SameCell DEF a, b, t, key
      <3>. QED BY <3>1, <3>2
    <2>. QED BY <2>2, <2>3, <2>4
  <1> HIDE DEF B
  <1>11. /\ \A s \in 1 .. Samples : g[s] \in DOMAIN samples /\ samples[g[s]] = Rate(q)[s]
         /\ \A i \in DOMAIN samples : \E s \in 1 .. Samples : i = g[s]
    <2>1. DOMAIN samples = DOMAIN B /\ \A u \in DOMAIN B : samples[u] = B[u].rate
      BY DEF Rates
    <2>2. \A s \in 1 .. Samples : g[s] = At(q, s)
      OBVIOUS
    <2> HIDE DEF samples, g
    <2>3. \A s \in 1 .. Samples : samples[g[s]] = Rate(q)[s]
      BY <1>10, <2>1, <2>2, RowAt
    <2>. QED BY <1>10, <2>1, <2>2, <2>3
  <1>12. \A s, u \in 1 .. Samples : g[s] = g[u] => s = u
    <2>1. \A s \in 1 .. Samples : g[s] = At(q, s)
      OBVIOUS
    <2> HIDE DEF g
    <2>. QED BY <2>1, AtSeparates
  <1>13. Rate(q) \in [1 .. Samples -> Nat]
    BY RateType
  <1> HIDE DEF g, samples
  <1>14. /\ Published!IsMedian2(Median2(samples), Rate(q)) /\ Median2(samples) \in Nat
         /\ (\A s \in 1 .. Samples : Rate(q)[s] = 0) => Median2(samples) = 0
    <2>1. Renamed(Samples, Rate(q), g, samples)
      BY <1>11, <1>12, <1>13 DEF Renamed
    <2>. QED BY <1>1, <2>1, MedianOf
  <1>. QED BY <1>8, <1>9, <1>14 DEF a, b, t, key, samples

(* Nothing else is shown than cells.                                       *)
LEMMA ShownIsCell ==
  ASSUME NEW rows, RowsKnown(rows), NEW a \in DOMAIN render(rows),
         NEW t \in DOMAIN render(rows)[a].tables,
         NEW key \in DOMAIN render(rows)[a].tables[t],
         NEW b \in DOMAIN render(rows)[a].tables[t][key].cells
  PROVE  \E q \in Cells : /\ q[1] = a /\ q[2] = b
                          /\ CaseOf(q).table = t /\ CaseOf(q).key = key
  <1>1. b \in Values(OfKey(rows, a, t, key), "backend")
    BY Rendered
  <1>2. PICK p \in DOMAIN OfKey(rows, a, t, key) : OfKey(rows, a, t, key)[p].backend = b
    BY <1>1 DEF Values
  <1>3. p \in DOMAIN OfCell(rows, a, t, key, b)
    BY <1>2 DEF OfCell, Select
  <1>4. /\ p \in DOMAIN rows /\ rows[p].architecture = a /\ rows[p].table = t
        /\ rows[p].key = key /\ rows[p].backend = b
    BY <1>3, OfCellSelects
  <1>. QED BY <1>4, KnownRow

(* There are finitely many rows.                                           *)
LEMMA PlacesAre ==
  ASSUME NEW rows, RowsKnown(rows)
  PROVE  /\ IsFiniteSet(DOMAIN rows)
         /\ \A p \in DOMAIN rows : p[1] \in Nat /\ p[2] \in Nat
  <1> DEFINE n == LineCount("aead")
             m == LineCount("tls")
             S == (1 .. n) \cup (1 .. m)
             D == (1 .. Len(Paths)) \X S
  <1>1. n \in Nat /\ m \in Nat /\ Len(Paths) \in Nat
    BY LinesAre, PipelineAssumption DEF Programs
  <1>2. IsFiniteSet(1 .. n) /\ IsFiniteSet(1 .. m) /\ IsFiniteSet(1 .. Len(Paths))
    <2> HIDE DEF n, m
    <2>. QED BY <1>1, FS_Interval
  <1>3. IsFiniteSet(S)
    <2> HIDE DEF n, m
    <2>. QED BY <1>2, FS_Union
  <1>4. IsFiniteSet(D)
    <2> HIDE DEF S
    <2>. QED BY <1>2, <1>3, FS_Product
  <1>5. ASSUME NEW p \in DOMAIN rows PROVE p \in D /\ p[1] \in Nat /\ p[2] \in Nat
    <2>1. PICK q \in Cells, s \in 1 .. Samples : p = At(q, s)
      BY KnownRow
    <2>2. Index(q) \in 1 .. Len(Paths) /\ q[3] \in Programs /\ q[4] \in 1 .. Len(Cases[q[3]])
      BY CellsType
    <2>3. LineOf(q[4], s) \in 1 .. LineCount(q[3])
      BY <2>2, LinesAre
    <2>4. LineOf(q[4], s) \in S
      BY <2>2, <2>3 DEF Programs
    <2>5. LineOf(q[4], s) \in Nat /\ Index(q) \in Nat
      <3>1. LineCount(q[3]) \in Nat
        BY <2>2, LinesAre
      <3>. QED BY <1>1, <2>2, <2>3, <3>1
    <2> HIDE DEF S
    <2>. QED BY <2>1, <2>2, <2>4, <2>5 DEF At
  <1>6. DOMAIN rows \in SUBSET D
    BY <1>5
  <1> HIDE DEF D
  <1>. QED BY <1>4, <1>5, <1>6, FS_Subset

(* The last row is one of the rows.                                        *)
LEMMA LastRowExists ==
  ASSUME NEW rows, IsFiniteSet(DOMAIN rows), DOMAIN rows # {},
         \A p \in DOMAIN rows : p[1] \in Nat /\ p[2] \in Nat
  PROVE  \E last \in DOMAIN rows : LastRow(rows) = rows[last]
  <1> DEFINE D == DOMAIN rows
             f == [p \in D |-> p[1]]
  <1>1. PICK i \in D : \A p \in D : f[p] <= f[i]
    <2>1. \A p \in D : f[p] \in Nat
      OBVIOUS
    <2> HIDE DEF f
    <2>. QED BY <2>1, Largest
  <1>2. \A p \in D : p[1] <= i[1]
    BY <1>1
  <1> DEFINE E == {p \in D : p[1] = i[1]}
             g == [p \in D |-> p[2]]
  <1>3. PICK last \in E : \A p \in E : g[p] <= g[last]
    <2>1. IsFiniteSet(E) /\ E # {}
      BY FS_Subset
    <2>2. \A p \in E : g[p] \in Nat
      OBVIOUS
    <2> HIDE DEF g, E
    <2>. QED BY <2>1, <2>2, Largest
  <1>4. \A p \in E : p[2] <= last[2]
    BY <1>3
  <1>5. ASSUME NEW p \in D
        PROVE  p[1] < last[1] \/ (p[1] = last[1] /\ p[2] <= last[2])
    BY <1>2, <1>3, <1>4
  <1>6. \E l \in D : \A p \in D : p[1] < l[1] \/ (p[1] = l[1] /\ p[2] <= l[2])
    BY <1>5
  <1>. QED BY <1>6 DEF LastRow

(* The version shown for a backend is the pinned one.                      *)
LEMMA VersionShown ==
  ASSUME NEW rows, RowsKnown(rows), NEW place \in DOMAIN rows
  PROVE  render(rows)[rows[place].architecture].versions[rows[place].backend] = "pinned"
  <1> DEFINE a == rows[place].architecture
             b == rows[place].backend
             A == Select(rows, "architecture", a)
             B == Select(A, "backend", b)
  <1>1. a \in Values(rows, "architecture")
    BY DEF Values
  <1>2. place \in DOMAIN A /\ A[place] = rows[place]
    BY DEF Select
  <1>3. DOMAIN A \in SUBSET DOMAIN rows /\ \A p \in DOMAIN A : A[p] = rows[p]
    BY DEF Select
  <1> HIDE DEF A, a
  <1>4. place \in DOMAIN B
    BY <1>2 DEF Select
  <1>5. DOMAIN B \in SUBSET DOMAIN rows /\ \A p \in DOMAIN B : B[p] = rows[p]
    BY <1>3 DEF Select
  <1>6. b \in Values(A, "backend")
    BY <1>2 DEF Values
  <1> HIDE DEF b, B
  <1>7. render(rows)[a].versions[b] = LastRow(B).version
    BY <1>1, <1>6, Rendered DEF A, B
  <1>8. PICK last \in DOMAIN B : LastRow(B) = B[last]
    <2>1. IsFiniteSet(DOMAIN B) /\ \A p \in DOMAIN B : p[1] \in Nat /\ p[2] \in Nat
      BY <1>5, PlacesAre, FS_Subset
    <2>. QED BY <1>4, <2>1, LastRowExists
  <1>9. last \in DOMAIN rows /\ B[last] = rows[last]
    BY <1>5
  <1>10. rows[last].version = "pinned"
    BY <1>9, KnownRow
  <1>. QED BY <1>7, <1>8, <1>9, <1>10 DEF a, b

(* No two rows are one sample of one cell.                                 *)
LEMMA SamplesApart ==
  ASSUME NEW rows, RowsKnown(rows), NEW i \in DOMAIN rows, NEW j \in DOMAIN rows, i # j,
         rows[i].architecture = rows[j].architecture, rows[i].backend = rows[j].backend,
         rows[i].table = rows[j].table, rows[i].key = rows[j].key
  PROVE  rows[i].sample # rows[j].sample
  <1>1. PICK q \in Cells, s \in 1 .. Samples :
           /\ i = At(q, s)
           /\ rows[i].architecture = q[1] /\ rows[i].backend = q[2]
           /\ rows[i].table = CaseOf(q).table /\ rows[i].key = CaseOf(q).key
           /\ rows[i].sample = s
    BY KnownRow
  <1>2. PICK r \in Cells, t \in 1 .. Samples :
           /\ j = At(r, t)
           /\ rows[j].architecture = r[1] /\ rows[j].backend = r[2]
           /\ rows[j].table = CaseOf(r).table /\ rows[j].key = CaseOf(r).key
           /\ rows[j].sample = t
    BY KnownRow
  <1>3. q = r
    BY <1>1, <1>2, SameCell
  <1>. QED BY <1>1, <1>2, <1>3

(* What the three properties say of the report, from the rows.             *)
LEMMA ReportIsOneRunPerCell ==
  ASSUME RowsKnown(load_rows(Contents(comparison))),
         report = render(load_rows(Contents(comparison)))
  PROVE  OneRunPerCell
  <1> DEFINE rows == load_rows(Contents(comparison))
  <1> SUFFICES ASSUME NEW i \in DOMAIN rows, NEW j \in DOMAIN rows
               PROVE  /\ i # j /\ <<rows[i].architecture, rows[i].backend, rows[i].table, rows[i].key>> =
                                  <<rows[j].architecture, rows[j].backend, rows[j].table, rows[j].key>>
                           => rows[i].sample # rows[j].sample
                      /\ report[rows[i].architecture].versions[rows[i].backend] = rows[i].version
                      /\ rows[i].backend = "openssl" => rows[i].version = "pinned"
    BY DEF OneRunPerCell
  <1>0. RowsKnown(rows) /\ report = render(rows)
    OBVIOUS
  <1> HIDE DEF rows
  <1>1. rows[i].version = "pinned"
    BY <1>0, KnownRow
  <1>2. report[rows[i].architecture].versions[rows[i].backend] = "pinned"
    BY <1>0, VersionShown
  <1>. QED BY <1>0, <1>1, <1>2, SamplesApart

(* The ratios of the report are quotients of medians of the cells.         *)
LEMMA ReportIsWithinArchitecture ==
  ASSUME rate \in Readings, NEW rows, RowsKnown(rows), report = render(rows)
  PROVE  RatiosWithinArchitecture
  <1> SUFFICES ASSUME NEW a \in DOMAIN report, NEW t \in DOMAIN report[a].tables,
                      NEW key \in DOMAIN report[a].tables[t],
                      NEW b \in DOMAIN report[a].tables[t][key].ratios
               PROVE  LET row == report[a].tables[t][key]
                          Of(c) == rate[<<a, c, t, key>>]
                          zero == \A s \in 1 .. Samples : Of("libressl")[s] = 0
                      IN  \/ row.ratios[b] = NoRatio
                          \/ /\ ~zero /\ row.ratios[b].to # 0
                             /\ Published!IsMedian2(row.ratios[b].of, Of(b))
                             /\ Published!IsMedian2(row.ratios[b].to, Of("libressl"))
    BY DEF RatiosWithinArchitecture
  <1> DEFINE row == report[a].tables[t][key]
             cells == row.cells
             backends == Values(Select(rows, "architecture", a), "backend")
  <1>1. row.ratios = append_ratios(cells, backends)
    BY Rendered
  <1>2. row.ratios[b] = ratio_cell(cells, b)
    <2> HIDE DEF backends, row, cells
    <2>1. b \in DOMAIN row.ratios
      BY DEF row
    <2>. QED BY <1>1, <2>1 DEF append_ratios
  <1>3. ASSUME NEW c \in DOMAIN cells
        PROVE  /\ Published!IsMedian2(cells[c], rate[<<a, c, t, key>>])
               /\ (\A s \in 1 .. Samples : rate[<<a, c, t, key>>][s] = 0) => cells[c] = 0
    <2>1. PICK q \in Cells : q[1] = a /\ q[2] = c /\ CaseOf(q).table = t /\ CaseOf(q).key = key
      BY ShownIsCell
    <2>2. Rate(q) = rate[<<a, c, t, key>>]
      BY <2>1 DEF Rate
    <2>3. cells = render(rows)[q[1]].tables[CaseOf(q).table][CaseOf(q).key].cells
      BY <2>1
    <2> HIDE DEF cells
    <2>. QED BY <2>1, <2>2, <2>3, CellShown
  <1> HIDE DEF row, cells, backends
  <1>4. CASE {b, "libressl"} \subseteq DOMAIN cells /\ cells["libressl"] # 0
    <2>1. row.ratios[b] = [of |-> cells[b], to |-> cells["libressl"]]
      BY <1>2, <1>4 DEF ratio_cell
    <2>2. row.ratios[b].of = cells[b] /\ row.ratios[b].to = cells["libressl"]
      BY <2>1
    <2>3. b \in DOMAIN cells /\ "libressl" \in DOMAIN cells
      BY <1>4
    <2>. QED BY <1>3, <1>4, <2>2, <2>3 DEF row
  <1>5. CASE ~({b, "libressl"} \subseteq DOMAIN cells /\ cells["libressl"] # 0)
    BY <1>2, <1>5 DEF ratio_cell, row
  <1>. QED BY <1>4, <1>5

(* The medians readers see are those of all experiments.                   *)
LEMMA ReportIsWhole ==
  ASSUME rate \in Readings, NEW rows, RowsKnown(rows), report = render(rows)
  PROVE  /\ DOMAIN Medians = Experiments
         /\ \A e \in Experiments : Published!IsMedian2(Medians[e], rate[e])
  <1> DEFINE Shown(a, b, t, key) ==
               /\ a \in DOMAIN report /\ t \in DOMAIN report[a].tables
               /\ key \in DOMAIN report[a].tables[t]
               /\ b \in DOMAIN report[a].tables[t][key].cells
             cells == {e \in Experiments : Shown(e[1], e[2], e[3], e[4])}
  <1>1. Medians = [e \in cells |-> report[e[1]].tables[e[3]][e[4]].cells[e[2]]]
    BY DEF Medians
  <1>2. ASSUME NEW e \in Experiments
        PROVE  /\ Shown(e[1], e[2], e[3], e[4])
               /\ Published!IsMedian2(report[e[1]].tables[e[3]][e[4]].cells[e[2]], rate[e])
    <2>1. PICK q \in Cells : e = ExperimentOf(q)
      BY ExperimentsAre
    <2>2. e[1] = q[1] /\ e[2] = q[2] /\ e[3] = CaseOf(q).table /\ e[4] = CaseOf(q).key
      BY <2>1 DEF ExperimentOf
    <2>3. rate[e] = Rate(q)
      BY <2>1, RateType
    <2>4. LET shown == render(rows)[q[1]].tables[CaseOf(q).table][CaseOf(q).key].cells
          IN  /\ q[1] \in DOMAIN render(rows)
              /\ CaseOf(q).table \in DOMAIN render(rows)[q[1]].tables
              /\ CaseOf(q).key \in DOMAIN render(rows)[q[1]].tables[CaseOf(q).table]
              /\ q[2] \in DOMAIN shown
              /\ Published!IsMedian2(shown[q[2]], Rate(q))
      BY CellShown
    <2>. QED BY <2>2, <2>3, <2>4
  <1> HIDE DEF Shown
  <1>3. cells = Experiments
    BY <1>2
  <1> HIDE DEF cells
  <1>. QED BY <1>1, <1>2, <1>3

-----------------------------------------------------------------------------
(* Runs and files                                                          *)

LEMMA LastJobApart == LastJob \notin Jobs
  BY DEF LastJob, Jobs

(* What a job runs are pairs of a backend and a program.                   *)
LEMMA RunsType ==
  ASSUME NEW job \in Jobs
  PROVE  /\ Len(Runs(job)) \in Nat
         /\ DOMAIN Runs(job) = 1 .. Len(Runs(job))
         /\ \A i \in 1 .. Len(Runs(job)) :
              /\ Runs(job)[i] = <<Runs(job)[i][1], Runs(job)[i][2]>>
              /\ Runs(job)[i][2] \in {"aead", "tls"}
  <1> DEFINE n == 2 * Len(Backends[job[1]])
  <1>1. n \in Nat
    <2>1. job[1] \in {"openssl", "libressl"}
      BY DEF Jobs
    <2>2. Len(Backends["openssl"]) = 1 /\ Len(Backends["libressl"]) = 2
      BY DEF Backends
    <2>. QED BY <2>1, <2>2
  <1> DEFINE f(i) == <<Backends[job[1]][(i + 1) \div 2], IF i % 2 = 1 THEN "aead" ELSE "tls">>
  <1>2. Runs(job) = [i \in 1 .. n |-> f(i)]
    BY DEF Runs
  <1> HIDE DEF n
  <1>3. Len(Runs(job)) = n /\ DOMAIN Runs(job) = 1 .. n
    <2> DEFINE g == Runs(job)
               S == {f(i) : i \in 1 .. n}
    <2>1. g \in [1 .. n -> S]
      BY <1>2
    <2> HIDE DEF g, S
    <2>2. g \in Seq(S) /\ Len(g) = n /\ DOMAIN g = 1 .. n
      BY <1>1, <2>1
    <2>. QED BY <2>2 DEF g
  <1>4. \A i \in 1 .. n : f(i) = <<f(i)[1], f(i)[2]>> /\ f(i)[2] \in {"aead", "tls"}
    OBVIOUS
  <1> HIDE DEF f
  <1>. QED BY <1>1, <1>2, <1>3, <1>4

LEMMA RowCountType ==
  ASSUME NEW job \in Jobs, NEW i \in 1 .. Len(Runs(job))
  PROVE  RowCount(Runs(job)[i]) \in Nat
  BY RunsType, PipelineAssumption DEF RowCount

(* Every program prints rows.                                              *)
LEMMA SomeRows ==
  ASSUME NEW b, NEW p \in Programs
  PROVE  RowCount(<<b, p>>) \in Nat \ {0}
  <1>1. PICK m \in Nat : Len(Cases[p]) = m + 1
    BY CasesType, Len(Cases[p]) - 1 \in Nat
  <1>2. PICK n \in Nat : Samples = n + 1
    BY CasesType, Samples - 1 \in Nat
  <1>3. RowCount(<<b, p>>) = (m + 1) * (n + 1)
    BY <1>1, <1>2, CasesType
  <1>4. (m + 1) * (n + 1) = m * n + m + n + 1 /\ m * n \in Nat
    OBVIOUS
  <1>. QED BY <1>3, <1>4

(* Two runs of a job with one file are one run.                            *)
LEMMA FileNameSeparates ==
  ASSUME NEW job \in Jobs, NEW i \in 1 .. Len(Runs(job)), NEW j \in 1 .. Len(Runs(job)),
         FileName(job, Runs(job)[i]) = FileName(job, Runs(job)[j])
  PROVE  Runs(job)[i] = Runs(job)[j]
  <1>1. Runs(job)[i][1] = Runs(job)[j][1] /\ Runs(job)[i][2] = Runs(job)[j][2]
    BY DEF FileName
  <1>. QED BY <1>1, RunsType

(* A file of as many lines as its run has rows, each of them a whole row,  *)
(* lacks nothing.                                                          *)
LEMMA CountedLines ==
  ASSUME NEW file, file.kept \in Nat, file.cut \in BOOLEAN,
         NEW n \in Nat, Len(Lines(file)) = n, Cut \notin ToSet(Lines(file))
  PROVE  file.kept = n /\ ~file.cut
  <1> DEFINE s == [i \in 1 .. file.kept |-> Row(file, i)]
             S == {Row(file, i) : i \in 1 .. file.kept} \cup {Cut}
  <1>1. s \in Seq(S) /\ Len(s) = file.kept /\ <<Cut>> \in Seq(S)
    OBVIOUS
  <1>l. Lines(file) = s \o (IF file.cut THEN <<Cut>> ELSE << >>)
    BY DEF Lines
  <1> HIDE DEF s, S
  <1>2. ASSUME file.cut PROVE FALSE
    <2>1. Lines(file) = s \o <<Cut>>
      BY <1>l, <1>2
    <2>2. /\ Len(Lines(file)) = Len(s) + 1 /\ Lines(file) \in Seq(S)
          /\ Lines(file)[Len(s) + 1] = Cut
      BY <1>1, <2>1
    <2>3. Len(s) + 1 \in DOMAIN Lines(file)
      BY <1>1, <2>2
    <2>. QED BY <2>2, <2>3 DEF ToSet
  <1>3. Lines(file) = s \o << >> /\ Len(Lines(file)) = Len(s)
    BY <1>1, <1>2, <1>l
  <1>. QED BY <1>1, <1>2, <1>3

-----------------------------------------------------------------------------
(* The inductive invariant                                                 *)

Shaped ==
  /\ pc = [job \in AllJobs |-> pc[job]]
  /\ machine = [job \in Jobs |->
       [version |-> machine[job].version, turn |-> machine[job].turn,
        results |-> machine[job].results]]
  /\ artifacts = [job \in Jobs |-> artifacts[job]]

(* The benchmark step has left a file of the i-th run of the job.          *)
Written(job, i) ==
  LET run == Runs(job)[i]
      files == machine[job].results
      file == files[FileName(job, run)]
  IN  /\ FileName(job, run) \in DOMAIN files
      /\ file = [run |-> run, architecture |-> job[2], version |-> machine[job].version,
                 kept |-> file.kept, cut |-> file.cut]
      /\ file.kept \in Nat /\ file.cut \in BOOLEAN

(* It has done so for the runs before its turn, before it validates for    *)
(* all of them, and nothing else is in results/.                           *)
FilesWritten(job) ==
  /\ machine[job].turn \in Nat \ {0}
  /\ pc[job] = "build" => machine[job].turn = 1 /\ machine[job].results = NoFiles
  /\ pc[job] = "run" => machine[job].turn <= Len(Runs(job))
  /\ pc[job] = "validate" => machine[job].turn = Len(Runs(job)) + 1
  /\ pc[job] \in {"run", "validate"} =>
       /\ job[1] # "openssl" => machine[job].version = "pinned"
       /\ \A path \in DOMAIN machine[job].results :
            \E i \in 1 .. Len(Runs(job)) : path = FileName(job, Runs(job)[i])
       /\ \A i \in 1 .. Len(Runs(job)) : i < machine[job].turn => Written(job, i)

(* The whole files of all runs of a job, and nothing else.                 *)
WholeFiles(job, files) ==
  /\ \A path \in DOMAIN files : \E i \in 1 .. Len(Runs(job)) : path = FileName(job, Runs(job)[i])
  /\ \A i \in 1 .. Len(Runs(job)) :
       LET run == Runs(job)[i]
       IN  /\ FileName(job, run) \in DOMAIN files
           /\ files[FileName(job, run)] = Whole(job[2], run[1], run[2])

FilesWhole(job) ==
  /\ pc[job] \in {"publish", "upload"} => WholeFiles(job, machine[job].results)
  /\ pc[job] = "success" => WholeFiles(job, artifacts[job])

JobSound(job) == FilesWritten(job) /\ FilesWhole(job)

(* The last job merges what all the others have uploaded.                  *)
LastJobSound ==
  /\ pc[LastJob] \in {"download", "publish", "success"} => NeedsMet
  /\ pc[LastJob] \in {"publish", "success"} => AllWhole(comparison)
  /\ report = IF pc[LastJob] = "success" THEN render(load_rows(Contents(comparison))) ELSE << >>
  /\ rate \in Readings

JobsInv == Shaped /\ \A job \in Jobs : JobSound(job)

IInv == JobsInv /\ LastJobSound

(* The first run of a job has a turn.                                      *)
LEMMA SomeRun == ASSUME NEW job \in Jobs PROVE Len(Runs(job)) >= 1
  <1> DEFINE n == 2 * Len(Backends[job[1]])
  <1>1. n \in Nat /\ n >= 1
    <2>1. job[1] \in {"openssl", "libressl"}
      BY DEF Jobs
    <2>2. Len(Backends["openssl"]) = 1 /\ Len(Backends["libressl"]) = 2
      BY DEF Backends
    <2>3. Len(Backends[job[1]]) \in {1, 2}
      BY <2>1, <2>2
    <2>. QED BY <2>3
  <1>2. DOMAIN Runs(job) = 1 .. n
    BY DEF Runs
  <1> HIDE DEF n
  <1>3. 1 .. n = 1 .. Len(Runs(job)) /\ Len(Runs(job)) \in Nat
    BY <1>2, RunsType
  <1>4. 1 \in 1 .. Len(Runs(job))
    BY <1>1, <1>3
  <1>. QED BY <1>3, <1>4

LEMMA InitJobsInv == Init => JobsInv
  <1> SUFFICES ASSUME Init PROVE JobsInv
    OBVIOUS
  <1>1. Shaped
    BY DEF Init, Shaped, Fresh
  <1>2. ASSUME NEW job \in Jobs
        PROVE  pc[job] = "build" /\ machine[job].turn = 1 /\ machine[job].results = NoFiles
    <2>1. job \in AllJobs /\ job # LastJob
      BY LastJobApart DEF AllJobs
    <2>. QED BY <2>1 DEF Init, Fresh
  <1>3. ASSUME NEW job \in Jobs PROVE JobSound(job)
    BY <1>2, SomeRun DEF JobSound, FilesWritten, FilesWhole
  <1>. QED BY <1>1, <1>2, <1>3 DEF JobsInv

-----------------------------------------------------------------------------
(* Steps                                                                   *)

(* A job none of whose state changes is as sound as before.                *)
LEMMA Untouched ==
  ASSUME NEW job \in Jobs, JobSound(job),
         pc'[job] = pc[job], machine'[job] = machine[job], artifacts'[job] = artifacts[job]
  PROVE  JobSound(job)'
  BY DEF JobSound, FilesWritten, Written, FilesWhole, WholeFiles

(* So is one that has given up its machine and did not succeed.            *)
LEMMA GivenUp ==
  ASSUME NEW job \in Jobs,
         pc'[job] \in {"failure", "cancelled"}, machine'[job] = Fresh
  PROVE  JobSound(job)'
  BY SomeRun DEF JobSound, FilesWritten, FilesWhole, Fresh

(* Goto moves one job.                                                     *)
LEMMA Moved ==
  ASSUME Shaped, NEW job \in AllJobs, NEW step, Goto(job, step)
  PROVE  /\ pc' = [j \in AllJobs |-> pc'[j]]
         /\ pc'[job] = step
         /\ \A j \in AllJobs : j # job => pc'[j] = pc[j]
  BY DEF Shaped, Goto

LEMMA BuildJobsInv ==
  ASSUME JobsInv, NEW job \in Jobs, Build(job)
  PROVE  JobsInv'
  <1>1. job \in AllJobs
    BY DEF AllJobs
  <1>2. /\ pc' = [j \in AllJobs |-> pc'[j]] /\ pc'[job] = "run"
        /\ \A j \in AllJobs : j # job => pc'[j] = pc[j]
    BY <1>1, Moved DEF JobsInv, Build
  <1>3. PICK v : /\ machine' = [machine EXCEPT ![job].version = v]
                 /\ job[1] # "openssl" => v = "pinned"
    BY DEF Build
  <1>4. /\ machine'[job].turn = machine[job].turn
        /\ machine'[job].results = machine[job].results
        /\ machine'[job].version = v
        /\ \A j \in Jobs : j # job => machine'[j] = machine[j]
        /\ machine' = [j \in Jobs |->
             [version |-> machine'[j].version, turn |-> machine'[j].turn,
              results |-> machine'[j].results]]
    BY <1>3 DEF JobsInv, Shaped
  <1>5. artifacts' = artifacts
    BY DEF Build
  <1>6. Shaped'
    BY <1>2, <1>4, <1>5 DEF JobsInv, Shaped
  <1>7. JobSound(job)'
    <2>1. machine'[job].turn = 1 /\ machine'[job].results = NoFiles
      BY <1>4 DEF JobsInv, JobSound, FilesWritten, Build
    <2>2. DOMAIN NoFiles = {}
      BY DEF NoFiles
    <2>3. \A i \in 1 .. Len(Runs(job)) : ~(i < 1)
      BY RunsType
    <2>. QED BY <1>2, <1>3, <1>4, <2>1, <2>2, <2>3, SomeRun, RunsType
         DEF JobSound, FilesWritten, FilesWhole
  <1>8. ASSUME NEW j \in Jobs, j # job PROVE JobSound(j)'
    BY <1>2, <1>4, <1>5, <1>8, Untouched DEF JobsInv, AllJobs
  <1>. QED BY <1>6, <1>7, <1>8 DEF JobsInv

LEMMA RunJobsInv ==
  ASSUME JobsInv, NEW job \in Jobs, Run(job)
  PROVE  JobsInv'
  <1> DEFINE turn == machine[job].turn
             run == Runs(job)[turn]
             files == machine[job].results
             path == FileName(job, run)
  <1>0. job \in AllJobs /\ pc[job] = "run"
    BY DEF AllJobs, Run
  <1>1. turn \in 1 .. Len(Runs(job))
    BY <1>0, RunsType DEF JobsInv, JobSound, FilesWritten
  <1>2. PICK kept \in 0 .. RowCount(run), cut \in BOOLEAN :
          machine' = [machine EXCEPT
            ![job].turn = @ + 1,
            ![job].results = Redirected(@, path,
              [run |-> run, architecture |-> job[2], version |-> machine[job].version,
               kept |-> kept, cut |-> cut])]
    BY DEF Run
  <1> DEFINE file == [run |-> run, architecture |-> job[2], version |-> machine[job].version,
                      kept |-> kept, cut |-> cut]
             new == Redirected(files, path, file)
  <1>3. /\ machine'[job].turn = turn + 1 /\ machine'[job].results = new
        /\ machine'[job].version = machine[job].version
        /\ \A j \in Jobs : j # job => machine'[j] = machine[j]
        /\ machine' = [j \in Jobs |->
             [version |-> machine'[j].version, turn |-> machine'[j].turn,
              results |-> machine'[j].results]]
    <2> DEFINE halfway == [machine EXCEPT ![job].turn = @ + 1]
    <2>1. /\ halfway = [j \in Jobs |->
               [version |-> halfway[j].version, turn |-> halfway[j].turn,
                results |-> halfway[j].results]]
          /\ halfway[job].turn = turn + 1 /\ halfway[job].results = files
          /\ halfway[job].version = machine[job].version
          /\ \A j \in Jobs : j # job => halfway[j] = machine[j]
      BY DEF JobsInv, Shaped
    <2>2. machine' = [halfway EXCEPT ![job].results = Redirected(@, path, file)]
      BY <1>2
    <2> HIDE DEF halfway, file, path
    <2>3. machine' = [halfway EXCEPT ![job].results = new]
      BY <2>1, <2>2
    <2> HIDE DEF new, turn, files
    <2>4. machine'[job].version = machine[job].version
      BY <2>1, <2>3
    <2>5. /\ machine'[job].turn = turn + 1 /\ machine'[job].results = new
          /\ \A j \in Jobs : j # job => machine'[j] = machine[j]
      BY <2>1, <2>3
    <2>6. machine' = [j \in Jobs |->
             [version |-> machine'[j].version, turn |-> machine'[j].turn,
              results |-> machine'[j].results]]
      BY <2>1, <2>3
    <2>. QED BY <2>4, <2>5, <2>6
  <1>4. artifacts' = artifacts
    BY DEF Run
  <1>5. /\ pc' = [j \in AllJobs |-> pc'[j]]
        /\ pc'[job] = IF turn < Len(Runs(job)) THEN "run" ELSE "validate"
        /\ \A j \in AllJobs : j # job => pc'[j] = pc[j]
    <2>1. CASE turn < Len(Runs(job))
      BY <1>0, <2>1 DEF JobsInv, Shaped, Run
    <2>2. CASE ~(turn < Len(Runs(job)))
      BY <1>0, <2>2, Moved DEF JobsInv, Run
    <2>. QED BY <2>1, <2>2
  <1>6. Shaped'
    BY <1>3, <1>4, <1>5 DEF JobsInv, Shaped
  <1>7. /\ path \in DOMAIN new /\ new[path] = file
        /\ \A p \in DOMAIN files : p # path => p \in DOMAIN new /\ new[p] = files[p]
        /\ DOMAIN new = DOMAIN files \cup {path}
    BY DEF Redirected
  <1>8. kept \in Nat
    BY <1>1, RowCountType
  <1>9. ASSUME NEW i \in 1 .. Len(Runs(job)), i < turn + 1 PROVE Written(job, i)'
    <2>1. CASE FileName(job, Runs(job)[i]) = path
      <3>1. Runs(job)[i] = run
        BY <1>1, <2>1, FileNameSeparates
      <3>. QED BY <1>3, <1>7, <1>8, <3>1 DEF Written
    <2>2. CASE FileName(job, Runs(job)[i]) # path
      <3>1. i < turn
        BY <1>1, <1>9, <2>2
      <3>2. Written(job, i)
        BY <1>0, <3>1 DEF JobsInv, JobSound, FilesWritten
      <3>. QED BY <1>3, <1>7, <2>2, <3>2 DEF Written
    <2>. QED BY <2>1, <2>2
  <1>10. JobSound(job)'
    <2>1. /\ machine'[job].turn \in Nat \ {0}
          /\ pc'[job] = "run" => machine'[job].turn <= Len(Runs(job))
          /\ pc'[job] = "validate" => machine'[job].turn = Len(Runs(job)) + 1
          /\ pc'[job] \in {"run", "validate"}
      BY <1>1, <1>3, <1>5, RunsType
    <2>2. \A i \in 1 .. Len(Runs(job)) : i < machine'[job].turn => Written(job, i)'
      BY <1>3, <1>9
    <2>3. \A p \in DOMAIN new : \E i \in 1 .. Len(Runs(job)) : p = FileName(job, Runs(job)[i])
      BY <1>0, <1>1, <1>7 DEF JobsInv, JobSound, FilesWritten
    <2>4. job[1] # "openssl" => machine'[job].version = "pinned"
      BY <1>0, <1>3 DEF JobsInv, JobSound, FilesWritten
    <2>. QED BY <1>3, <2>1, <2>2, <2>3, <2>4 DEF JobSound, FilesWritten, FilesWhole
  <1>11. ASSUME NEW j \in Jobs, j # job PROVE JobSound(j)'
    BY <1>3, <1>4, <1>5, <1>11, Untouched DEF JobsInv, AllJobs
  <1>. QED BY <1>6, <1>10, <1>11 DEF JobsInv

(* A validated job has the whole file of every run.                        *)
LEMMA ValidIsWhole ==
  ASSUME NEW job \in Jobs, JobSound(job), pc[job] = "validate", Valid(job)
  PROVE  WholeFiles(job, machine[job].results)
  <1> DEFINE files == machine[job].results
  <1>1. \A path \in DOMAIN files : \E i \in 1 .. Len(Runs(job)) : path = FileName(job, Runs(job)[i])
    BY DEF JobSound, FilesWritten
  <1>2. ASSUME NEW i \in 1 .. Len(Runs(job))
        PROVE  LET run == Runs(job)[i]
               IN  /\ FileName(job, run) \in DOMAIN files
                   /\ files[FileName(job, run)] = Whole(job[2], run[1], run[2])
    <2> DEFINE run == Runs(job)[i]
               file == files[FileName(job, run)]
    <2>1. Written(job, i)
      BY RunsType DEF JobSound, FilesWritten
    <2>2. /\ file = [run |-> run, architecture |-> job[2], version |-> machine[job].version,
                     kept |-> file.kept, cut |-> file.cut]
          /\ file.kept \in Nat /\ file.cut \in BOOLEAN /\ FileName(job, run) \in DOMAIN files
      BY <2>1 DEF Written
    <2>3. /\ Len(Lines(file)) = RowCount(run) /\ Cut \notin ToSet(Lines(file))
          /\ \A row \in ToSet(Lines(file)) : job[1] = "openssl" => row.version = "pinned"
      BY DEF Valid
    <2>4. file.kept = RowCount(run) /\ file.cut = FALSE
      <3> HIDE DEF file
      <3>. QED BY <2>2, <2>3, RowCountType, CountedLines
    <2>5. run = <<run[1], run[2]>> /\ run[2] \in Programs
      BY RunsType DEF Programs
    <2>6. RowCount(run) \in Nat \ {0}
      BY <2>5, SomeRows
    <2>7. machine[job].version = "pinned"
      <3>1. CASE job[1] = "openssl"
        <4>1. Row(file, 1) \in ToSet(Lines(file))
          <5> HIDE DEF file, run
          <5>0. 1 \in 1 .. file.kept
            BY <2>4, <2>6
          <5>1. 1 \in DOMAIN Lines(file) /\ Lines(file)[1] = Row(file, 1)
            BY <2>2, <2>4, <5>0, UncutLines
          <5>. QED BY <5>1 DEF ToSet
        <4>2. Row(file, 1).version = file.version
          BY DEF Row
        <4>3. file.version = machine[job].version
          <5> HIDE DEF run
          <5>. QED BY <2>2
        <4>. QED BY <2>3, <3>1, <4>1, <4>2, <4>3
      <3>2. CASE job[1] # "openssl"
        BY <3>2 DEF JobSound, FilesWritten
      <3>. QED BY <3>1, <3>2
    <2> HIDE DEF run, files
    <2>8. file = Whole(job[2], run[1], run[2])
      BY <2>2, <2>4, <2>5, <2>7 DEF Whole
    <2>. QED BY <2>2, <2>8 DEF run
  <1>. QED BY <1>1, <1>2 DEF WholeFiles

LEMMA ValidateJobsInv ==
  ASSUME JobsInv, NEW job \in Jobs, Validate(job)
  PROVE  JobsInv'
  <1>1. job \in AllJobs /\ pc[job] = "validate" /\ Valid(job)
    BY DEF AllJobs, Validate
  <1>2. /\ pc' = [j \in AllJobs |-> pc'[j]] /\ pc'[job] = "publish"
        /\ \A j \in AllJobs : j # job => pc'[j] = pc[j]
    BY <1>1, Moved DEF JobsInv, Validate
  <1>3. machine' = machine /\ artifacts' = artifacts
    BY DEF Validate
  <1>4. Shaped'
    BY <1>2, <1>3 DEF JobsInv, Shaped
  <1>5. WholeFiles(job, machine[job].results)
    BY <1>1, ValidIsWhole DEF JobsInv
  <1>6. JobSound(job)'
    BY <1>2, <1>3, <1>5 DEF JobsInv, JobSound, FilesWritten, FilesWhole, WholeFiles
  <1>7. ASSUME NEW j \in Jobs, j # job PROVE JobSound(j)'
    BY <1>2, <1>3, <1>7, Untouched DEF JobsInv, AllJobs
  <1>. QED BY <1>4, <1>6, <1>7 DEF JobsInv

LEMMA PublishSummaryJobsInv ==
  ASSUME JobsInv, NEW job \in Jobs, PublishSummary(job)
  PROVE  JobsInv'
  <1>1. job \in AllJobs /\ pc[job] = "publish"
    BY DEF AllJobs, PublishSummary
  <1>2. /\ pc' = [j \in AllJobs |-> pc'[j]] /\ pc'[job] = "upload"
        /\ \A j \in AllJobs : j # job => pc'[j] = pc[j]
    BY <1>1, Moved DEF JobsInv, PublishSummary
  <1>3. machine' = machine /\ artifacts' = artifacts
    BY DEF PublishSummary
  <1>4. Shaped'
    BY <1>2, <1>3 DEF JobsInv, Shaped
  <1>5. JobSound(job)'
    BY <1>1, <1>2, <1>3 DEF JobsInv, JobSound, FilesWritten, FilesWhole, WholeFiles
  <1>6. ASSUME NEW j \in Jobs, j # job PROVE JobSound(j)'
    BY <1>2, <1>3, <1>6, Untouched DEF JobsInv, AllJobs
  <1>. QED BY <1>4, <1>5, <1>6 DEF JobsInv

LEMMA UploadJobsInv ==
  ASSUME JobsInv, NEW job \in Jobs, Upload(job)
  PROVE  JobsInv'
  <1>1. job \in AllJobs /\ pc[job] = "upload"
    BY DEF AllJobs, Upload
  <1>2. /\ pc' = [j \in AllJobs |-> pc'[j]] /\ pc'[job] = "success"
        /\ \A j \in AllJobs : j # job => pc'[j] = pc[j]
    BY <1>1, Moved DEF JobsInv, Upload
  <1>3. /\ machine' = [machine EXCEPT ![job] = Fresh]
        /\ artifacts' = [artifacts EXCEPT ![job] = machine[job].results]
    BY DEF Upload
  <1>4. /\ machine'[job] = Fresh /\ artifacts'[job] = machine[job].results
        /\ \A j \in Jobs : j # job => machine'[j] = machine[j] /\ artifacts'[j] = artifacts[j]
    BY <1>3 DEF JobsInv, Shaped
  <1>5. Shaped'
    BY <1>2, <1>3 DEF JobsInv, Shaped, Fresh
  <1>6. JobSound(job)'
    BY <1>1, <1>2, <1>4
       DEF JobsInv, JobSound, FilesWritten, FilesWhole, WholeFiles, Fresh
  <1>7. ASSUME NEW j \in Jobs, j # job PROVE JobSound(j)'
    BY <1>2, <1>4, <1>7, Untouched DEF JobsInv, AllJobs
  <1>. QED BY <1>5, <1>6, <1>7 DEF JobsInv

(* The last job changes nothing of the others.                             *)
LEMMA LastJobJobsInv ==
  ASSUME JobsInv, Start \/ Skip \/ Download \/ Compare
  PROVE  JobsInv'
  <1>1. PICK step : Goto(LastJob, step)
    BY DEF Start, Skip, Download, Compare
  <1>2. LastJob \in AllJobs /\ \A j \in Jobs : j \in AllJobs /\ j # LastJob
    BY LastJobApart DEF AllJobs
  <1>3. /\ pc' = [j \in AllJobs |-> pc'[j]]
        /\ \A j \in Jobs : pc'[j] = pc[j]
    BY <1>1, <1>2, Moved DEF JobsInv
  <1>4. machine' = machine /\ artifacts' = artifacts
    BY DEF Start, Skip, Download, Compare
  <1>5. Shaped'
    BY <1>3, <1>4 DEF JobsInv, Shaped
  <1>6. ASSUME NEW j \in Jobs PROVE JobSound(j)'
    BY <1>3, <1>4, Untouched DEF JobsInv
  <1>. QED BY <1>5, <1>6 DEF JobsInv

LEMMA StepFailsJobsInv ==
  ASSUME JobsInv, NEW job \in AllJobs, StepFails(job)
  PROVE  JobsInv'
  <1>1. /\ pc' = [j \in AllJobs |-> pc'[j]] /\ pc'[job] = "failure"
        /\ \A j \in AllJobs : j # job => pc'[j] = pc[j]
    BY Moved DEF JobsInv, StepFails
  <1>2. /\ machine' = [j \in Jobs |-> IF j = job THEN Fresh ELSE machine[j]]
        /\ artifacts' = artifacts
    BY DEF StepFails
  <1>3. Shaped'
    BY <1>1, <1>2 DEF JobsInv, Shaped, Fresh
  <1>4. ASSUME NEW j \in Jobs PROVE JobSound(j)'
    <2>1. CASE j = job
      BY <1>1, <1>2, <2>1, GivenUp
    <2>2. CASE j # job
      BY <1>1, <1>2, <2>2, Untouched DEF JobsInv, AllJobs
    <2>. QED BY <2>1, <2>2
  <1>. QED BY <1>3, <1>4 DEF JobsInv

LEMMA CancelJobsInv ==
  ASSUME JobsInv, Cancel
  PROVE  JobsInv'
  <1>1. /\ pc' = [j \in AllJobs |-> IF pc[j] \in Ended THEN pc[j] ELSE "cancelled"]
        /\ machine' = [j \in Jobs |-> Fresh] /\ artifacts' = artifacts
    BY DEF Cancel
  <1>2. Shaped'
    BY <1>1 DEF JobsInv, Shaped, Fresh
  <1>3. ASSUME NEW j \in Jobs
        PROVE  JobSound(j)' /\ (pc'[j] = "build" => machine'[j].turn = 1)
    <2>1. j \in AllJobs
      BY DEF AllJobs
    <2>2. CASE pc[j] \in Ended
      <3>1. pc'[j] = pc[j] /\ pc[j] \notin {"build", "run", "validate", "publish", "upload"}
        BY <1>1, <2>1, <2>2 DEF Ended
      <3>2. FilesWritten(j)'
        BY <1>1, <3>1 DEF FilesWritten, Fresh
      <3>3. FilesWhole(j)'
        BY <1>1, <3>1 DEF JobsInv, JobSound, FilesWhole, WholeFiles
      <3>. QED BY <3>1, <3>2, <3>3 DEF JobSound
    <2>3. CASE pc[j] \notin Ended
      BY <1>1, <2>1, <2>3, GivenUp
    <2>. QED BY <2>2, <2>3
  <1>. QED BY <1>2, <1>3 DEF JobsInv

LEMMA NextJobsInv == JobsInv /\ [Next]_vars => JobsInv'
  <1> SUFFICES ASSUME JobsInv, [Next]_vars PROVE JobsInv'
    OBVIOUS
  <1>1. CASE UNCHANGED vars
    <2>1. pc' = pc /\ machine' = machine /\ artifacts' = artifacts
      BY <1>1 DEF vars
    <2>2. \A j \in Jobs : JobSound(j)'
      BY <2>1, Untouched DEF JobsInv
    <2>. QED BY <2>1, <2>2 DEF JobsInv, Shaped
  <1>2. CASE Step
    BY <1>2, BuildJobsInv, RunJobsInv, ValidateJobsInv, PublishSummaryJobsInv, UploadJobsInv, LastJobJobsInv,
       StepFailsJobsInv, CancelJobsInv DEF Step
  <1>. QED BY <1>1, <1>2 DEF Next, Over

-----------------------------------------------------------------------------
(* The last job                                                            *)

(* A file a job has uploaded is the whole file of a run of that job, and   *)
(* every run is one of a job.                                              *)
LEMMA UploadedFile ==
  ASSUME NEW job \in Jobs, NEW files, WholeFiles(job, files), NEW path \in DOMAIN files
  PROVE  \E b \in AllBackends, p \in Programs :
           path = <<b, job[2], p>> /\ files[path] = Whole(job[2], b, p)
  <1>1. PICK i \in 1 .. Len(Runs(job)) : path = FileName(job, Runs(job)[i])
    BY DEF WholeFiles
  <1>2. job = <<"openssl", job[2]>> \/ job = <<"libressl", job[2]>>
    BY DEF Jobs
  <1>3. job[2] \in Architectures /\ i \in DOMAIN Runs(job)
    BY RunsType DEF Jobs
  <1>4. Runs(job)[i] \in AllBackends \X Programs
    <2>1. CASE job = <<"openssl", job[2]>>
      <3>1. Runs(job)[i] \in {"openssl"} \X Programs
        BY <1>3, <2>1, RunsByBackend
      <3>. QED BY <3>1 DEF AllBackends
    <2>2. CASE job = <<"libressl", job[2]>>
      <3>1. Runs(job)[i] \in {"libressl", "libressl-patched"} \X Programs
        BY <1>3, <2>2, RunsByBackend
      <3>. QED BY <3>1 DEF AllBackends
    <2>. QED BY <1>2, <2>1, <2>2
  <1>5. files[path] = Whole(job[2], Runs(job)[i][1], Runs(job)[i][2])
    BY <1>1 DEF WholeFiles
  <1>6. path = <<Runs(job)[i][1], job[2], Runs(job)[i][2]>>
    BY <1>1 DEF FileName
  <1>. QED BY <1>4, <1>5, <1>6

LEMMA EveryFileUploaded ==
  ASSUME NEW a \in Architectures, NEW b \in AllBackends, NEW p \in Programs
  PROVE  \E job \in Jobs : \A files : WholeFiles(job, files) => <<b, a, p>> \in DOMAIN files
  <1>1. CASE b = "openssl"
    <2> DEFINE job == <<"openssl", a>>
    <2>1. job \in Jobs /\ job[2] = a
      BY DEF Jobs
    <2>2. PICK r \in DOMAIN Runs(job) : Runs(job)[r] = <<"openssl", p>>
      BY RunsByBackend
    <2> HIDE DEF job
    <2>3. FileName(job, Runs(job)[r]) = <<b, a, p>> /\ r \in 1 .. Len(Runs(job))
      BY <1>1, <2>1, <2>2, RunsType DEF FileName
    <2>. QED BY <2>1, <2>3 DEF WholeFiles
  <1>2. CASE b \in {"libressl", "libressl-patched"}
    <2> DEFINE job == <<"libressl", a>>
    <2>1. job \in Jobs /\ job[2] = a
      BY DEF Jobs
    <2>2. PICK r \in DOMAIN Runs(job) : Runs(job)[r] = <<b, p>>
      BY <1>2, RunsByBackend
    <2> HIDE DEF job
    <2>3. FileName(job, Runs(job)[r]) = <<b, a, p>> /\ r \in 1 .. Len(Runs(job))
      BY <2>1, <2>2, RunsType DEF FileName
    <2>. QED BY <2>1, <2>3 DEF WholeFiles
  <1>. QED BY <1>1, <1>2 DEF AllBackends

(* Whichever artifact is extracted last, all files are there and whole.    *)
LEMMA DownloadIsWhole ==
  ASSUME IInv, Download
  PROVE  AllWhole(comparison)'
  <1>1. \A job \in Jobs : WholeFiles(job, artifacts[job])
    BY DEF IInv, JobsInv, JobSound, FilesWhole, LastJobSound, NeedsMet, Download
  <1>2. PICK last \in Jobs :
          comparison' =
            [path \in UNION {DOMAIN artifacts[job] : job \in Jobs} |->
               LET holders == {job \in Jobs : path \in DOMAIN artifacts[job]}
               IN  artifacts[IF last \in holders THEN last
                             ELSE CHOOSE job \in holders : TRUE][path]]
    BY DEF Download
  <1>3. DOMAIN comparison' = UNION {DOMAIN artifacts[job] : job \in Jobs}
    BY <1>2
  <1>4. ASSUME NEW path \in DOMAIN comparison'
        PROVE  \E job \in Jobs : path \in DOMAIN artifacts[job] /\ comparison'[path] = artifacts[job][path]
    <2> DEFINE holders == {job \in Jobs : path \in DOMAIN artifacts[job]}
               holder == IF last \in holders THEN last ELSE CHOOSE job \in holders : TRUE
    <2>1. holders # {}
      BY <1>3
    <2>2. holder \in holders
      BY <2>1
    <2>3. comparison'[path] = artifacts[holder][path]
      BY <1>2, <1>3
    <2> HIDE DEF holder
    <2>. QED BY <2>2, <2>3
  <1>5. ASSUME NEW path \in DOMAIN comparison'
        PROVE  \E a \in Architectures, b \in AllBackends, p \in Programs :
                 path = <<b, a, p>> /\ comparison'[path] = Whole(a, b, p)
    <2>1. PICK job \in Jobs : path \in DOMAIN artifacts[job] /\ comparison'[path] = artifacts[job][path]
      BY <1>4
    <2>2. job[2] \in Architectures
      BY DEF Jobs
    <2>. QED BY <1>1, <2>1, <2>2, UploadedFile
  <1>6. ASSUME NEW a \in Architectures, NEW b \in AllBackends, NEW p \in Programs
        PROVE  <<b, a, p>> \in DOMAIN comparison' /\ comparison'[<<b, a, p>>] = Whole(a, b, p)
    <2>1. <<b, a, p>> \in DOMAIN comparison'
      BY <1>1, <1>3, EveryFileUploaded
    <2>2. PICK c \in Architectures, d \in AllBackends, o \in Programs :
            <<b, a, p>> = <<d, c, o>> /\ comparison'[<<b, a, p>>] = Whole(c, d, o)
      BY <1>5, <2>1
    <2>3. a = c /\ b = d /\ p = o
      BY <2>2
    <2>. QED BY <2>1, <2>2, <2>3
  <1>7. DOMAIN comparison' = {<<b, a, p>> : a \in Architectures, b \in AllBackends, p \in Programs}
    BY <1>5, <1>6
  <1>8. \A a, b, p : Whole(a, b, p)' = Whole(a, b, p)
    BY DEF Whole, RowCount
  <1>. QED BY <1>6, <1>7, <1>8 DEF AllWhole

LEMMA InitLastJob == Init => LastJobSound
  <1> SUFFICES ASSUME Init PROVE LastJobSound
    OBVIOUS
  <1>1. pc[LastJob] = "waiting"
    BY DEF Init, AllJobs
  <1>. QED BY <1>1 DEF Init, LastJobSound

(* A step of a job is one it takes before it has succeeded: then the last  *)
(* job has not started.                                                    *)
LEMMA JobStepLastJob ==
  ASSUME IInv, rate' = rate, NEW job \in Jobs,
         Build(job) \/ Run(job) \/ Validate(job) \/ PublishSummary(job) \/ Upload(job)
  PROVE  LastJobSound' /\ pc'[LastJob] = pc[LastJob] /\ report' = report
  <1>1. pc[job] # "success" /\ job \in AllJobs /\ LastJob \in AllJobs /\ job # LastJob
    BY LastJobApart DEF Build, Run, Validate, PublishSummary, Upload, AllJobs
  <1>2. pc[LastJob] \notin {"download", "publish", "success"}
    BY <1>1 DEF IInv, LastJobSound, NeedsMet
  <1>3. pc'[LastJob] = pc[LastJob]
    <2>1. pc' = pc \/ \E step : Goto(job, step)
      BY DEF Build, Run, Validate, PublishSummary, Upload
    <2>. QED BY <1>1, <2>1, Moved DEF IInv, JobsInv
  <1>4. report' = report /\ comparison' = comparison
    BY DEF Build, Run, Validate, PublishSummary, Upload
  <1>5. report' = << >>
    BY <1>2, <1>4 DEF IInv, LastJobSound
  <1>6. rate' \in Readings
    BY DEF IInv, LastJobSound
  <1>. QED BY <1>2, <1>3, <1>4, <1>5, <1>6 DEF LastJobSound

(* What the last job does.                                                 *)
LEMMA LastJobLastJob ==
  ASSUME IInv, rate' = rate, Start \/ Skip \/ Download \/ Compare
  PROVE  LastJobSound'
  <1>1. LastJob \in AllJobs /\ \A j \in Jobs : j \in AllJobs /\ j # LastJob
    BY LastJobApart DEF AllJobs
  <1>2. rate' \in Readings
    BY DEF IInv, LastJobSound
  <1>3. ASSUME NEW step, Goto(LastJob, step)
        PROVE  pc'[LastJob] = step /\ \A j \in Jobs : pc'[j] = pc[j]
    BY <1>1, <1>3, Moved DEF IInv, JobsInv
  <1>4. CASE Start
    <2>1. pc'[LastJob] = "download" /\ \A j \in Jobs : pc'[j] = "success"
      BY <1>3, <1>4 DEF Start, NeedsMet
    <2>2. report' = << >>
      BY <1>4 DEF IInv, LastJobSound, Start
    <2>. QED BY <1>2, <2>1, <2>2 DEF LastJobSound, NeedsMet
  <1>5. CASE Skip
    <2>1. pc'[LastJob] = "skipped"
      BY <1>3, <1>5 DEF Skip
    <2>2. report' = << >>
      BY <1>5 DEF IInv, LastJobSound, Skip
    <2>. QED BY <1>2, <2>1, <2>2 DEF LastJobSound
  <1>6. CASE Download
    <2>1. pc'[LastJob] = "publish" /\ \A j \in Jobs : pc'[j] = "success"
      BY <1>3, <1>6 DEF Download, IInv, LastJobSound, NeedsMet
    <2>2. report' = << >>
      BY <1>6 DEF IInv, LastJobSound, Download
    <2>3. AllWhole(comparison)'
      BY <1>6, DownloadIsWhole
    <2>. QED BY <1>2, <2>1, <2>2, <2>3 DEF LastJobSound, NeedsMet
  <1>7. CASE Compare
    <2>1. pc'[LastJob] = "success" /\ \A j \in Jobs : pc'[j] = "success"
      BY <1>3, <1>7 DEF Compare, IInv, LastJobSound, NeedsMet
    <2>2. comparison' = comparison /\ AllWhole(comparison)
      BY <1>7 DEF IInv, LastJobSound, Compare
    <2>3. AllWhole(comparison)'
      BY <2>2 DEF AllWhole, Whole, RowCount
    <2>4. report' = render(load_rows(Contents(comparison)))
      BY <1>7 DEF Compare
    <2>5. Contents(comparison)' = Contents(comparison)
      BY <2>2 DEF Contents, Lines, Row
    <2>6. report' = render(load_rows(Contents(comparison)))'
      BY <2>4, <2>5
    <2>. QED BY <1>2, <2>1, <2>3, <2>6 DEF LastJobSound, NeedsMet
  <1>. QED BY <1>4, <1>5, <1>6, <1>7

(* A step that fails ends its job, a cancellation all jobs.                *)
LEMMA EndedLastJob ==
  ASSUME IInv, rate' = rate, (\E job \in AllJobs : StepFails(job)) \/ Cancel
  PROVE  /\ LastJobSound'
         /\ \/ pc'[LastJob] = pc[LastJob]
            \/ pc[LastJob] \notin Ended /\ pc'[LastJob] \in {"failure", "cancelled"}
  <1>0. /\ LastJob \in AllJobs /\ \A j \in Jobs : j \in AllJobs
        /\ pc = [j \in AllJobs |-> pc[j]]
    BY DEF AllJobs, IInv, JobsInv, Shaped
  <1>1. report' = report /\ comparison' = comparison /\ rate' \in Readings
    BY DEF StepFails, Cancel, IInv, LastJobSound
  <1>2. ASSUME NEW j \in AllJobs
        PROVE  \/ pc'[j] = pc[j]
               \/ pc[j] \notin Ended /\ pc'[j] \in {"failure", "cancelled"}
    <2>1. CASE Cancel
      BY <2>1 DEF Cancel
    <2>2. ASSUME NEW job \in AllJobs, StepFails(job)
          PROVE  \/ pc'[j] = pc[j]
                 \/ pc[j] \notin Ended /\ pc'[j] \in {"failure", "cancelled"}
      <3>1. pc' = [pc EXCEPT ![job] = "failure"] /\ pc[job] \notin Ended
        BY <2>2 DEF StepFails, Goto, Active
      <3>. QED BY <1>0, <3>1
    <2>. QED BY <2>1, <2>2
  <1>3. ASSUME NEW j \in Jobs, pc[j] = "success" PROVE pc'[j] = "success"
    BY <1>0, <1>2, <1>3 DEF Ended
  <1>4. CASE pc'[LastJob] = pc[LastJob]
    <2>1. pc'[LastJob] \in {"download", "publish", "success"} => NeedsMet'
      BY <1>3, <1>4 DEF IInv, LastJobSound, NeedsMet
    <2>2. pc'[LastJob] \in {"publish", "success"} => AllWhole(comparison)'
      BY <1>1, <1>4 DEF IInv, LastJobSound, AllWhole, Whole, RowCount
    <2>3. Contents(comparison)' = Contents(comparison)
      BY <1>1 DEF Contents, Lines, Row
    <2>4. report' = IF pc'[LastJob] = "success" THEN render(load_rows(Contents(comparison)))' ELSE << >>
      BY <1>1, <1>4, <2>3 DEF IInv, LastJobSound
    <2>. QED BY <1>1, <1>4, <2>1, <2>2, <2>4 DEF LastJobSound
  <1>5. CASE pc[LastJob] \notin Ended /\ pc'[LastJob] \in {"failure", "cancelled"}
    <2>1. report' = << >>
      BY <1>1, <1>5 DEF IInv, LastJobSound, Ended
    <2>. QED BY <1>1, <1>5, <2>1 DEF LastJobSound
  <1>. QED BY <1>0, <1>2, <1>4, <1>5

LEMMA UnchangedIInv ==
  ASSUME IInv, UNCHANGED vars
  PROVE  IInv'
  <1>1. /\ pc' = pc /\ machine' = machine /\ artifacts' = artifacts
        /\ comparison' = comparison /\ report' = report /\ rate' = rate
    BY DEF vars, environment
  <1>2. \A j \in Jobs : JobSound(j)'
    BY <1>1, Untouched DEF IInv, JobsInv
  <1>3. JobsInv'
    BY <1>1, <1>2 DEF IInv, JobsInv, Shaped
  <1>4. Contents(comparison)' = Contents(comparison)
    BY <1>1 DEF Contents, Lines, Row
  <1>5. AllWhole(comparison)' = AllWhole(comparison)
    BY <1>1 DEF AllWhole, Whole, RowCount
  <1>6. LastJobSound'
    BY <1>1, <1>4, <1>5 DEF IInv, LastJobSound, NeedsMet
  <1>. QED BY <1>3, <1>6 DEF IInv

LEMMA NextIInv == IInv /\ [Next]_vars => IInv'
  <1> SUFFICES ASSUME IInv, [Next]_vars PROVE IInv'
    OBVIOUS
  <1>1. CASE UNCHANGED vars
    BY <1>1, UnchangedIInv
  <1>2. CASE Step /\ UNCHANGED environment
    <2>1. JobsInv'
      BY <1>2, BuildJobsInv, RunJobsInv, ValidateJobsInv, PublishSummaryJobsInv, UploadJobsInv,
         LastJobJobsInv, StepFailsJobsInv, CancelJobsInv DEF IInv, Step
    <2>2. rate' = rate
      BY <1>2 DEF environment
    <2>3. LastJobSound'
      BY <1>2, <2>2, JobStepLastJob, LastJobLastJob, EndedLastJob DEF Step
    <2>. QED BY <2>1, <2>3 DEF IInv
  <1>. QED BY <1>1, <1>2 DEF Next, Over

LEMMA InitIInv == Init => IInv
  BY InitJobsInv, InitLastJob DEF IInv

LEMMA IInvHolds == Spec => []IInv
  BY InitIInv, NextIInv, PTL DEF Spec

-----------------------------------------------------------------------------
(* Theorems                                                                *)

(* NothingPartial for every set of architectures, matrix and number of     *)
(* samples, whatever fails, hangs or is cancelled and wherever a disk      *)
(* fills up: what a job shows or uploads has all rows of all its runs.     *)
THEOREM NothingPartialIsPublished == Spec => []NothingPartial
  <1>1. ASSUME NEW job \in Jobs, NEW files, WholeFiles(job, files)
        PROVE  Complete(job, files)
    <2> SUFFICES ASSUME NEW i \in 1 .. Len(Runs(job))
                 PROVE  LET run == Runs(job)[i]
                            path == FileName(job, run)
                        IN  /\ path \in DOMAIN files
                            /\ files[path].run = run /\ files[path].kept = RowCount(run)
                            /\ ~files[path].cut
      BY DEF Complete
    <2> DEFINE run == Runs(job)[i]
               path == FileName(job, run)
    <2>1. path \in DOMAIN files /\ files[path] = Whole(job[2], run[1], run[2])
      BY <1>1 DEF WholeFiles
    <2>2. run = <<run[1], run[2]>>
      BY RunsType
    <2> HIDE DEF run, path
    <2>3. files[path].run = run /\ files[path].kept = RowCount(run) /\ ~files[path].cut
      BY <2>1, <2>2 DEF Whole
    <2>. QED BY <2>1, <2>3 DEF run, path
  <1>2. IInv => NothingPartial
    BY <1>1 DEF IInv, JobsInv, JobSound, FilesWhole, NothingPartial
  <1>. QED BY <1>2, IInvHolds, PTL

LEMMA ReportKnown ==
  ASSUME IInv
  PROVE  \/ report = << >>
         \/ /\ RowsKnown(load_rows(Contents(comparison))) /\ rate \in Readings
            /\ report = render(load_rows(Contents(comparison)))
  BY RowsOfFiles DEF IInv, LastJobSound

(* OneRunPerCell for every matrix: the comparison never mixes runs, and    *)
(* its versions are those of all rows behind them.                         *)
THEOREM CellsAreOfOneRun == Spec => []OneRunPerCell
  <1>1. IInv => OneRunPerCell
    BY ReportKnown, ReportIsOneRunPerCell DEF OneRunPerCell
  <1>. QED BY <1>1, IInvHolds, PTL

(* RatiosWithinArchitecture for every matrix and all rates measured.       *)
THEOREM RatiosAreWithinArchitecture == Spec => []RatiosWithinArchitecture
  <1>1. ASSUME IInv PROVE RatiosWithinArchitecture
    <2>1. CASE report = << >>
      <3>1. DOMAIN report = {}
        BY <2>1
      <3>. QED BY <3>1 DEF RatiosWithinArchitecture
    <2>. QED BY <1>1, <2>1, ReportKnown, ReportIsWithinArchitecture
  <1>. QED BY <1>1, IInvHolds, PTL

LEMMA InitPublished == Init => Published!Init
  <1> SUFFICES ASSUME Init PROVE Published!Init
    OBVIOUS
  <1>1. Outcome = "open"
    <2>1. pc[LastJob] = "waiting"
      BY DEF Init, AllJobs
    <2>. QED BY <2>1 DEF Outcome, Ended
  <1>2. DOMAIN rate = Experiments
    BY PipelineAssumption DEF Init
  <1>3. Medians = << >>
    <2>1. DOMAIN report = {}
      BY DEF Init
    <2> DEFINE cells == {}
    <2>2. Medians = [e \in {} |-> report[e[1]].tables[e[3]][e[4]].cells[e[2]]]
      BY <2>1 DEF Medians
    <2>. QED BY <2>2
  <1>. QED BY <1>1, <1>2, <1>3 DEF Published!Init

(* What has been published are medians of all experiments.                 *)
MediansRight ==
  pc[LastJob] = "success" =>
    DOMAIN Medians = Experiments /\ \A e \in Experiments : Published!IsMedian2(Medians[e], rate[e])

LEMMA MediansAreRight == IInv => MediansRight
  <1> SUFFICES ASSUME IInv, pc[LastJob] = "success"
               PROVE  /\ DOMAIN Medians = Experiments
                      /\ \A e \in Experiments : Published!IsMedian2(Medians[e], rate[e])
    BY DEF MediansRight
  <1>1. /\ AllWhole(comparison) /\ rate \in Readings
        /\ report = render(load_rows(Contents(comparison)))
    BY DEF IInv, LastJobSound
  <1>2. RowsKnown(load_rows(Contents(comparison)))
    BY <1>1, RowsOfFiles
  <1>. QED BY <1>1, <1>2, ReportIsWhole

(* Every step of the workflow is one of the publication or a stutter.      *)
LEMMA NextPublished ==
  ASSUME IInv, MediansRight', [Next]_vars
  PROVE  [Published!Next]_Published!vars
  <1>0. rate' = rate
    BY DEF Next, Over, vars, environment
  <1>1. ASSUME report' = report PROVE Medians' = Medians
    BY <1>1 DEF Medians
  <1>2. ASSUME pc'[LastJob] = pc[LastJob] PROVE Outcome' = Outcome
    BY <1>2 DEF Outcome
  <1>3. ASSUME report' = report, pc'[LastJob] = pc[LastJob]
        PROVE  UNCHANGED Published!vars
    BY <1>0, <1>1, <1>2, <1>3 DEF Published!vars
  <1>4. ASSUME report' = report, pc[LastJob] \notin Ended, pc'[LastJob] \in Ended \ {"success"}
        PROVE  Published!Abandon
    <2>1. Outcome = "open" /\ Outcome' = "abandoned"
      BY <1>4 DEF Outcome, Ended
    <2>. QED BY <1>0, <1>1, <1>4, <2>1 DEF Published!Abandon
  <1>5. LastJob \in AllJobs
    BY DEF AllJobs
  <1>6. CASE UNCHANGED vars
    BY <1>3, <1>6 DEF vars
  <1>7. ASSUME NEW job \in Jobs,
               Build(job) \/ Run(job) \/ Validate(job) \/ PublishSummary(job) \/ Upload(job)
        PROVE  UNCHANGED Published!vars
    BY <1>0, <1>3, <1>7, JobStepLastJob
  <1>8. CASE Start \/ Download
    <2>1. report' = report
      BY <1>8 DEF Start, Download
    <2>2. pc[LastJob] \in {"waiting", "download"} /\ pc'[LastJob] \in {"download", "publish"}
      BY <1>5, <1>8, Moved DEF Start, Download, IInv, JobsInv
    <2>3. Outcome = "open" /\ Outcome' = "open"
      BY <2>2 DEF Outcome, Ended
    <2>. QED BY <1>0, <1>1, <2>1, <2>3 DEF Published!vars
  <1>9. CASE Skip
    <2>1. report' = report /\ pc[LastJob] = "waiting" /\ pc'[LastJob] = "skipped"
      BY <1>5, <1>9, Moved DEF Skip, IInv, JobsInv
    <2>. QED BY <1>4, <2>1 DEF Ended, Published!Next
  <1>10. CASE (\E job \in AllJobs : StepFails(job)) \/ Cancel
    <2>1. report' = report
      BY <1>10 DEF StepFails, Cancel
    <2>2. \/ pc'[LastJob] = pc[LastJob]
          \/ pc[LastJob] \notin Ended /\ pc'[LastJob] \in {"failure", "cancelled"}
      BY <1>0, <1>10, EndedLastJob
    <2>. QED BY <1>3, <1>4, <2>1, <2>2 DEF Ended, Published!Next
  <1>11. CASE Compare
    <2>1. pc[LastJob] = "publish" /\ pc'[LastJob] = "success"
      BY <1>5, <1>11, Moved DEF Compare, IInv, JobsInv
    <2>2. Outcome = "open" /\ Outcome' = "published"
      BY <2>1 DEF Outcome, Ended
    <2>3. DOMAIN Medians' = Experiments /\ \A e \in Experiments : Published!IsMedian2(Medians'[e], rate'[e])
      BY <2>1 DEF MediansRight, Published!IsMedian2, Published!Cardinality
    <2>. QED BY <1>0, <2>2, <2>3 DEF Published!Publish, Published!Next
  <1>. QED BY <1>6, <1>7, <1>8, <1>9, <1>10, <1>11 DEF Next, Step, Over

(* PublishedWhole for every matrix: the workflow implements Publication.   *)
THEOREM ComparisonIsPublishedWhole == Spec => PublishedWhole
  <1>1. IInv /\ MediansRight' /\ [Next]_vars => [Published!Next]_Published!vars
    BY NextPublished
  <1>. QED BY <1>1, InitPublished, MediansAreRight, IInvHolds, PTL
       DEF Spec, PublishedWhole, Published!Spec

-----------------------------------------------------------------------------
(* Termination                                                             *)

(* The steps a job has left, at most, when it is at a step.                *)
Left(job, step, turn) ==
  CASE step \in Ended -> 0
    [] step = "build" /\ job # LastJob -> Len(Runs(job)) + 4
    [] step = "run" /\ job # LastJob -> Len(Runs(job)) - turn + 4
    [] step \in {"waiting", "validate"} -> 3
    [] step = "download" \/ (step = "publish" /\ job # LastJob) -> 2
    [] OTHER -> 1

Before(job) == Left(job, pc[job], machine[job].turn)
After(job) == Left(job, pc'[job], machine'[job].turn)

Forward ==
  /\ \A job \in AllJobs : Before(job) \in Nat /\ After(job) \in 0 .. Before(job)
  /\ \E job \in AllJobs : After(job) < Before(job)

LEMMA BeforeFacts ==
  ASSUME IInv, NEW job \in AllJobs
  PROVE  /\ Before(job) \in Nat
         /\ pc[job] \notin Ended => Before(job) >= 1
  <1>1. CASE job # LastJob
    <2>1. job \in Jobs
      BY <1>1 DEF AllJobs
    <2>2. /\ Len(Runs(job)) \in Nat
          /\ pc[job] = "run" => machine[job].turn \in Nat /\ machine[job].turn <= Len(Runs(job))
      BY <2>1, RunsType DEF IInv, JobsInv, JobSound, FilesWritten
    <2>. QED BY <2>2 DEF Before, Left, Ended
  <1>2. CASE job = LastJob
    BY <1>2 DEF Before, Left, Ended
  <1>. QED BY <1>1, <1>2

(* One job moves and the others stand.                                     *)
LEMMA OneForward ==
  ASSUME IInv, NEW job \in AllJobs, After(job) \in Nat, After(job) < Before(job),
         \A j \in AllJobs : j # job => After(j) = Before(j)
  PROVE  Forward
  <1>1. ASSUME NEW j \in AllJobs
        PROVE  Before(j) \in Nat /\ After(j) \in 0 .. Before(j)
    BY <1>1, BeforeFacts
  <1>. QED BY <1>1 DEF Forward

(* A run moves the turn of its job.                                        *)
LEMMA RunTurn ==
  ASSUME Shaped, NEW job \in Jobs, Run(job)
  PROVE  /\ machine'[job].turn = machine[job].turn + 1
         /\ \A j \in Jobs : j # job => machine'[j] = machine[j]
  <1> DEFINE halfway == [machine EXCEPT ![job].turn = @ + 1]
  <1>1. PICK new : machine' = [halfway EXCEPT ![job].results = new]
    BY DEF Run
  <1>2. /\ halfway = [j \in Jobs |->
             [version |-> halfway[j].version, turn |-> halfway[j].turn,
              results |-> halfway[j].results]]
        /\ halfway[job].turn = machine[job].turn + 1
        /\ \A j \in Jobs : j # job => halfway[j] = machine[j]
    BY DEF Shaped
  <1> HIDE DEF halfway
  <1>3. machine'[job] = [halfway[job] EXCEPT !.results = new]
    BY <1>1, <1>2
  <1>4. halfway[job] = [version |-> halfway[job].version, turn |-> halfway[job].turn,
                        results |-> halfway[job].results]
    BY <1>2
  <1>5. machine'[job].turn = halfway[job].turn
    BY <1>3, <1>4
  <1>6. \A j \in Jobs : j # job => machine'[j] = halfway[j]
    BY <1>1, <1>2
  <1>. QED BY <1>2, <1>5, <1>6

LEMMA JobStepForward ==
  ASSUME IInv, NEW job \in Jobs,
         Build(job) \/ Run(job) \/ Validate(job) \/ PublishSummary(job) \/ Upload(job)
  PROVE  Forward
  <1>1. job \in AllJobs /\ job # LastJob /\ LastJob \in AllJobs
    BY LastJobApart DEF AllJobs
  <1>2. /\ Shaped /\ Len(Runs(job)) \in Nat /\ machine[job].turn \in Nat
        /\ pc[job] = "build" => machine[job].turn = 1
        /\ pc[job] = "run" => machine[job].turn <= Len(Runs(job))
    BY RunsType DEF IInv, JobsInv, JobSound, FilesWritten
  <1>3. ASSUME NEW step, Goto(job, step), NEW turn, machine'[job].turn = turn,
               \A j \in Jobs : j # job => machine'[j] = machine[j],
               Left(job, step, turn) \in Nat, Left(job, step, turn) < Before(job)
        PROVE  Forward
    <2>1. pc'[job] = step /\ \A j \in AllJobs : j # job => pc'[j] = pc[j]
      BY <1>1, <1>2, <1>3, Moved
    <2>2. After(LastJob) = Before(LastJob)
      BY <1>1, <2>1 DEF After, Before, Left
    <2>3. \A j \in AllJobs : j # job => After(j) = Before(j)
      BY <1>3, <2>1, <2>2 DEF After, Before, AllJobs
    <2>4. After(job) = Left(job, step, turn)
      BY <1>3, <2>1 DEF After
    <2>. QED BY <1>1, <1>3, <2>3, <2>4, OneForward
  <1>4. CASE Build(job)
    <2>1. /\ pc[job] = "build" /\ Goto(job, "run") /\ machine'[job].turn = machine[job].turn
          /\ \A j \in Jobs : j # job => machine'[j] = machine[j]
      BY <1>2, <1>4 DEF Build, Shaped
    <2>2. Left(job, "run", 1) = Len(Runs(job)) + 3 /\ Before(job) = Len(Runs(job)) + 4
      BY <1>1, <1>2, <2>1 DEF Before, Left, Ended
    <2>. QED BY <1>2, <1>3, <2>1, <2>2
  <1>5. CASE Run(job)
    <2> DEFINE turn == machine[job].turn
    <2>1. /\ pc[job] = "run"
          /\ IF turn < Len(Runs(job)) THEN UNCHANGED pc ELSE Goto(job, "validate")
      BY <1>5 DEF Run
    <2>2. machine'[job].turn = turn + 1 /\ \A j \in Jobs : j # job => machine'[j] = machine[j]
      BY <1>2, <1>5, RunTurn DEF Shaped
    <2>3. Before(job) = Len(Runs(job)) - turn + 4 /\ turn \in Nat /\ turn <= Len(Runs(job))
      BY <1>1, <1>2, <2>1 DEF Before, Left, Ended
    <2> HIDE DEF turn
    <2>4. CASE turn < Len(Runs(job))
      <3>1. Goto(job, "run")
        BY <1>1, <1>2, <2>1, <2>4 DEF Goto, Shaped
      <3>2. Left(job, "run", turn + 1) = Len(Runs(job)) - (turn + 1) + 4
        BY <1>1 DEF Left, Ended
      <3>3. Left(job, "run", turn + 1) \in Nat /\ Left(job, "run", turn + 1) < Before(job)
        BY <1>2, <2>3, <2>4, <3>2
      <3>. QED BY <1>3, <2>2, <3>1, <3>3
    <2>5. CASE ~(turn < Len(Runs(job)))
      <3>1. Left(job, "validate", turn + 1) = 3
        BY <1>1 DEF Left, Ended
      <3>2. Left(job, "validate", turn + 1) \in Nat /\ Left(job, "validate", turn + 1) < Before(job)
        BY <1>2, <2>3, <3>1
      <3>. QED BY <1>3, <2>1, <2>2, <2>5, <3>2
    <2>. QED BY <2>4, <2>5
  <1>6. CASE Validate(job)
    <2>1. pc[job] = "validate" /\ Goto(job, "publish") /\ machine' = machine
      BY <1>6 DEF Validate
    <2>2. Left(job, "publish", machine[job].turn) = 2 /\ Before(job) = 3
      BY <1>1, <2>1 DEF Before, Left, Ended
    <2>. QED BY <1>3, <2>1, <2>2
  <1>7. CASE PublishSummary(job)
    <2>1. pc[job] = "publish" /\ Goto(job, "upload") /\ machine' = machine
      BY <1>7 DEF PublishSummary
    <2>2. Left(job, "upload", machine[job].turn) = 1 /\ Before(job) = 2
      BY <1>1, <2>1 DEF Before, Left, Ended
    <2>. QED BY <1>3, <2>1, <2>2
  <1>8. CASE Upload(job)
    <2>1. /\ pc[job] = "upload" /\ Goto(job, "success")
          /\ \A j \in Jobs : j # job => machine'[j] = machine[j]
      BY <1>2, <1>8 DEF Upload, Shaped
    <2>2. Left(job, "success", machine'[job].turn) = 0 /\ Before(job) = 1
      BY <1>1, <2>1 DEF Before, Left, Ended
    <2>. QED BY <1>3, <2>1, <2>2
  <1>. QED BY <1>4, <1>5, <1>6, <1>7, <1>8

LEMMA LastJobForward ==
  ASSUME IInv, Start \/ Skip \/ Download \/ Compare
  PROVE  Forward
  <1>1. LastJob \in AllJobs /\ Shaped
    BY DEF AllJobs, IInv, JobsInv
  <1>2. machine' = machine
    BY DEF Start, Skip, Download, Compare
  <1>3. PICK step : /\ Goto(LastJob, step)
                    /\ \/ pc[LastJob] = "waiting" /\ step \in {"download", "skipped"}
                       \/ pc[LastJob] = "download" /\ step = "publish"
                       \/ pc[LastJob] = "publish" /\ step = "success"
    BY DEF Start, Skip, Download, Compare
  <1>4. pc'[LastJob] = step /\ \A j \in AllJobs : j # LastJob => pc'[j] = pc[j]
    BY <1>1, <1>3, Moved
  <1>5. After(LastJob) \in Nat /\ After(LastJob) < Before(LastJob)
    BY <1>3, <1>4 DEF After, Before, Left, Ended
  <1>6. \A j \in AllJobs : j # LastJob => After(j) = Before(j)
    BY <1>2, <1>4 DEF After, Before
  <1>. QED BY <1>1, <1>5, <1>6, OneForward

LEMMA EndForward ==
  ASSUME IInv, (\E job \in AllJobs : StepFails(job)) \/ Cancel
  PROVE  Forward
  <1>1. CASE Cancel
    <2>1. ASSUME NEW j \in AllJobs PROVE After(j) = 0
      BY <1>1 DEF Cancel, After, Left, Ended
    <2>2. PICK job \in AllJobs : pc[job] \notin Ended
      BY <1>1 DEF Cancel
    <2>. QED BY <2>1, <2>2, BeforeFacts DEF Forward
  <1>2. ASSUME NEW job \in AllJobs, StepFails(job) PROVE Forward
    <2>1. /\ pc[job] \notin Ended /\ Goto(job, "failure") /\ Shaped
          /\ \A j \in Jobs : j # job => machine'[j] = machine[j]
      BY <1>2 DEF StepFails, Active, IInv, JobsInv
    <2>2. pc'[job] = "failure" /\ \A j \in AllJobs : j # job => pc'[j] = pc[j]
      BY <2>1, Moved
    <2>3. After(job) = 0
      BY <2>2 DEF After, Left, Ended
    <2>4. LastJob # job => After(LastJob) = Before(LastJob)
      BY <2>2 DEF After, Before, Left, AllJobs
    <2>5. \A j \in AllJobs : j # job => After(j) = Before(j)
      BY <2>1, <2>2, <2>4 DEF After, Before, AllJobs
    <2>6. Before(job) \in Nat /\ Before(job) >= 1
      BY <2>1, BeforeFacts
    <2>. QED BY <2>3, <2>5, <2>6, OneForward
  <1>. QED BY <1>1, <1>2

(* Whatever fails or is cancelled, each step brings a job closer to its    *)
(* end and sets none back: no step is repeated, and the workflow is over   *)
(* after as many steps as its jobs have together.                          *)
THEOREM EveryStepIsForward == Spec => [][Forward]_vars
  <1>1. IInv /\ [Next]_vars => [Forward]_vars
    BY JobStepForward, LastJobForward, EndForward DEF Next, Step, Over
  <1>. QED BY <1>1, IInvHolds, PTL DEF Spec
==============================================================================
