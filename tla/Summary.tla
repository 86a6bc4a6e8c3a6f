-------------------------------- MODULE Summary --------------------------------
(***************************************************************************)
(* What scripts/summarize_results.py makes of result files.  A file is a   *)
(* sequence of lines; a line is the row of one sample or Cut, the rest of  *)
(* a row that was not written to its end.  A row says which table it       *)
(* belongs to (by its fields "algorithm" or "benchmark"), its key there    *)
(* (the fields the table groups by) and its rate.  A list of rows is a     *)
(* function of places, the number of a file and of a line in it, which are *)
(* ordered; to select some of the rows keeps their places.  Formatting is  *)
(* left out.                                                               *)
(***************************************************************************)
EXTENDS Integers, Sequences, FiniteSets

Cut == [cut |-> TRUE]

(* load_rows: the lines of all files; a line that is no JSON and the lack  *)
(* of any line are errors.                                                 *)
load_rows(files) ==
  [place \in UNION {{f} \X DOMAIN files[f] : f \in DOMAIN files} |->
     files[place[1]][place[2]]]

Loads(files) ==
  LET rows == load_rows(files)
  IN  DOMAIN rows # {} /\ \A place \in DOMAIN rows : rows[place] # Cut

Select(rows, field, value) ==
  [place \in {p \in DOMAIN rows : rows[p][field] = value} |-> rows[place]]

Values(rows, field) == {rows[place][field] : place \in DOMAIN rows}

(* The last of the rows, in the order of the files and of their lines.     *)
LastRow(rows) ==
  rows[CHOOSE last \in DOMAIN rows : \A place \in DOMAIN rows :
         place[1] < last[1] \/ (place[1] = last[1] /\ place[2] <= last[2])]

(* What is at a rank, from 1, of the sorted samples.                       *)
Ranked(samples, rank) ==
  CHOOSE v \in {samples[i] : i \in DOMAIN samples} :
    /\ Cardinality({i \in DOMAIN samples : samples[i] < v}) < rank
    /\ Cardinality({i \in DOMAIN samples : samples[i] <= v}) >= rank

(* statistics.median, doubled so that it is an integer for an even number  *)
(* of samples: the one in the middle, or the mean of both.                 *)
Median2(samples) ==
  LET n == Cardinality(DOMAIN samples)
  IN  Ranked(samples, (n + 1) \div 2) + Ranked(samples, n \div 2 + 1)

Rates(rows) == [place \in DOMAIN rows |-> rows[place].rate]

(* aggregate: for each key, for each backend that has rows of it, the      *)
(* median rate.                                                            *)
aggregate(rows) ==
  [key \in Values(rows, "key") |->
     LET mine == Select(rows, "key", key)
     IN  [backend \in Values(mine, "backend") |->
            Median2(Rates(Select(mine, "backend", backend)))]]

NoRatio == [of |-> 0, to |-> 0]

(* ratio_cell and patched_ratio_cell, as the two numbers divided.          *)
ratio_cell(values, backend) ==
  IF {backend, "libressl"} \subseteq DOMAIN values /\ values["libressl"] # 0
    THEN [of |-> values[backend], to |-> values["libressl"]] ELSE NoRatio

(* The ratio columns a table has.                                          *)
append_ratios(values, backends) ==
  [backend \in IF "libressl" \in backends
                 THEN backends \cap {"openssl", "libressl-patched"} ELSE {} |->
     ratio_cell(values, backend)]

(* render_architecture: the version shown for a backend is that of its     *)
(* last row; there is a table for each kind of rows there are.             *)
render_architecture(rows) ==
  LET backends == Values(rows, "backend")
  IN  [versions |-> [b \in backends |-> LastRow(Select(rows, "backend", b)).version],
       tables |-> [t \in Values(rows, "table") |->
          LET data == aggregate(Select(rows, "table", t))
          IN  [key \in DOMAIN data |->
                 [cells |-> data[key], ratios |-> append_ratios(data[key], backends)]]]]

(* Mutant: the rows of all architectures are in every section.             *)
AllTogether(rows) ==
  [a \in Values(rows, "architecture") |-> render_architecture(rows)]

(* render: architectures are kept apart before anything is aggregated.     *)
render(rows) ==
  [a \in Values(rows, "architecture") |->
     render_architecture(Select(rows, "architecture", a))]
==============================================================================
