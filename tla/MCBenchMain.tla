------------------------------ MODULE MCBenchMain ------------------------------
(* Every list of up to four arguments over fourteen words, on a machine    *)
(* whose uint64_t has eight bits, unsigned four and int three, and whose   *)
(* milliseconds have ten nanoseconds.                                      *)
EXTENDS BenchMain

Words == {"--help", "--algorithm", "--operation", "--size", "--samples",
          "--sample-ms", "--aad-size", "all", "A", "seal", "0", "3", "-251", "-240"}
MCNumeral == ("0" :> 0) @@ ("3" :> 3) @@ ("-251" :> -251) @@ ("-240" :> -240)
MCArgLists == UNION {[1 .. n -> Words] : n \in 0 .. 4} \cup
              {<<"--list">>, <<"--format", "x">>, <<"--algorithm", "x">>, <<"--bogus", "0">>}
MCWordOptions == {"--algorithm", "--operation", "--format"}
MCNumberOptions == {"--size", "--aad-size", "--samples", "--sample-ms"}
MCLeast == [opt \in MCNumberOptions |-> IF opt = "--aad-size" THEN 0 ELSE 1]
MCLargest == [opt \in MCNumberOptions |->
                CASE opt = "--samples" -> 15 [] opt = "--sample-ms" -> 255 \div 10
                  [] OTHER -> 255]
MCUnit == [opt \in MCNumberOptions |-> IF opt = "--sample-ms" THEN 10 ELSE 1]
MCValues == [opt \in MCNumberOptions |-> IF opt = "--samples" THEN 16 ELSE 256]
MCDefaults == [opt \in MCWordOptions \cup MCNumberOptions |->
                 CASE opt \in {"--algorithm", "--operation"} -> "all"
                   [] opt = "--format" -> "jsonl"
                   [] opt = "--size" -> 0 [] opt = "--aad-size" -> 5
                   [] opt = "--samples" -> 7 [] OTHER -> 20]
MCAlgorithms == <<"A", "B">>
MCSizes == <<4, 6>>

ASSUME BenchMainAssumption
==============================================================================
