------------------------------- MODULE MCTlsMain -------------------------------
(* Every list of up to four arguments over fourteen words, on a machine    *)
(* whose uint64_t has eight bits, int four with the sign, unsigned four,   *)
(* and whose milliseconds have ten nanoseconds.                            *)
EXTENDS TlsMain

Words == {"--list", "--benchmark", "--cipher", "--size", "--samples", "--sample-ms",
          "all", "B", "transfer", "handshake", "0", "3", "-251", "-240"}
MCNumeral == ("0" :> 0) @@ ("3" :> 3) @@ ("-251" :> -251) @@ ("-240" :> -240)
MCArgLists == UNION {[1 .. n -> Words] : n \in 0 .. 4} \cup
              {<<"--help">>, <<"--format", "x">>, <<"--cert", "--key">>,
               <<"--cert", "x", "--key", "y">>, <<"--cipher", "x">>}
MCWordOptions == {"--benchmark", "--cipher", "--format", "--cert", "--key"}
MCNumberOptions == {"--size", "--samples", "--sample-ms"}
MCLeast == [opt \in MCNumberOptions |-> 1]
MCLargest == [opt \in MCNumberOptions |->
                CASE opt = "--samples" -> 15 [] opt = "--sample-ms" -> 255 \div 10
                  [] OTHER -> 7]
MCUnit == [opt \in MCNumberOptions |-> IF opt = "--sample-ms" THEN 10 ELSE 1]
MCValues == [opt \in MCNumberOptions |-> IF opt = "--samples" THEN 16 ELSE 256]
MCDefaults == [opt \in MCWordOptions \cup MCNumberOptions |->
                 CASE opt \in {"--benchmark", "--cipher"} -> "all"
                   [] opt = "--format" -> "jsonl"
                   [] opt \in {"--cert", "--key"} -> "built in"
                   [] opt = "--size" -> 0 [] opt = "--samples" -> 7 [] OTHER -> 20]
MCCiphers == <<"A", "B">>
MCSizes == <<4, 6>>

ASSUME TlsMainAssumption
==============================================================================
