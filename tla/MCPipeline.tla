------------------------------ MODULE MCPipeline ------------------------------
(* Two architectures, one case per table and three samples of each, among  *)
(* them a baseline that measures zero; the disk of one job of either       *)
(* library may fill up.                                                    *)
EXTENDS Pipeline, TLC

MCArchitectures == {"x86_64", "arm64"}
MCCases == [aead |-> <<[table |-> "aead", key |-> "AES/seal/64"]>>,
            tls |-> <<[table |-> "handshake", key |-> "AES"],
                      [table |-> "transfer", key |-> "AES/1024"]>>]

(* Rates that differ between all experiments, with the median neither      *)
(* first nor last nor the mean.                                            *)
Scale == [openssl |-> 100, libressl |-> 200] @@ ("libressl-patched" :> 300)
Offset == [x86_64 |-> 10, arm64 |-> 40, aead |-> 1, handshake |-> 2, transfer |-> 3]
Reading(e) == LET r == Scale[e[2]] + Offset[e[1]] + Offset[e[3]] IN <<r + 9, r, r + 3>>
MCReadings ==
  {[e \in Experiments |->
      IF e = <<"arm64", "libressl", "handshake", "AES">> THEN <<0, 5, 0>> ELSE Reading(e)]}
MCPaths ==
  <<<<"libressl", "arm64", "tls">>, <<"libressl", "arm64", "aead">>,
    <<"libressl-patched", "arm64", "tls">>, <<"libressl-patched", "arm64", "aead">>,
    <<"libressl-patched", "x86_64", "tls">>, <<"libressl-patched", "x86_64", "aead">>,
    <<"libressl", "x86_64", "tls">>, <<"libressl", "x86_64", "aead">>,
    <<"openssl", "arm64", "tls">>, <<"openssl", "arm64", "aead">>,
    <<"openssl", "x86_64", "tls">>, <<"openssl", "x86_64", "aead">>>>
MCFullDisks == {{<<"openssl", "x86_64">>}, {<<"libressl", "arm64">>}}
==============================================================================
