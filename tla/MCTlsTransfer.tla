----------------------------- MODULE MCTlsTransfer -----------------------------
(* Messages below, at and above one and two records.                       *)
EXTENDS TlsTransfer

MCSizes == 1 .. 7
==============================================================================
