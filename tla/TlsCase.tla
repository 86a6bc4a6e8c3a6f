-------------------------------- MODULE TlsCase --------------------------------
(***************************************************************************)
(* The backend of one TLS case, from creation to destruction:              *)
(* ofb_tls_backend_create, _verify, _run_batch and _destroy                *)
(* (backends/openssl_tls.c), in the order run_case (src/tls_main.c) calls  *)
(* them.  What happens inside tls_pair_create is module TlsPair, inside    *)
(* transfer_once module TlsTransfer; here they succeed or fail as a whole. *)
(***************************************************************************)
EXTENDS CaseState

CONSTANTS
  TransferSizes,  \* message sizes of transfer cases
  Ciphers         \* the cipher suites: asked for, and negotiated

ASSUME TlsCaseAssumption == TransferSizes \subseteq Nat

TlsMembers == {"state", "client_ctx", "server_ctx", "plaintext", "received"}
Objects == TlsMembers \cup {"transfer_pair", "pair"}

VARIABLES
  benchmark,  \* "handshake" or "transfer"
  cipher,     \* the suite asked for
  suite,      \* the suite the library negotiates
  pointer     \* whether state->transfer_pair points to its SSLs

TlsParams == <<faulty, benchmark, message_size, cipher, suite>>
memory == <<pointer, heap>>
TlsVars == <<pc, TlsParams, backend, memory, batches, left>>

TlsInit ==
  /\ pc = "create" /\ faulty \in BOOLEAN
  /\ \/ benchmark = "handshake" /\ message_size = 0
     \/ benchmark = "transfer" /\ message_size \in TransferSizes
  /\ cipher \in Ciphers /\ suite \in Ciphers
  /\ backend = FALSE /\ pointer = FALSE
  /\ heap = [o \in Objects |-> "none"]
  /\ batches = 0 /\ left = 0

-----------------------------------------------------------------------------
(* Freeing what was never allocated, a NULL pointer, does nothing.         *)
Free(h, objects) ==
  [o \in Objects |-> IF o \notin objects \/ h[o] = "none" THEN h[o]
                     ELSE IF h[o] = "live" THEN "freed" ELSE "twice"]

With(h, objects) == [o \in Objects |-> IF o \in objects THEN "live" ELSE h[o]]

(* Destroying the backend: its transfer pair if it has one, its members.   *)
ofb_tls_backend_destroy(h, p) ==
  /\ heap' = Free(h, TlsMembers \cup IF p THEN {"transfer_pair"} ELSE {})
  /\ pointer' = FALSE

-----------------------------------------------------------------------------
(* ofb_tls_backend_create                                                  *)

TlsRefused == message_size > INT_MAX

(* The size is refused, or the structure cannot be allocated.              *)
TlsCreateRefused ==
  /\ pc = "create" /\ (TlsRefused \/ faulty)
  /\ pc' = "create_failed"
  /\ UNCHANGED <<TlsParams, backend, memory, batches, left>>

(* A context or a buffer is missing; or all are there and the contexts     *)
(* cannot be configured: the suite is unknown, the certificate or the key  *)
(* cannot be read, or they do not match.                                   *)
TlsCreateFails ==
  /\ faulty /\ pc = "create" /\ ~TlsRefused
  /\ \E got \in SUBSET TlsMembers :
       "state" \in got /\ ofb_tls_backend_destroy(With(heap, got), FALSE)
  /\ pc' = "create_failed"
  /\ UNCHANGED <<TlsParams, backend, batches, left>>

(* Mutant: a failed tls_pair_create leaves the pointers of what it freed.  *)
KeepsPointers == TRUE

(* Whether transfer_pair points anywhere after tls_pair_create failed.     *)
PointsAfterFailure == FALSE

(* The pair of a transfer cannot be created and has destroyed itself;      *)
(* ofb_tls_backend_destroy gets to it once more.                           *)
CreatePairFails ==
  /\ faulty /\ pc = "create" /\ ~TlsRefused /\ benchmark = "transfer"
  /\ ofb_tls_backend_destroy(Free(With(heap, TlsMembers \cup {"transfer_pair"}),
                                  {"transfer_pair"}),
                             PointsAfterFailure)
  /\ pc' = "create_failed"
  /\ UNCHANGED <<TlsParams, backend, batches, left>>

TlsCreate ==
  /\ pc = "create" /\ ~TlsRefused
  /\ pointer' = (benchmark = "transfer")
  /\ heap' = With(heap, TlsMembers \cup IF pointer' THEN {"transfer_pair"} ELSE {})
  /\ backend' = TRUE
  /\ pc' = "verify"
  /\ UNCHANGED <<TlsParams, batches, left>>

-----------------------------------------------------------------------------
(* ofb_tls_backend_verify                                                  *)

tls_pair_matches == suite = cipher

(* A handshake on a pair that is destroyed whether it matches or not, or   *)
(* a transfer on the pair of create.  Either may fail; a pair that cannot  *)
(* be created has destroyed itself.                                        *)
TlsVerify ==
  /\ pc = "verify"
  /\ \/ /\ pc' = IF tls_pair_matches THEN "batch" ELSE "verify_failed"
        /\ heap' = IF benchmark = "handshake"
                   THEN Free(With(heap, {"pair"}), {"pair"}) ELSE heap
     \/ faulty /\ pc' = "verify_failed" /\ UNCHANGED heap
  /\ UNCHANGED <<TlsParams, backend, pointer, batches, left>>

-----------------------------------------------------------------------------
(* ofb_tls_backend_run_batch                                               *)

TlsStartBatch ==
  /\ pc = "batch" /\ batches < MaxBatches
  /\ left' \in 1 .. MaxIterations
  /\ pc' = "loop"
  /\ UNCHANGED <<TlsParams, backend, memory, batches>>

(* A pair that cannot be created destroys itself and ends the batch.       *)
Handshake ==
  /\ pc = "loop" /\ benchmark = "handshake" /\ MoreIterations
  /\ heap["pair"] # "live"
  /\ \/ heap' = With(heap, {"pair"}) /\ UNCHANGED pc
     \/ faulty /\ pc' = "measure_failed" /\ UNCHANGED heap
  /\ UNCHANGED <<TlsParams, backend, pointer, batches, left>>

DestroyPair ==
  /\ pc = "loop" /\ heap["pair"] = "live"
  /\ heap' = Free(heap, {"pair"})
  /\ left' = left - 1
  /\ UNCHANGED <<pc, TlsParams, backend, pointer, batches>>

(* Both ends of the transfer pair are used.                                *)
Transfer ==
  /\ pc = "loop" /\ benchmark = "transfer" /\ MoreIterations
  /\ \/ left' = left - 1 /\ UNCHANGED pc
     \/ faulty /\ pc' = "measure_failed" /\ UNCHANGED left
  /\ UNCHANGED <<TlsParams, backend, memory, batches>>

(* The iterations are done; a batch of transfers compares the buffers.     *)
TlsEndBatch ==
  /\ pc = "loop" /\ ~MoreIterations
  /\ \/ pc' = "batch" /\ batches' = batches + 1
     \/ faulty /\ benchmark = "transfer" /\ pc' = "measure_failed" /\ UNCHANGED batches
  /\ UNCHANGED <<TlsParams, backend, memory, left>>

-----------------------------------------------------------------------------
(* The ends of run_case: its last sample is taken, after one batch at      *)
(* least to calibrate, the clock fails between batches, or the backend     *)
(* returned -1.  A backend that was not created is not destroyed.          *)

(* Mutant: the backend is not destroyed.                                   *)
TlsLeaks == UNCHANGED memory

TlsRelease == ofb_tls_backend_destroy(heap, pointer)

TlsFinish ==
  /\ pc = "batch" /\ batches > 1
  /\ TlsRelease
  /\ pc' = "done"
  /\ UNCHANGED <<TlsParams, backend, batches, left>>

TlsClockFails ==
  /\ faulty /\ pc = "batch"
  /\ pc' = "measure_failed"
  /\ UNCHANGED <<TlsParams, backend, memory, batches, left>>

TlsUnwind ==
  /\ Unwinding
  /\ IF pc = "create_failed" THEN UNCHANGED memory ELSE TlsRelease
  /\ pc' = "failed"
  /\ UNCHANGED <<TlsParams, backend, batches, left>>

TlsTerminated == pc \in {"done", "failed"} /\ UNCHANGED TlsVars

TlsStep ==
  \/ TlsCreateRefused \/ TlsCreateFails \/ CreatePairFails \/ TlsCreate \/ TlsVerify
  \/ TlsStartBatch \/ Handshake \/ DestroyPair \/ Transfer \/ TlsEndBatch
  \/ TlsFinish \/ TlsClockFails \/ TlsUnwind

TlsNext == TlsStep \/ TlsTerminated

TlsSpec == TlsInit /\ [][TlsNext]_TlsVars

-----------------------------------------------------------------------------
(* Properties                                                              *)

TlsTypeOK ==
  /\ pc \in {"create", "verify", "batch", "loop", "create_failed",
             "verify_failed", "measure_failed", "done", "failed"}
  /\ faulty \in BOOLEAN /\ benchmark \in {"handshake", "transfer"}
  /\ message_size \in TransferSizes \cup {0}
  /\ cipher \in Ciphers /\ suite \in Ciphers
  /\ backend \in BOOLEAN /\ pointer \in BOOLEAN
  /\ heap \in [Objects -> {"none", "live", "freed", "twice"}]
  /\ batches \in 0 .. MaxBatches /\ left \in 0 .. MaxIterations

(* On every path nothing is freed twice, nothing outlives the case, no     *)
(* pair of a handshake outlives its iteration, and whatever may be used is *)
(* there, the transfer pair exactly for a transfer.                        *)
TlsMemorySafe ==
  /\ \A o \in Objects : heap[o] # "twice"
  /\ pc \in {"done", "failed"} => \A o \in Objects : heap[o] # "live"
  /\ pc # "loop" => heap["pair"] # "live"
  /\ pc \in {"verify", "batch", "loop"} =>
       /\ backend
       /\ \A o \in TlsMembers : heap[o] = "live"
       /\ pointer = (heap["transfer_pair"] = "live")
       /\ pointer = (benchmark = "transfer")

TlsHeld == \E o \in TlsMembers \cup {"transfer_pair"} : heap[o] = "live"

TlsContract == INSTANCE Lifecycle WITH phase <- Phase, held <- TlsHeld

(* The case implements the contract of module Lifecycle.                   *)
TlsImplements == TlsContract!Spec
==============================================================================
