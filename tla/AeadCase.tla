------------------------------- MODULE AeadCase --------------------------------
(***************************************************************************)
(* The backend of one AEAD case, from creation to destruction:             *)
(* ofb_backend_create, _verify, _run_batch and _destroy with encrypt_once  *)
(* and decrypt_once (backends/openssl_aead.c), in the order run_case       *)
(* (src/main.c) calls them.  How many batches are run, and what is         *)
(* reported of them, is module Runner's.                                   *)
(*                                                                         *)
(* The library is external: a call may fail at any point and leave an      *)
(* output it was about to fill half written.  Sealing the plaintext "P"    *)
(* gives the ciphertext "C" and the tag "T"; opening succeeds for exactly  *)
(* that pair.                                                              *)
(***************************************************************************)
EXTENDS CaseState

CONSTANTS
  Sizes  \* message and aad sizes asked for

ASSUME AeadCaseAssumption == Sizes \subseteq Nat

(* What create allocates.  The contexts of encrypt_once and decrypt_once   *)
(* live and die within one call, on its single way out.                    *)
Members == {"state", "ctx", "aad", "plaintext", "ciphertext", "output"}

VARIABLES
  operation,  \* "seal" or "open"
  aad_size,
  text        \* contents of the buffers of struct ofb_backend

params == <<faulty, operation, message_size, aad_size>>
vars == <<pc, params, backend, heap, text, batches, left>>

Blank == [plaintext |-> "?", ciphertext |-> "?", output |-> "?", tag |-> "?"]

Init ==
  /\ pc = "create"
  /\ faulty \in BOOLEAN /\ operation \in {"seal", "open"}
  /\ message_size \in Sizes /\ aad_size \in Sizes
  /\ backend = FALSE
  /\ heap = [o \in Members |-> "none"]
  /\ text = Blank
  /\ batches = 0 /\ left = 0

-----------------------------------------------------------------------------
(* The members that were allocated, and ofb_backend_destroy of such a      *)
(* heap: what is NULL is left alone.                                       *)
Allocated(got) == [o \in Members |-> IF o \in got THEN "live" ELSE "none"]

ofb_backend_destroy(h) ==
  [o \in Members |-> IF h[o] = "none" THEN "none"
                     ELSE IF h[o] = "live" THEN "freed" ELSE "twice"]

(* What sealing or opening may have done when it returned: the value of    *)
(* its output and whether it reports success.                              *)
Result(ok, out) == [ok |-> ok, out |-> out]

Failures(out) == IF faulty THEN {Result(FALSE, out), Result(FALSE, "?")} ELSE {}

Sealing(plain, out) ==
  Failures(out) \cup {Result(TRUE, IF plain = "P" THEN "C" ELSE "?")}

Opening(cipher, tag, out) ==
  Failures(out) \cup
    {IF cipher = "C" /\ tag = "T" THEN Result(TRUE, "P") ELSE Result(FALSE, "?")}

-----------------------------------------------------------------------------
(* ofb_backend_create                                                      *)

Refused == message_size > INT_MAX \/ aad_size > INT_MAX

(* Mutant: the pointer is published before the backend is complete.        *)
PublishEarly(complete) == backend' = TRUE

Publish(complete) == backend' = complete

CreateRefused ==
  /\ pc = "create" /\ Refused
  /\ pc' = "create_failed"
  /\ UNCHANGED <<params, backend, heap, text, batches, left>>

(* Some member could not be allocated, or the library has no such cipher;  *)
(* without the structure none of the others is tried.                      *)
CreateFails ==
  /\ faulty /\ pc = "create" /\ ~Refused
  /\ \/ UNCHANGED <<heap, backend>>
     \/ /\ \E got \in SUBSET Members :
             /\ "state" \in got
             /\ heap' = ofb_backend_destroy(Allocated(got))
        /\ Publish(FALSE)
  /\ pc' = "create_failed"
  /\ UNCHANGED <<params, text, batches, left>>

(* Everything is allocated and filled, and the plaintext is sealed once.   *)
Create ==
  /\ pc = "create" /\ ~Refused
  /\ \E result \in Sealing("P", "?") :
       /\ text' = [plaintext |-> "P", ciphertext |-> result.out, output |-> "?",
                   tag |-> IF result.ok THEN "T" ELSE "?"]
       /\ Publish(result.ok)
       /\ IF result.ok
            THEN pc' = "verify" /\ heap' = Allocated(Members)
            ELSE pc' = "create_failed" /\ heap' = ofb_backend_destroy(Allocated(Members))
  /\ UNCHANGED <<params, batches, left>>

-----------------------------------------------------------------------------
(* ofb_backend_verify                                                      *)

(* A fresh sealing equals the first one, and opening that returns the      *)
(* plaintext.                                                              *)
Verify ==
  /\ pc = "verify"
  /\ \E sealed \in Sealing(text.plaintext, text.output),
        opened \in Opening(text.ciphertext, text.tag, "C") :
       LET same == sealed.ok /\ sealed.out = text.ciphertext
           passed == same /\ opened.ok /\ opened.out = text.plaintext
       IN  /\ text' = [text EXCEPT !.output = IF same THEN opened.out ELSE sealed.out]
           /\ pc' = IF passed THEN "batch" ELSE "verify_failed"
  /\ UNCHANGED <<params, backend, heap, batches, left>>

-----------------------------------------------------------------------------
(* ofb_backend_run_batch                                                   *)

StartBatch ==
  /\ pc = "batch" /\ batches < MaxBatches
  /\ left' \in 1 .. MaxIterations
  /\ pc' = "loop"
  /\ UNCHANGED <<params, backend, heap, text, batches>>

(* Mutant: opening works in place.                                         *)
OpensInPlace(out) == [text EXCEPT !.ciphertext = out]

OpensInto(out) == [text EXCEPT !.output = out]

(* One iteration: seal the plaintext into output, taking the tag, or open  *)
(* the ciphertext of create into output with the tag as it is now.         *)
Iterate ==
  /\ pc = "loop" /\ MoreIterations
  /\ \/ /\ operation = "seal"
        /\ \E result \in Sealing(text.plaintext, text.output) :
             /\ text' = [text EXCEPT !.output = result.out,
                                     !.tag = IF result.ok THEN "T" ELSE @]
             /\ pc' = IF result.ok THEN "loop" ELSE "measure_failed"
     \/ /\ operation = "open"
        /\ \E result \in Opening(text.ciphertext, text.tag, text.output) :
             /\ text' = OpensInto(result.out)
             /\ pc' = IF result.ok THEN "loop" ELSE "measure_failed"
  /\ left' = left - 1
  /\ UNCHANGED <<params, backend, heap, batches>>

EndBatch ==
  /\ pc = "loop" /\ ~MoreIterations
  /\ batches' = batches + 1
  /\ pc' = "batch"
  /\ UNCHANGED <<params, backend, heap, text, left>>

-----------------------------------------------------------------------------
(* The ends of run_case: its last sample is taken, after one batch at      *)
(* least to calibrate, the clock fails between batches, or an operation of *)
(* the backend returned -1; each destroys what backend points to.          *)

(* Mutant: the backend is not destroyed.                                   *)
Leaks == UNCHANGED heap

Release == IF backend THEN heap' = ofb_backend_destroy(heap) ELSE UNCHANGED heap

Finish ==
  /\ pc = "batch" /\ batches > 1
  /\ Release
  /\ pc' = "done"
  /\ UNCHANGED <<params, backend, text, batches, left>>

ClockFails ==
  /\ faulty /\ pc = "batch"
  /\ pc' = "measure_failed"
  /\ UNCHANGED <<params, backend, heap, text, batches, left>>

Unwind ==
  /\ Unwinding
  /\ Release
  /\ pc' = "failed"
  /\ UNCHANGED <<params, backend, text, batches, left>>

Terminated == pc \in {"done", "failed"} /\ UNCHANGED vars

Step == \/ CreateRefused \/ CreateFails \/ Create \/ Verify \/ StartBatch
        \/ Iterate \/ EndBatch \/ Finish \/ ClockFails \/ Unwind

Next == Step \/ Terminated

Spec == Init /\ [][Next]_vars

-----------------------------------------------------------------------------
(* Properties                                                              *)

TypeOK ==
  /\ pc \in {"create", "verify", "batch", "loop", "create_failed",
             "verify_failed", "measure_failed", "done", "failed"}
  /\ faulty \in BOOLEAN /\ operation \in {"seal", "open"}
  /\ message_size \in Sizes /\ aad_size \in Sizes
  /\ backend \in BOOLEAN
  /\ heap \in [Members -> {"none", "live", "freed", "twice"}]
  /\ text \in [plaintext : {"?", "P"}, ciphertext : {"?", "C"},
               output : {"?", "C", "P"}, tag : {"?", "T"}]
  /\ batches \in 0 .. MaxBatches /\ left \in 0 .. MaxIterations

(* On every path nothing is freed twice and nothing outlives the case, and *)
(* while the backend may be used all of it is there.                       *)
MemorySafe ==
  /\ \A o \in Members : heap[o] # "twice"
  /\ pc \in {"done", "failed"} => \A o \in Members : heap[o] # "live"
  /\ pc \in {"verify", "batch", "loop"} => \A o \in Members : heap[o] = "live"

(* Where the library reports no error the case succeeds: no batch destroys *)
(* what the next one, or the next iteration, opens.                        *)
NeverFails == ~faulty /\ ~Refused => pc # "failed" /\ ~Unwinding

Held == \E o \in Members : heap[o] = "live"

Contract == INSTANCE Lifecycle WITH phase <- Phase, held <- Held

(* The case implements the contract of module Lifecycle.                   *)
Implements == Contract!Spec
==============================================================================
