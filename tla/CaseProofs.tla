------------------------------ MODULE CaseProofs ------------------------------
(***************************************************************************)
(* Proofs about AeadCase and TlsCase, the backends of one case, for all    *)
(* sizes and suites and any number of batches and iterations.              *)
(***************************************************************************)
EXTENDS AeadCase, TlsCase, TLAPS

-----------------------------------------------------------------------------
(* The inductive invariant of AeadCase                                     *)

InUse == pc \in {"verify", "batch", "loop", "verify_failed", "measure_failed"}

(* All members live while the backend may still be used or has yet to be   *)
(* given up; run_case points to it exactly then and after giving it up.    *)
Ownership ==
  /\ InUse => backend /\ \A o \in Members : heap[o] = "live"
  /\ pc = "create" => ~backend /\ \A o \in Members : heap[o] = "none"
  /\ pc = "create_failed" => ~backend
  /\ ~InUse => \A o \in Members : heap[o] \in {"none", "freed"}

(* What open reads is what create sealed, however often seal has been run  *)
(* and whatever else failed before; in a run without faults nothing ever   *)
(* unwinds.                                                                *)
Openable ==
  /\ pc \in {"verify", "batch", "loop"} =>
       text.plaintext = "P" /\ text.ciphertext = "C" /\ text.tag = "T"
  /\ NeverFails

(* A batch that runs is yet to be counted.                                 *)
Uncounted == pc = "loop" => batches < MaxBatches

IInv == TypeOK /\ Ownership /\ Openable /\ Uncounted

(* What sealing and opening may return.                                    *)
LEMMA SealingResults ==
  ASSUME faulty \in BOOLEAN, NEW out \in {"?", "C", "P"}, NEW r \in Sealing("P", out)
  PROVE  /\ r.ok \in BOOLEAN /\ r.out \in {out, "?", "C"}
         /\ r.ok => r.out = "C"
         /\ ~faulty => r.ok
  <1>1. \/ faulty /\ r \in {Result(FALSE, out), Result(FALSE, "?")}
        \/ r = Result(TRUE, "C")
    BY DEF Sealing, Failures
  <1>2. \/ faulty /\ r.ok = FALSE /\ r.out \in {out, "?"}
        \/ r.ok = TRUE /\ r.out = "C"
    BY <1>1 DEF Result
  <1>. QED BY <1>2

LEMMA OpeningResults ==
  ASSUME faulty \in BOOLEAN, NEW out \in {"?", "C", "P"}, NEW r \in Opening("C", "T", out)
  PROVE  /\ r.ok \in BOOLEAN /\ r.out \in {"?", "C", "P"}
         /\ r.ok => r.out = "P"
         /\ ~faulty => r.ok
  <1>1. \/ faulty /\ r \in {Result(FALSE, out), Result(FALSE, "?")}
        \/ r = Result(TRUE, "P")
    BY DEF Opening, Failures
  <1>2. \/ faulty /\ r.ok = FALSE /\ r.out \in {out, "?"}
        \/ r.ok = TRUE /\ r.out = "P"
    BY <1>1 DEF Result
  <1>. QED BY <1>2

LEMMA Destroyed ==
  ASSUME NEW h, \A o \in Members : h[o] \in {"none", "live"}
  PROVE  /\ ofb_backend_destroy(h) \in [Members -> {"none", "live", "freed", "twice"}]
         /\ \A o \in Members : ofb_backend_destroy(h)[o] \in {"none", "freed"}
  BY DEF ofb_backend_destroy

LEMMA InitIInv == Init => IInv
  <1> SUFFICES ASSUME Init PROVE IInv
    OBVIOUS
  <1> USE CaseAssumption, AeadCaseAssumption DEF Init
  <1>1. TypeOK
    <2>1. text \in [plaintext : {"?", "P"}, ciphertext : {"?", "C"},
                    output : {"?", "C", "P"}, tag : {"?", "T"}]
      BY DEF Blank
    <2>2. heap \in [Members -> {"none", "live", "freed", "twice"}]
      OBVIOUS
    <2>3. batches \in 0 .. MaxBatches /\ left \in 0 .. MaxIterations
      OBVIOUS
    <2>. QED BY <2>1, <2>2, <2>3 DEF TypeOK
  <1>2. Ownership
    BY DEF Ownership, InUse
  <1>3. Openable
    BY DEF Openable, NeverFails, Unwinding
  <1>. QED BY <1>1, <1>2, <1>3 DEF IInv, Uncounted

LEMMA NextIInv == IInv /\ [Next]_vars => IInv'
  <1> SUFFICES ASSUME IInv, [Next]_vars PROVE IInv'
    OBVIOUS
  <1> USE DEF IInv, Ownership, Openable, Uncounted, NeverFails, Unwinding, InUse, params, TypeOK
  <1>1. CASE CreateRefused
    BY <1>1 DEF CreateRefused, Refused
  <1>2. CASE CreateFails
    <2>1. \A got : \A o \in Members : Allocated(got)[o] \in {"none", "live"}
      BY DEF Allocated
    <2>2. /\ heap' \in [Members -> {"none", "live", "freed", "twice"}] /\ ~backend'
          /\ \A o \in Members : heap'[o] \in {"none", "freed"}
      BY <1>2, <2>1, Destroyed DEF CreateFails, Publish
    <2>3. /\ pc = "create" /\ pc' = "create_failed" /\ faulty /\ backend' = backend
          /\ UNCHANGED <<params, text, batches, left>>
      BY <1>2, <2>2 DEF CreateFails, Publish
    <2>. QED BY <2>2, <2>3 DEF Refused
  <1>3. CASE Create
    <2>1. PICK r \in Sealing("P", "?") :
            /\ text' = [plaintext |-> "P", ciphertext |-> r.out, output |-> "?",
                        tag |-> IF r.ok THEN "T" ELSE "?"]
            /\ Publish(r.ok)
            /\ IF r.ok THEN pc' = "verify" /\ heap' = Allocated(Members)
                 ELSE pc' = "create_failed" /\ heap' = ofb_backend_destroy(Allocated(Members))
      BY <1>3 DEF Create
    <2>2. r.ok \in BOOLEAN /\ r.out \in {"?", "C"} /\ (r.ok => r.out = "C") /\ (~faulty => r.ok)
      BY <2>1, SealingResults
    <2>3. /\ Allocated(Members) \in [Members -> {"none", "live", "freed", "twice"}]
          /\ \A o \in Members : Allocated(Members)[o] = "live"
      BY DEF Allocated
    <2>4. /\ ofb_backend_destroy(Allocated(Members)) \in [Members -> {"none", "live", "freed", "twice"}]
          /\ \A o \in Members : ofb_backend_destroy(Allocated(Members))[o] \in {"none", "freed"}
      BY <2>3, Destroyed
    <2>5. /\ pc = "create" /\ ~Refused /\ UNCHANGED <<params, batches, left>>
      BY <1>3 DEF Create
    <2>6. CASE r.ok
      BY <2>1, <2>2, <2>3, <2>5, <2>6 DEF Publish, Refused
    <2>7. CASE ~r.ok
      BY <2>1, <2>2, <2>4, <2>5, <2>7 DEF Publish, Refused
    <2>. QED BY <2>2, <2>6, <2>7
  <1>4. CASE Verify
    <2>1. PICK sealed \in Sealing(text.plaintext, text.output),
               opened \in Opening(text.ciphertext, text.tag, "C") :
            LET same == sealed.ok /\ sealed.out = text.ciphertext
                passed == same /\ opened.ok /\ opened.out = text.plaintext
            IN  /\ text' = [text EXCEPT !.output = IF same THEN opened.out ELSE sealed.out]
                /\ pc' = IF passed THEN "batch" ELSE "verify_failed"
      BY <1>4 DEF Verify
    <2>2. /\ pc = "verify" /\ UNCHANGED <<params, backend, heap, batches, left>>
          /\ text.plaintext = "P" /\ text.ciphertext = "C" /\ text.tag = "T"
      BY <1>4 DEF Verify
    <2>3. /\ sealed.ok \in BOOLEAN /\ opened.ok \in BOOLEAN
          /\ sealed.out \in {"?", "C", "P"} /\ opened.out \in {"?", "C", "P"}
          /\ sealed.ok => sealed.out = "C"
          /\ opened.ok => opened.out = "P"
          /\ ~faulty => sealed.ok /\ opened.ok
      BY <2>2, SealingResults, OpeningResults
    <2>4. /\ text' \in [plaintext : {"?", "P"}, ciphertext : {"?", "C"},
                        output : {"?", "C", "P"}, tag : {"?", "T"}]
          /\ text'.plaintext = "P" /\ text'.ciphertext = "C" /\ text'.tag = "T"
      BY <2>1, <2>2, <2>3
    <2>5. pc' \in {"batch", "verify_failed"} /\ (~faulty => pc' = "batch")
      BY <2>1, <2>2, <2>3
    <2>. QED BY <2>2, <2>4, <2>5 DEF Refused
  <1>5. CASE StartBatch
    BY <1>5, CaseAssumption, AeadCaseAssumption DEF StartBatch, Refused
  <1>6. CASE Iterate
    <2>1. /\ pc = "loop" /\ left > 0 /\ left' = left - 1
          /\ UNCHANGED <<params, backend, heap, batches>>
          /\ text.plaintext = "P" /\ text.ciphertext = "C" /\ text.tag = "T"
      BY <1>6 DEF Iterate, MoreIterations
    <2>2. left' \in 0 .. MaxIterations
      BY <2>1, CaseAssumption, AeadCaseAssumption
    <2>3. /\ text' \in [plaintext : {"?", "P"}, ciphertext : {"?", "C"},
                        output : {"?", "C", "P"}, tag : {"?", "T"}]
          /\ text'.plaintext = "P" /\ text'.ciphertext = "C" /\ text'.tag = "T"
          /\ pc' \in {"loop", "measure_failed"} /\ (~faulty => pc' = "loop")
      <3>1. CASE operation = "seal"
        <4>1. PICK r \in Sealing(text.plaintext, text.output) :
                /\ text' = [text EXCEPT !.output = r.out, !.tag = IF r.ok THEN "T" ELSE @]
                /\ pc' = IF r.ok THEN "loop" ELSE "measure_failed"
          BY <1>6, <3>1 DEF Iterate
        <4>2. r.ok \in BOOLEAN /\ r.out \in {"?", "C", "P"} /\ (~faulty => r.ok)
          BY <2>1, <4>1, SealingResults
        <4>. QED BY <2>1, <4>1, <4>2
      <3>2. CASE operation = "open"
        <4>1. PICK r \in Opening(text.ciphertext, text.tag, text.output) :
                /\ text' = OpensInto(r.out)
                /\ pc' = IF r.ok THEN "loop" ELSE "measure_failed"
          BY <1>6, <3>2 DEF Iterate
        <4>2. r.ok \in BOOLEAN /\ r.out \in {"?", "C", "P"} /\ (~faulty => r.ok)
          BY <2>1, <4>1, OpeningResults
        <4>. QED BY <2>1, <4>1, <4>2 DEF OpensInto
      <3>. QED BY <3>1, <3>2
    <2>. QED BY <2>1, <2>2, <2>3 DEF Refused
  <1>7. CASE EndBatch
    BY <1>7, CaseAssumption, AeadCaseAssumption DEF EndBatch, MoreIterations, Refused
  <1>8. CASE Finish
    <2>1. heap' = ofb_backend_destroy(heap)
      BY <1>8 DEF Finish, Release
    <2>2. /\ heap' \in [Members -> {"none", "live", "freed", "twice"}]
          /\ \A o \in Members : heap'[o] \in {"none", "freed"}
      BY <1>8, <2>1, Destroyed DEF Finish
    <2>. QED BY <1>8, <2>2 DEF Finish, Refused
  <1>9. CASE ClockFails
    BY <1>9 DEF ClockFails, Refused
  <1>10. CASE Unwind
    <2>1. /\ heap' \in [Members -> {"none", "live", "freed", "twice"}]
          /\ \A o \in Members : heap'[o] \in {"none", "freed"}
      BY <1>10, Destroyed DEF Unwind, Release
    <2>. QED BY <1>10, <2>1 DEF Unwind, Refused
  <1>11. CASE UNCHANGED vars
    BY <1>11 DEF vars, Refused
  <1>. QED
    BY <1>1, <1>2, <1>3, <1>4, <1>5, <1>6, <1>7, <1>8, <1>9, <1>10, <1>11
       DEF Next, Step, Terminated

LEMMA AlwaysIInv == Spec => []IInv
  BY InitIInv, NextIInv, PTL DEF Spec

-----------------------------------------------------------------------------
(* Theorems about AeadCase                                                 *)

(* Every variable keeps its type; the batches of a run are within bounds.  *)
THEOREM TypeCorrect == Spec => []TypeOK
  BY AlwaysIInv, PTL DEF IInv

(* However many allocations fail in ofb_backend_create and wherever the    *)
(* case ends, no member is freed twice, none is left, and none is missing  *)
(* while it may be used (backends/openssl_aead.c:145-165).                 *)
THEOREM MembersFreedOnce == Spec => []MemorySafe
  <1>1. IInv => MemorySafe
    BY DEF IInv, Ownership, InUse, MemorySafe, TypeOK
  <1>. QED BY AlwaysIInv, <1>1, PTL

(* A case whose library calls succeed does not fail, after any number of   *)
(* batches: sealing leaves alone what opening needs.                       *)
THEOREM IterationsRepeatable == Spec => []NeverFails
  <1>1. IInv => NeverFails
    BY DEF IInv, Openable
  <1>. QED BY AlwaysIInv, <1>1, PTL

-----------------------------------------------------------------------------
(* The contract of Lifecycle, for AeadCase                                 *)

LEMMA PhaseFacts ==
  /\ pc = "create" => Phase = "start"
  /\ pc \in {"verify", "verify_failed"} => Phase = "created"
  /\ pc \in {"batch", "loop", "measure_failed"} => Phase = "verified"
  /\ pc \in {"create_failed", "failed"} => Phase = "failed"
  /\ pc = "done" => Phase = "done"
  BY DEF Phase

LEMMA StepSimulates == IInv /\ IInv' /\ [Next]_vars => [Contract!Next]_Contract!vars
  <1> SUFFICES ASSUME IInv, IInv', [Next]_vars PROVE [Contract!Next]_Contract!vars
    OBVIOUS
  <1>h. /\ InUse => Held = TRUE
        /\ ~InUse => Held = FALSE
        /\ InUse' => Held' = TRUE
        /\ ~InUse' => Held' = FALSE
    <2>1. "state" \in Members
      BY DEF Members
    <2>2. (InUse => Held) /\ (~InUse => ~Held)
      BY <2>1 DEF IInv, Ownership, Held
    <2>3. (InUse' => Held') /\ (~InUse' => ~Held')
      BY <2>1 DEF IInv, Ownership, Held
    <2>4. Held \in BOOLEAN /\ Held' \in BOOLEAN
      BY DEF Held
    <2>. QED BY <2>2, <2>3, <2>4
  <1>p. /\ pc' = "create" => Phase' = "start"
        /\ pc' \in {"verify", "verify_failed"} => Phase' = "created"
        /\ pc' \in {"batch", "loop", "measure_failed"} => Phase' = "verified"
        /\ pc' \in {"create_failed", "failed"} => Phase' = "failed"
        /\ pc' = "done" => Phase' = "done"
    BY DEF Phase
  <1> USE PhaseFacts, <1>h, <1>p DEF InUse, Contract!vars
  <1>1. CASE CreateRefused
    BY <1>1 DEF CreateRefused, Contract!Next, Contract!Fail
  <1>2. CASE CreateFails
    BY <1>2 DEF CreateFails, Contract!Next, Contract!Fail
  <1>3. CASE Create
    <2>1. pc = "create" /\ pc' \in {"verify", "create_failed"} /\ batches' = batches
      BY <1>3 DEF Create
    <2>. QED BY <2>1 DEF Contract!Next, Contract!Create, Contract!Fail
  <1>4. CASE Verify
    <2>1. pc = "verify" /\ pc' \in {"batch", "verify_failed"} /\ batches' = batches
      BY <1>4 DEF Verify
    <2>. QED BY <2>1 DEF Contract!Next, Contract!Verify
  <1>5. CASE StartBatch
    BY <1>5 DEF StartBatch
  <1>6. CASE Iterate
    <2>1. pc = "loop" /\ pc' \in {"loop", "measure_failed"} /\ batches' = batches
      BY <1>6 DEF Iterate
    <2>. QED BY <2>1
  <1>7. CASE EndBatch
    BY <1>7 DEF EndBatch, Contract!Next, Contract!Measure
  <1>8. CASE Finish
    BY <1>8 DEF Finish, Contract!Next, Contract!Finish
  <1>9. CASE ClockFails
    BY <1>9 DEF ClockFails
  <1>10. CASE Unwind
    BY <1>10 DEF Unwind, Unwinding, Contract!Next, Contract!Fail
  <1>11. CASE UNCHANGED vars
    BY <1>11 DEF vars, Phase, Held
  <1>. QED
    BY <1>1, <1>2, <1>3, <1>4, <1>5, <1>6, <1>7, <1>8, <1>9, <1>10, <1>11
       DEF Next, Step, Terminated

LEMMA InitSimulates == Init => Contract!Init
  BY DEF Init, Contract!Init, Phase, Held

(* The AEAD backend, as run_case of src/main.c drives it, keeps the        *)
(* contract of Lifecycle.                                                  *)
THEOREM AeadCaseImplementsLifecycle == Spec => Implements
  BY InitSimulates, StepSimulates, AlwaysIInv, PTL DEF Spec, Implements, Contract!Spec

-----------------------------------------------------------------------------
(* The inductive invariant of TlsCase                                      *)

(* All members live while the backend may still be used or has yet to be   *)
(* given up, the transfer pair with them for a transfer, and what points   *)
(* to it does so as long as it lives.                                      *)
TlsOwnership ==
  /\ InUse => /\ backend
              /\ \A o \in TlsMembers : heap[o] = "live"
              /\ (pointer <=> heap["transfer_pair"] = "live")
              /\ (pointer <=> benchmark = "transfer")
              /\ heap["transfer_pair"] # "freed"
  /\ pc = "create" => ~backend /\ ~pointer /\ \A o \in Objects : heap[o] = "none"
  /\ ~InUse => \A o \in Objects : heap[o] # "live"
  /\ \A o \in Objects : heap[o] # "twice"

(* The pair of a handshake lives only within an iteration.                 *)
PairWithinIteration ==
  heap["pair"] = "live" => pc = "loop" /\ benchmark = "handshake" /\ left > 0

TlsIInv == TlsTypeOK /\ TlsOwnership /\ PairWithinIteration /\ Uncounted

Lives == {"none", "live", "freed", "twice"}

LEMMA Apart ==
  /\ TlsMembers \subseteq Objects /\ "transfer_pair" \in Objects \ TlsMembers
  /\ "pair" \in Objects \ TlsMembers /\ "state" \in TlsMembers
  /\ \A o \in Objects : o \in TlsMembers \/ o = "transfer_pair" \/ o = "pair"
  BY DEF TlsMembers, Objects

(* What Free and With do to an object.                                     *)
LEMMA Freed ==
  \A h \in [Objects -> Lives], objects \in SUBSET Objects :
    /\ Free(h, objects) \in [Objects -> Lives]
    /\ \A o \in Objects \ objects : Free(h, objects)[o] = h[o]
    /\ \A o \in objects : /\ h[o] = "none" => Free(h, objects)[o] = "none"
                          /\ h[o] = "live" => Free(h, objects)[o] = "freed"
  BY DEF Free, Lives

LEMMA Taken ==
  \A h \in [Objects -> Lives], objects \in SUBSET Objects :
    /\ With(h, objects) \in [Objects -> Lives]
    /\ \A o \in Objects \ objects : With(h, objects)[o] = h[o]
    /\ \A o \in objects : With(h, objects)[o] = "live"
  BY DEF With, Lives

LEMMA TlsInitIInv ==
  ASSUME TlsInit
  PROVE  TlsIInv
  <1> USE CaseAssumption, TlsCaseAssumption DEF TlsInit
  <1>1. heap \in [Objects -> {"none", "live", "freed", "twice"}]
    OBVIOUS
  <1>2. TlsTypeOK
    <2>1. message_size \in TransferSizes \cup {0} /\ benchmark \in {"handshake", "transfer"}
      OBVIOUS
    <2>2. batches \in 0 .. MaxBatches /\ left \in 0 .. MaxIterations
      OBVIOUS
    <2>3. pointer \in BOOLEAN /\ backend \in BOOLEAN
      OBVIOUS
    <2>. QED BY <1>1, <2>1, <2>2, <2>3 DEF TlsTypeOK
  <1>3. TlsOwnership /\ PairWithinIteration
    BY Apart DEF TlsOwnership, InUse, PairWithinIteration
  <1>. QED BY <1>2, <1>3 DEF TlsIInv, Uncounted

(* Before create nothing is there; a backend given up halfway leaves       *)
(* nothing behind.                                                         *)
LEMMA GivenUp ==
  ASSUME TlsIInv, pc = "create", NEW got \in SUBSET TlsMembers
  PROVE  /\ Free(With(heap, got), TlsMembers) \in [Objects -> Lives]
         /\ \A o \in Objects : Free(With(heap, got), TlsMembers)[o] \in {"none", "freed"}
  <1>1. heap \in [Objects -> Lives] /\ \A o \in Objects : heap[o] = "none"
    BY DEF TlsIInv, TlsTypeOK, TlsOwnership, Lives
  <1> DEFINE h == With(heap, got)
  <1>2. /\ h \in [Objects -> Lives]
        /\ \A o \in Objects : h[o] \in {"none", "live"}
        /\ \A o \in Objects \ TlsMembers : h[o] = "none"
    BY <1>1, Apart, Taken
  <1> HIDE DEF h
  <1>3. /\ Free(h, TlsMembers) \in [Objects -> Lives]
        /\ \A o \in Objects : Free(h, TlsMembers)[o] \in {"none", "freed"}
    BY <1>2, Apart, Freed
  <1>. QED BY <1>3 DEF h

(* ofb_tls_backend_destroy of a backend in use gives everything back.      *)
LEMMA Released ==
  ASSUME TlsIInv, InUse, heap["pair"] # "live", TlsRelease
  PROVE  /\ heap' \in [Objects -> Lives] /\ pointer' = FALSE
         /\ \A o \in Objects : heap'[o] \in {"none", "freed"}
  <1> DEFINE objects == TlsMembers \cup IF pointer THEN {"transfer_pair"} ELSE {}
  <1>1. heap' = Free(heap, objects) /\ pointer' = FALSE
    BY DEF TlsRelease, ofb_tls_backend_destroy
  <1>2. objects \in SUBSET Objects
    BY Apart
  <1>3. /\ heap \in [Objects -> Lives]
        /\ \A o \in TlsMembers : heap[o] = "live"
        /\ (pointer <=> heap["transfer_pair"] = "live")
        /\ heap["transfer_pair"] \notin {"freed", "twice"} /\ heap["pair"] \notin {"live", "twice"}
    BY Apart DEF TlsIInv, TlsOwnership, TlsTypeOK, Lives
  <1>4. "transfer_pair" \in objects <=> pointer
    BY Apart
  <1>5. TlsMembers \subseteq objects /\ "pair" \notin objects
    BY Apart
  <1> HIDE DEF objects
  <1>6. heap' \in [Objects -> Lives]
    BY <1>1, <1>2, <1>3, Freed
  <1>7. \A o \in TlsMembers : heap'[o] = "freed"
    BY <1>1, <1>2, <1>3, <1>5, Freed
  <1>8. heap'["pair"] \in {"none", "freed"}
    BY <1>1, <1>2, <1>3, <1>5, Apart, Freed DEF Lives
  <1>9. heap'["transfer_pair"] \in {"none", "freed"}
    <2>1. CASE pointer
      BY <1>1, <1>2, <1>3, <1>4, <2>1, Freed
    <2>2. CASE ~pointer
      BY <1>1, <1>2, <1>3, <1>4, <2>2, Apart, Freed DEF Lives
    <2>. QED BY <2>1, <2>2
  <1>. QED BY <1>1, <1>6, <1>7, <1>8, <1>9, Apart

LEMMA TlsNextIInv ==
  ASSUME TlsIInv, [TlsNext]_TlsVars
  PROVE  TlsIInv'
  <1> USE DEF TlsIInv, TlsOwnership, PairWithinIteration, Uncounted, InUse,
          TlsParams, memory, TlsTypeOK
  <1>1. CASE TlsCreateRefused
    BY <1>1, Apart DEF TlsCreateRefused
  <1>2. CASE TlsCreateFails
    <2>1. /\ heap' \in [Objects -> Lives] /\ pointer' = FALSE
          /\ \A o \in Objects : heap'[o] \in {"none", "freed"}
      <3>1. PICK got \in SUBSET TlsMembers : ofb_tls_backend_destroy(With(heap, got), FALSE)
        BY <1>2 DEF TlsCreateFails
      <3>2. heap' = Free(With(heap, got), TlsMembers) /\ pointer' = FALSE
        BY <3>1 DEF ofb_tls_backend_destroy
      <3>. QED BY <1>2, <3>2, GivenUp DEF TlsCreateFails
    <2>2. /\ pc = "create" /\ pc' = "create_failed"
          /\ UNCHANGED <<TlsParams, backend, batches, left>>
      BY <1>2 DEF TlsCreateFails
    <2>. QED BY <2>1, <2>2, Apart DEF Lives
  <1>3. CASE CreatePairFails
    <2> DEFINE h == With(heap, TlsMembers \cup {"transfer_pair"})
               g == Free(h, {"transfer_pair"})
    <2>1. /\ heap' = Free(g, TlsMembers) /\ pointer' = FALSE
          /\ pc = "create" /\ pc' = "create_failed"
          /\ UNCHANGED <<TlsParams, backend, batches, left>>
      BY <1>3 DEF CreatePairFails, PointsAfterFailure, ofb_tls_backend_destroy
    <2>2. /\ h \in [Objects -> Lives] /\ \A o \in TlsMembers : h[o] = "live"
          /\ h["transfer_pair"] = "live" /\ h["pair"] = "none"
      BY <2>1, Taken, Apart DEF Lives
    <2> HIDE DEF h
    <2>3. /\ g \in [Objects -> Lives] /\ \A o \in TlsMembers : g[o] = "live"
          /\ g["transfer_pair"] = "freed" /\ g["pair"] = "none"
      BY <2>2, Freed, Apart DEF Lives
    <2> HIDE DEF g
    <2>4. /\ heap' \in [Objects -> Lives] /\ \A o \in TlsMembers : heap'[o] = "freed"
          /\ heap'["transfer_pair"] = "freed" /\ heap'["pair"] = "none"
      BY <2>1, <2>3, Freed, Apart DEF Lives
    <2>. QED BY <2>1, <2>4, Apart DEF Lives
  <1>4. CASE TlsCreate
    <2> DEFINE objects == TlsMembers \cup IF benchmark = "transfer" THEN {"transfer_pair"} ELSE {}
    <2>1. /\ heap' = With(heap, objects) /\ pointer' = (benchmark = "transfer")
          /\ backend' = TRUE /\ pc = "create" /\ pc' = "verify"
          /\ UNCHANGED <<TlsParams, batches, left>>
      BY <1>4 DEF TlsCreate
    <2>2. /\ objects \in SUBSET Objects /\ "pair" \notin objects /\ TlsMembers \subseteq objects
          /\ "transfer_pair" \in objects <=> benchmark = "transfer"
      BY Apart
    <2> HIDE DEF objects
    <2>3. /\ heap' \in [Objects -> Lives] /\ \A o \in TlsMembers : heap'[o] = "live"
          /\ heap'["pair"] = "none"
          /\ heap'["transfer_pair"] = IF benchmark = "transfer" THEN "live" ELSE "none"
      BY <2>1, <2>2, Taken, Apart DEF Lives
    <2>4. pointer' \in BOOLEAN /\ (pointer' <=> benchmark' = "transfer") /\ backend' \in BOOLEAN
      BY <2>1
    <2>. QED BY <2>1, <2>3, <2>4, Apart DEF Lives
  <1>5. CASE TlsVerify
    <2>1. /\ pc = "verify" /\ pc' \in {"batch", "verify_failed"}
          /\ UNCHANGED <<TlsParams, backend, pointer, batches, left>>
          /\ heap' = heap \/ heap' = Free(With(heap, {"pair"}), {"pair"})
      BY <1>5 DEF TlsVerify
    <2>2. /\ heap' \in [Objects -> Lives] /\ heap'["pair"] \in {"none", "freed"}
          /\ \A o \in Objects : o # "pair" => heap'[o] = heap[o]
      <3>1. CASE heap' = heap
        BY <2>1, <3>1, Apart DEF Lives
      <3>2. CASE heap' = Free(With(heap, {"pair"}), {"pair"})
        <4> DEFINE h == With(heap, {"pair"})
        <4>1. /\ h \in [Objects -> Lives] /\ h["pair"] = "live"
              /\ \A o \in Objects : o # "pair" => h[o] = heap[o]
          BY Taken, Apart DEF Lives
        <4> HIDE DEF h
        <4>2. /\ Free(h, {"pair"}) \in [Objects -> Lives]
              /\ Free(h, {"pair"})["pair"] = "freed"
              /\ \A o \in Objects : o # "pair" => Free(h, {"pair"})[o] = h[o]
          BY <4>1, Freed, Apart
        <4>. QED BY <3>2, <4>1, <4>2 DEF h
      <3>. QED BY <2>1, <3>1, <3>2
    <2>. QED BY <2>1, <2>2, Apart DEF Lives
  <1>6. CASE TlsStartBatch
    BY <1>6, Apart, CaseAssumption DEF TlsStartBatch
  <1>7. CASE Handshake
    <2>1. /\ pc = "loop" /\ benchmark = "handshake" /\ left > 0 /\ heap["pair"] # "live"
          /\ UNCHANGED <<TlsParams, backend, pointer, batches, left>>
          /\ \/ heap' = With(heap, {"pair"}) /\ pc' = pc
             \/ heap' = heap /\ pc' = "measure_failed"
      BY <1>7 DEF Handshake, MoreIterations
    <2>2. /\ heap' \in [Objects -> Lives]
          /\ \A o \in Objects : o # "pair" => heap'[o] = heap[o]
          /\ heap'["pair"] # "twice"
          /\ heap'["pair"] = "live" => pc' = "loop"
      BY <2>1, Taken, Apart DEF Lives
    <2>3. pc' \in {"loop", "measure_failed"}
      BY <2>1
    <2>. QED BY <2>1, <2>2, <2>3, Apart DEF Lives
  <1>8. CASE DestroyPair
    <2>1. /\ pc = "loop" /\ heap["pair"] = "live" /\ left > 0
          /\ heap' = Free(heap, {"pair"}) /\ left' = left - 1
          /\ UNCHANGED <<pc, TlsParams, backend, pointer, batches>>
      BY <1>8 DEF DestroyPair
    <2>2. /\ heap' \in [Objects -> Lives] /\ heap'["pair"] = "freed"
          /\ \A o \in Objects : o # "pair" => heap'[o] = heap[o]
      BY <2>1, Freed, Apart DEF Lives
    <2>3. left' \in 0 .. MaxIterations
      BY <2>1, CaseAssumption
    <2>. QED BY <2>1, <2>2, <2>3, Apart DEF Lives
  <1>9. CASE Transfer
    <2>1. /\ pc = "loop" /\ benchmark = "transfer" /\ left > 0
          /\ UNCHANGED <<TlsParams, backend, memory, batches>>
          /\ pc' \in {"loop", "measure_failed"} /\ left' \in {left, left - 1}
      BY <1>9 DEF Transfer, MoreIterations
    <2>2. left' \in 0 .. MaxIterations
      BY <2>1, CaseAssumption
    <2>. QED BY <2>1, <2>2, Apart
  <1>10. CASE TlsEndBatch
    <2>1. /\ pc = "loop" /\ ~(left > 0) /\ UNCHANGED <<TlsParams, backend, memory, left>>
          /\ \/ pc' = "batch" /\ batches' = batches + 1
             \/ pc' = "measure_failed" /\ batches' = batches
      BY <1>10 DEF TlsEndBatch, MoreIterations
    <2>2. batches' \in 0 .. MaxBatches
      BY <2>1, CaseAssumption
    <2>3. pc' \in {"batch", "measure_failed"}
      BY <2>1
    <2>. QED BY <2>1, <2>2, <2>3, Apart
  <1>11. CASE TlsFinish
    <2>1. /\ heap' \in [Objects -> Lives] /\ pointer' = FALSE
          /\ \A o \in Objects : heap'[o] \in {"none", "freed"}
      BY <1>11, Released DEF TlsFinish
    <2>. QED BY <1>11, <2>1, Apart DEF TlsFinish, Lives
  <1>12. CASE TlsClockFails
    BY <1>12, Apart DEF TlsClockFails
  <1>13. CASE TlsUnwind
    <2>1. CASE pc = "create_failed"
      BY <1>13, <2>1, Apart DEF TlsUnwind
    <2>2. CASE pc # "create_failed"
      <3>1. /\ heap' \in [Objects -> Lives] /\ pointer' = FALSE
            /\ \A o \in Objects : heap'[o] \in {"none", "freed"}
        BY <1>13, <2>2, Released DEF TlsUnwind, Unwinding
      <3>. QED BY <1>13, <3>1, Apart DEF TlsUnwind, Unwinding, Lives
    <2>. QED BY <2>1, <2>2
  <1>14. CASE UNCHANGED TlsVars
    BY <1>14 DEF TlsVars
  <1>. QED
    BY <1>1, <1>2, <1>3, <1>4, <1>5, <1>6, <1>7, <1>8, <1>9, <1>10, <1>11, <1>12, <1>13, <1>14
       DEF TlsNext, TlsStep, TlsTerminated

LEMMA TlsAlwaysIInv == TlsSpec => []TlsIInv
  <1>1. TlsInit => TlsIInv
    BY TlsInitIInv
  <1>2. TlsIInv /\ [TlsNext]_TlsVars => TlsIInv'
    BY TlsNextIInv
  <1>. QED BY <1>1, <1>2, PTL DEF TlsSpec

-----------------------------------------------------------------------------
(* Theorems about TlsCase                                                  *)

(* Every variable keeps its type; the batches of a run are within bounds.  *)
THEOREM TlsTypeCorrect == TlsSpec => []TlsTypeOK
  BY TlsAlwaysIInv, PTL DEF TlsIInv, TlsTypeOK

(* Although a failed transfer pair has destroyed itself before             *)
(* ofb_tls_backend_destroy sees it (backends/openssl_tls.c:206), nothing   *)
(* is freed twice, nothing is left, and nothing is missing while it may be *)
(* used.                                                                   *)
THEOREM ObjectsFreedOnce == TlsSpec => []TlsMemorySafe
  <1>1. TlsIInv => TlsMemorySafe
    <2> SUFFICES ASSUME TlsIInv PROVE TlsMemorySafe
      OBVIOUS
    <2>1. pointer \in BOOLEAN
      BY DEF TlsIInv, TlsTypeOK
    <2>2. /\ \A o \in Objects : heap[o] # "twice"
          /\ pc \in {"done", "failed"} => \A o \in Objects : heap[o] # "live"
          /\ pc # "loop" => heap["pair"] # "live"
      BY DEF TlsIInv, TlsOwnership, PairWithinIteration, InUse
    <2>3. ASSUME pc \in {"verify", "batch", "loop"}
          PROVE  /\ backend /\ \A o \in TlsMembers : heap[o] = "live"
                 /\ pointer = (heap["transfer_pair"] = "live")
                 /\ pointer = (benchmark = "transfer")
      <3>1. /\ backend /\ \A o \in TlsMembers : heap[o] = "live"
            /\ pointer <=> (heap["transfer_pair"] = "live")
            /\ pointer <=> (benchmark = "transfer")
        BY <2>3 DEF TlsIInv, TlsOwnership, InUse
      <3>2. pointer = (heap["transfer_pair"] = "live")
        BY <2>1, <3>1, Zenon
      <3>3. pointer = (benchmark = "transfer")
        BY <2>1, <3>1, Zenon
      <3>. QED BY <3>1, <3>2, <3>3
    <2>. QED BY <2>2, <2>3 DEF TlsMemorySafe
  <1>. QED BY TlsAlwaysIInv, <1>1, PTL

-----------------------------------------------------------------------------
(* The contract of Lifecycle, for TlsCase                                  *)

LEMMA TlsInitSimulates == TlsInit => TlsContract!Init
  BY DEF TlsInit, TlsContract!Init, Phase, TlsHeld, TlsMembers, Objects

(* A step is one of the contract, or invisible in it.                      *)
LEMMA TlsStepSimulates ==
  TlsIInv /\ TlsIInv' /\ [TlsNext]_TlsVars => [TlsContract!Next]_(TlsContract!vars)
  <1> SUFFICES ASSUME TlsIInv, TlsIInv', [TlsNext]_TlsVars
               PROVE  [TlsContract!Next]_(TlsContract!vars)
    OBVIOUS
  <1>h. /\ InUse => TlsHeld = TRUE
        /\ ~InUse => TlsHeld = FALSE
        /\ InUse' => TlsHeld' = TRUE
        /\ ~InUse' => TlsHeld' = FALSE
    <2>1. (InUse => TlsHeld) /\ (~InUse => ~TlsHeld)
      BY Apart DEF TlsIInv, TlsOwnership, TlsHeld
    <2>2. (InUse' => TlsHeld') /\ (~InUse' => ~TlsHeld')
      BY Apart DEF TlsIInv, TlsOwnership, TlsHeld
    <2>3. TlsHeld \in BOOLEAN /\ TlsHeld' \in BOOLEAN
      BY DEF TlsHeld
    <2>. QED BY <2>1, <2>2, <2>3
  <1>p. /\ pc' = "create" => Phase' = "start"
        /\ pc' \in {"verify", "verify_failed"} => Phase' = "created"
        /\ pc' \in {"batch", "loop", "measure_failed"} => Phase' = "verified"
        /\ pc' \in {"create_failed", "failed"} => Phase' = "failed"
        /\ pc' = "done" => Phase' = "done"
    BY DEF Phase
  <1> USE PhaseFacts, <1>h, <1>p DEF InUse, TlsContract!vars
  <1>1. CASE TlsCreateRefused \/ TlsCreateFails \/ CreatePairFails
    <2>1. pc = "create" /\ pc' = "create_failed" /\ batches' = batches
      BY <1>1 DEF TlsCreateRefused, TlsCreateFails, CreatePairFails
    <2>. QED BY <2>1 DEF TlsContract!Next, TlsContract!Fail
  <1>2. CASE TlsCreate
    BY <1>2 DEF TlsCreate, TlsContract!Next, TlsContract!Create
  <1>3. CASE TlsVerify
    <2>1. pc = "verify" /\ pc' \in {"batch", "verify_failed"} /\ batches' = batches
      BY <1>3 DEF TlsVerify
    <2>. QED BY <2>1 DEF TlsContract!Next, TlsContract!Verify
  <1>4. CASE TlsStartBatch \/ Handshake \/ DestroyPair \/ Transfer \/ TlsClockFails
    <2>1. /\ pc \in {"batch", "loop"} /\ pc' \in {"loop", "measure_failed"}
          /\ batches' = batches
      BY <1>4 DEF TlsStartBatch, Handshake, DestroyPair, Transfer, TlsClockFails
    <2>. QED BY <2>1
  <1>5. CASE TlsEndBatch
    <2>1. pc = "loop" /\ pc' \in {"batch", "measure_failed"} /\ batches' \in {batches, batches + 1}
      BY <1>5 DEF TlsEndBatch
    <2>. QED BY <2>1 DEF TlsContract!Next, TlsContract!Measure
  <1>6. CASE TlsFinish
    BY <1>6 DEF TlsFinish, TlsContract!Next, TlsContract!Finish
  <1>7. CASE TlsUnwind
    <2>1. Unwinding /\ pc' = "failed" /\ batches' = batches
      BY <1>7 DEF TlsUnwind
    <2>. QED BY <2>1 DEF Unwinding, TlsContract!Next, TlsContract!Fail
  <1>8. CASE UNCHANGED TlsVars
    BY <1>8 DEF TlsVars, memory, Phase, TlsHeld
  <1>. QED
    BY <1>1, <1>2, <1>3, <1>4, <1>5, <1>6, <1>7, <1>8 DEF TlsNext, TlsStep, TlsTerminated

(* The TLS backend, as run_case of src/tls_main.c drives it, keeps the     *)
(* contract of Lifecycle.                                                  *)
THEOREM TlsCaseImplementsLifecycle == TlsSpec => TlsImplements
  BY TlsInitSimulates, TlsStepSimulates, TlsAlwaysIInv, PTL
     DEF TlsSpec, TlsImplements, TlsContract!Spec
==============================================================================
