------------------------------ MODULE TlsTransfer ------------------------------
(***************************************************************************)
(* The transfer benchmark: transfer_once and the transfer branches of      *)
(* ofb_tls_backend_verify and ofb_tls_backend_run_batch                    *)
(* (backends/openssl_tls.c).  One thread writes a record at the client and *)
(* reads it at the server, over a BIO pair that tls_pair_create left empty *)
(* in this direction (module TlsPair).                                     *)
(*                                                                         *)
(* The library is external.  A record stays in the BIO until a read takes  *)
(* it out whole; a read then returns some of its bytes.  A byte is the     *)
(* transfer it was written in and its position in the message.             *)
(***************************************************************************)
EXTENDS Integers, Sequences

CONSTANTS
  Sizes,          \* values of message_size
  RecordSize,     \* OFB_TLS_RECORD_SIZE, 16384
  MaxFragment,    \* what the library puts in one record at most, 16384
  Overhead,       \* header, content type and tag of a record
  Capacity,       \* the buffer of one direction of the BIO pair, 17 KiB
  Period,         \* the pattern of plaintext repeats after 256 positions
  MaxIterations,  \* bound: transfers in one batch
  MaxBatches      \* bound: batches, the one of verify included

(* main refuses an empty message (src/tls_main.c:236).                     *)
ASSUME TlsTransferAssumption ==
  /\ Sizes \subseteq Nat \ {0}
  /\ RecordSize \in Nat \ {0} /\ MaxFragment \in Nat /\ RecordSize <= MaxFragment
  /\ Overhead \in Nat /\ Capacity \in Nat /\ RecordSize + Overhead <= Capacity
  /\ Period \in Nat \ {0}
  /\ MaxIterations \in Nat \ {0} /\ MaxBatches \in Nat

VARIABLES
  pc,        \* "idle", "write", "read" or "failed"
  size,      \* message_size
  faulty,    \* whether calls of the library may report errors in this run
  batches,   \* batches started
  todo,      \* transfers of this batch that are not complete
  transfer,  \* the number of the transfer that runs
  offset, chunk, received,  \* the locals of transfer_once
  wire,      \* the records in the BIO
  occupied,  \* the bytes they take there
  pending,   \* bytes of the record taken out that were not returned yet
  buffer     \* state->received

locals == <<offset, chunk, received>>
channel == <<wire, occupied, pending>>
vars == <<pc, size, faulty, batches, todo, transfer, locals, channel, buffer>>

Positions == 0 .. size - 1
Garbage == [transfer |-> 0, position |-> 0]
Byte(p) == [transfer |-> transfer, position |-> p]

Init ==
  /\ pc = "idle" /\ size \in Sizes /\ faulty \in BOOLEAN
  /\ batches = 0 /\ todo = 0 /\ transfer = 0
  /\ offset = 0 /\ chunk = 0 /\ received = 0
  /\ wire = << >> /\ occupied = 0 /\ pending = << >>
  /\ buffer = [p \in Positions |-> Garbage]

Lesser(a, b) == IF a < b THEN a ELSE b

-----------------------------------------------------------------------------
(* A caller starts a batch: verify with one transfer, run_batch with the   *)
(* iterations it is given.                                                 *)
Start ==
  /\ pc = "idle" /\ batches < MaxBatches
  /\ \E n \in 1 .. MaxIterations : todo' = n
  /\ batches' = batches + 1 /\ transfer' = transfer + 1
  /\ offset' = 0 /\ pc' = "write"
  /\ UNCHANGED <<size, faulty, chunk, received, channel, buffer>>

(* Mutants: what is left is written at once; every record is a full one.   *)
WholeRest == size - offset
FullRecord == RecordSize

Chunk == IF size - offset > RecordSize THEN RecordSize ELSE size - offset

(* What SSL_write of n bytes adds to the BIO.                              *)
WireSize(n) == n + Overhead * ((n + MaxFragment - 1) \div MaxFragment)

Fits(n) == occupied + WireSize(n) <= Capacity

(* SSL_write takes the whole chunk if its records fit the BIO.             *)
Write ==
  /\ pc = "write" /\ offset < size
  /\ Fits(Chunk)
  /\ chunk' = Chunk /\ received' = 0
  /\ wire' = Append(wire, [i \in 1 .. Chunk |-> Byte(offset + i - 1)])
  /\ occupied' = occupied + WireSize(Chunk)
  /\ pc' = "read"
  /\ UNCHANGED <<size, faulty, batches, todo, transfer, offset, pending, buffer>>

(* Otherwise it reports WANT_WRITE, which transfer_once takes for an error.*)
WriteFails ==
  /\ pc = "write" /\ offset < size
  /\ faulty \/ ~Fits(Chunk)
  /\ pc' = "failed"
  /\ UNCHANGED <<size, faulty, batches, todo, transfer, locals, channel, buffer>>

(* SSL_read on what is left of the record, or on the next one.             *)
Readable == IF pending # << >> THEN pending
            ELSE IF wire # << >> THEN Head(wire) ELSE << >>

Take ==
  IF pending # << >> THEN UNCHANGED <<wire, occupied>>
  ELSE wire' = Tail(wire) /\ occupied' = occupied - WireSize(Len(Head(wire)))

(* Mutants: a read lands at the start of the chunk; the record is taken    *)
(* for complete after one read, or never.                                  *)
ChunkStart == offset
OneRead(got) == TRUE
ReadsOn(got) == received + got > chunk

Target == offset + received
Complete(got) == received + got >= chunk

Read ==
  /\ pc = "read" /\ Readable # << >>
  /\ Take
  /\ \E got \in 1 .. Lesser(chunk - received, Len(Readable)) :
       /\ pending' = SubSeq(Readable, got + 1, Len(Readable))
       /\ buffer' = [p \in Positions |->
                      IF p \in Target .. Target + got - 1
                      THEN Readable[p - Target + 1] ELSE buffer[p]]
       /\ received' = received + got
       /\ IF Complete(got)
            THEN pc' = "write" /\ offset' = offset + chunk
            ELSE UNCHANGED <<pc, offset>>
  /\ UNCHANGED <<size, faulty, batches, todo, transfer, chunk>>

(* Nothing to read is WANT_READ, again an error to transfer_once.          *)
ReadFails ==
  /\ pc = "read"
  /\ faulty \/ Readable = << >>
  /\ pc' = "failed"
  /\ UNCHANGED <<size, faulty, batches, todo, transfer, locals, channel, buffer>>

(* transfer_once returned 0 and the batch has another iteration.           *)
Again ==
  /\ pc = "write" /\ offset >= size /\ todo > 1
  /\ todo' = todo - 1 /\ transfer' = transfer + 1 /\ offset' = 0
  /\ UNCHANGED <<pc, size, faulty, batches, chunk, received, channel, buffer>>

(* CRYPTO_memcmp of plaintext and received: equal positions modulo the     *)
(* period of the pattern hold equal bytes, from whatever transfer.         *)
Equal ==
  \A p \in Positions :
    buffer[p].transfer > 0 /\ buffer[p].position % Period = p % Period

(* The last iteration is done: the buffers are compared.                   *)
Compare ==
  /\ pc = "write" /\ offset >= size /\ todo = 1
  /\ todo' = 0
  /\ pc' = IF Equal THEN "idle" ELSE "failed"
  /\ UNCHANGED <<size, faulty, batches, transfer, locals, channel, buffer>>

Terminated ==
  /\ pc = "failed" \/ (pc = "idle" /\ batches = MaxBatches)
  /\ UNCHANGED vars

Step == Start \/ Write \/ WriteFails \/ Read \/ ReadFails \/ Again \/ Compare

Next == Step \/ Terminated

Spec == Init /\ [][Next]_vars

(* The thread keeps running: no call on a BIO pair waits.                  *)
FairSpec == Spec /\ WF_vars(Step)

-----------------------------------------------------------------------------
(* Properties                                                              *)

Bytes == [transfer : 0 .. transfer, position : Nat]

TypeOK ==
  /\ pc \in {"idle", "write", "read", "failed"}
  /\ size \in Sizes /\ faulty \in BOOLEAN
  /\ batches \in 0 .. MaxBatches /\ todo \in 0 .. MaxIterations
  /\ transfer \in Nat
  /\ offset \in 0 .. size /\ chunk \in 0 .. RecordSize /\ received \in 0 .. chunk
  /\ wire \in Seq(Seq(Bytes)) /\ occupied \in 0 .. Capacity
  /\ pending \in Seq(Bytes)
  /\ buffer \in [Positions -> Bytes]

(* Unless the library reports an error, no transfer fails: a record is     *)
(* only written to an empty BIO, where it fits, and a read is only made    *)
(* while bytes of the record are left, however few a read returns.         *)
NeverFails == ~faulty => pc # "failed"

(* When transfer_once returns 0 every byte in received was written in this *)
(* very transfer and lies in its place.  The comparison after the batch    *)
(* cannot tell: it accepts what an earlier transfer left there.            *)
Delivered ==
  pc = "write" /\ offset >= size => \A p \in Positions : buffer[p] = Byte(p)

(* Between records nothing is left in the BIO or in the library, and while *)
(* one is read exactly the rest of it is: no transfer sees bytes of        *)
(* another.                                                                *)
Unread == [i \in 1 .. chunk - received |-> Byte(offset + received + i - 1)]

ChannelExact ==
  /\ pc \in {"idle", "write"} => wire = << >> /\ pending = << >> /\ occupied = 0
  /\ pc = "read" =>
       \/ wire = << >> /\ pending = Unread /\ occupied = 0
       \/ wire = <<Unread>> /\ pending = << >> /\ received = 0

(* Every batch returns where the library reports no error.                 *)
BatchReturns == ~faulty /\ pc = "write" ~> pc = "idle"
==============================================================================
