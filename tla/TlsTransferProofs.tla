--------------------------- MODULE TlsTransferProofs ---------------------------
(***************************************************************************)
(* Proofs about TlsTransfer, for messages, records and buffers of every    *)
(* size and for every way the library may split its reads.                 *)
(***************************************************************************)
EXTENDS TlsTransfer, SequenceTheorems, TLAPS

USE TlsTransferAssumption

-----------------------------------------------------------------------------
(* A chunk is one record and fits an empty BIO                             *)

LEMMA Quotient ==
  ASSUME NEW a \in Nat, NEW b \in Nat, b > 0
  PROVE  /\ a \div b \in Nat
         /\ (a \div b) * b <= a
         /\ a < (a \div b + 1) * b
  OBVIOUS

LEMMA OneRecord ==
  ASSUME NEW n \in 1 .. RecordSize
  PROVE  WireSize(n) = n + Overhead
  <1>. DEFINE q == (n + MaxFragment - 1) \div MaxFragment
  <1>1. MaxFragment \in Nat /\ MaxFragment >= n /\ n + MaxFragment - 1 \in Nat
    OBVIOUS
  <1>2. /\ q \in Nat
        /\ q * MaxFragment <= n + MaxFragment - 1
        /\ n + MaxFragment - 1 < (q + 1) * MaxFragment
    BY <1>1, Quotient
  <1>. HIDE DEF q
  <1>3. q # 0
    BY <1>1, <1>2
  <1>4. q < 2
    <2>. SUFFICES ASSUME q >= 2 PROVE FALSE
      BY <1>2
    <2>1. PICK d \in Nat : q = d + 2
      BY <1>2, q - 2 \in Nat, q = (q - 2) + 2
    <2>2. q * MaxFragment = d * MaxFragment + 2 * MaxFragment
      BY <2>1, <1>1
    <2>3. d * MaxFragment \in Nat
      BY <1>1
    <2>. QED BY <2>2, <2>3, <1>1, <1>2
  <1>5. q = 1
    BY <1>2, <1>3, <1>4
  <1>. QED BY <1>5, <1>1 DEF WireSize, q

LEMMA ChunkFacts ==
  ASSUME size \in Nat, offset \in Nat, offset < size
  PROVE  /\ Chunk \in 1 .. RecordSize /\ offset + Chunk <= size
         /\ WireSize(Chunk) \in 0 .. Capacity
  <1>1. Chunk \in 1 .. RecordSize /\ offset + Chunk <= size
    BY DEF Chunk
  <1>2. WireSize(Chunk) = Chunk + Overhead
    BY <1>1, OneRecord
  <1>. QED BY <1>1, <1>2

-----------------------------------------------------------------------------
(* The inductive invariant                                                 *)

(* Where the loop stands: the position of the next byte, and what has been *)
(* delivered of this transfer.                                             *)
Cursor ==
  /\ pc \in {"write", "read"} => todo > 0 /\ transfer > 0
  /\ pc = "read" => chunk \in 1 .. RecordSize /\ received < chunk /\ offset + chunk <= size

Prefix ==
  /\ pc = "write" => \A p \in Positions : p < offset => buffer[p] = Byte(p)
  /\ pc = "read" => \A p \in Positions : p < offset + received => buffer[p] = Byte(p)

Occupancy ==
  pc = "read" /\ wire # << >> => occupied = WireSize(chunk)

IInv ==
  /\ TypeOK /\ Cursor /\ Prefix /\ ChannelExact /\ Occupancy
  /\ NeverFails

LEMMA InitIInv == Init => IInv
  <1>. SUFFICES ASSUME Init PROVE IInv
    OBVIOUS
  <1>1. size \in Nat
    BY DEF Init
  <1>2. Garbage \in Bytes
    BY DEF Init, Garbage, Bytes
  <1>3. buffer \in [Positions -> Bytes]
    BY <1>2 DEF Init
  <1>4. TypeOK
    BY <1>1, <1>3 DEF Init, TypeOK
  <1>. QED
    BY <1>4 DEF Init, IInv, Cursor, Prefix, ChannelExact, Occupancy, NeverFails

-----------------------------------------------------------------------------
(* Steps                                                                   *)

LEMMA WriteKeeps == IInv /\ Write => IInv'
  <1>. SUFFICES ASSUME IInv, Write PROVE IInv'
    OBVIOUS
  <1>1. /\ pc = "write" /\ pc' = "read" /\ offset < size
        /\ chunk' = Chunk /\ received' = 0
        /\ wire' = Append(wire, [i \in 1 .. Chunk |-> Byte(offset + i - 1)])
        /\ occupied' = occupied + WireSize(Chunk)
        /\ UNCHANGED <<size, faulty, batches, todo, transfer, offset, pending, buffer>>
    BY DEF Write
  <1>2. size \in Nat /\ offset \in Nat /\ transfer \in Nat
    BY DEF IInv, TypeOK
  <1>3. /\ Chunk \in 1 .. RecordSize /\ offset + Chunk <= size
        /\ WireSize(Chunk) \in 0 .. Capacity
    BY <1>1, <1>2, ChunkFacts
  <1>. DEFINE record == [i \in 1 .. Chunk |-> Byte(offset + i - 1)]
  <1>4. record \in Seq(Bytes)
    BY <1>2, <1>3 DEF Byte, Bytes
  <1>5. wire = << >> /\ pending = << >> /\ occupied = 0
    BY <1>1 DEF IInv, ChannelExact
  <1>6. wire' = <<record>> /\ occupied' = WireSize(Chunk)
    BY <1>1, <1>3, <1>5
  <1>7. Bytes' = Bytes /\ Positions' = Positions
    BY <1>1 DEF Bytes, Positions
  <1>8. wire' \in Seq(Seq(Bytes))
    BY <1>4, <1>6
  <1>9. Unread' = record
    BY <1>1, <1>2, <1>3 DEF Unread, Byte
  <1>. HIDE DEF record
  <1>10. TypeOK'
    BY <1>1, <1>3, <1>6, <1>7, <1>8 DEF IInv, TypeOK
  <1>11. Cursor'
    BY <1>1, <1>3 DEF IInv, Cursor
  <1>12. Prefix'
    <2>. SUFFICES ASSUME NEW p \in Positions, p < offset + received'
                  PROVE  buffer'[p] = Byte(p)'
      BY <1>1, <1>7 DEF Prefix
    <2>1. p < offset
      BY <1>1, <1>2
    <2>. QED BY <2>1, <1>1 DEF IInv, Prefix, Byte
  <1>13. ChannelExact' /\ Occupancy' /\ NeverFails'
    BY <1>1, <1>5, <1>6, <1>9 DEF ChannelExact, Occupancy, NeverFails
  <1>. QED BY <1>10, <1>11, <1>12, <1>13 DEF IInv

(* In the read loop there is something to read: what is left of the record.*)
LEMMA ReadableFacts ==
  ASSUME IInv, pc = "read"
  PROVE  /\ Readable = Unread /\ Readable # << >>
         /\ Len(Readable) = chunk - received
         /\ Readable \in Seq(Bytes)
  <1>1. /\ chunk \in Nat /\ received \in Nat /\ offset \in Nat /\ received < chunk
        /\ transfer \in Nat
    BY DEF IInv, TypeOK, Cursor
  <1>2. Unread \in Seq(Bytes) /\ Len(Unread) = chunk - received
    <2>1. \A i \in 1 .. chunk - received : Byte(offset + received + i - 1) \in Bytes
      BY <1>1 DEF Byte, Bytes
    <2>. QED BY <1>1, <2>1 DEF Unread
  <1>3. Unread # << >>
    BY <1>1, <1>2
  <1>4. Readable = Unread
    BY <1>3 DEF IInv, ChannelExact, Readable
  <1>. QED BY <1>2, <1>3, <1>4

LEMMA ReadKeeps == IInv /\ Read => IInv'
  <1>. SUFFICES ASSUME IInv, Read PROVE IInv'
    OBVIOUS
  <1>1. pc = "read" /\ UNCHANGED <<size, faulty, batches, todo, transfer, chunk>>
    BY DEF Read
  <1>2. /\ Readable = Unread /\ Len(Readable) = chunk - received
        /\ Readable \in Seq(Bytes)
    BY <1>1, ReadableFacts
  <1>3. PICK got \in 1 .. Lesser(chunk - received, Len(Readable)) :
          /\ pending' = SubSeq(Readable, got + 1, Len(Readable))
          /\ buffer' = [p \in Positions |->
                         IF p \in Target .. Target + got - 1
                         THEN Readable[p - Target + 1] ELSE buffer[p]]
          /\ received' = received + got
          /\ IF Complete(got)
               THEN pc' = "write" /\ offset' = offset + chunk
               ELSE UNCHANGED <<pc, offset>>
    BY DEF Read
  <1>4. /\ size \in Nat /\ offset \in Nat /\ received \in Nat /\ chunk \in Nat
        /\ transfer \in Nat /\ received < chunk /\ offset + chunk <= size
        /\ chunk \in 1 .. RecordSize
    BY <1>1 DEF IInv, TypeOK, Cursor
  <1>5. got \in 1 .. chunk - received
    BY <1>2, <1>4 DEF Lesser
  <1>6. /\ Bytes' = Bytes /\ Positions' = Positions
        /\ \A p : Byte(p)' = Byte(p)
    BY <1>1 DEF Bytes, Positions, Byte
  <1>7. wire' = << >> /\ occupied' = 0
    <2>1. CASE wire = << >>
      <3>1. pending # << >> /\ occupied = 0
        BY <1>1, <1>2, <2>1, ReadableFacts DEF IInv, ChannelExact, Readable
      <3>. QED BY <2>1, <3>1 DEF Read, Take
    <2>2. CASE wire # << >>
      <3>1. wire = <<Unread>> /\ pending = << >> /\ received = 0
        BY <1>1, <2>2 DEF IInv, ChannelExact
      <3>2. occupied = WireSize(chunk) /\ occupied \in Nat
        BY <1>1, <2>2 DEF IInv, TypeOK, Occupancy
      <3>3. Head(wire) = Unread /\ Tail(wire) = << >> /\ Len(Unread) = chunk
        BY <3>1, <1>2, <1>4
      <3>4. wire' = << >> /\ occupied' = occupied - WireSize(chunk)
        BY <3>1, <3>3 DEF Read, Take
      <3>. QED BY <3>2, <3>4
    <2>. QED BY <2>1, <2>2
  <1>8. \A p \in Positions : p < offset + received + got => buffer'[p] = Byte(p)
    <2>. SUFFICES ASSUME NEW p \in Positions, p < offset + received + got
                  PROVE  buffer'[p] = Byte(p)
      OBVIOUS
    <2>1. p \in Nat /\ Target = offset + received
      BY <1>4 DEF Positions, Target
    <2>2. CASE p < offset + received
      BY <1>1, <1>3, <1>4, <2>1, <2>2 DEF IInv, Prefix
    <2>3. CASE ~(p < offset + received)
      <3>. DEFINE i == p - Target + 1
      <3>1. p \in Target .. Target + got - 1 /\ i \in 1 .. chunk - received
        BY <1>4, <1>5, <2>1, <2>3
      <3>2. Unread[i] = Byte(offset + received + i - 1)
        BY <3>1 DEF Unread
      <3>3. offset + received + i - 1 = p
        BY <1>4, <2>1
      <3>. QED BY <1>2, <1>3, <3>1, <3>2, <3>3
    <2>. QED BY <2>2, <2>3
  <1>9. buffer' \in [Positions -> Bytes]
    <2>1. \A p \in Positions : buffer'[p] \in Bytes
      <3>. SUFFICES ASSUME NEW p \in Positions PROVE buffer'[p] \in Bytes
        OBVIOUS
      <3>1. p \in Nat /\ Target = offset + received
        BY <1>4 DEF Positions, Target
      <3>2. CASE p \in Target .. Target + got - 1
        <4>1. p - Target + 1 \in 1 .. Len(Readable)
          BY <1>2, <1>4, <1>5, <3>1, <3>2
        <4>2. Readable[p - Target + 1] \in Bytes
          BY <4>1, <1>2
        <4>. QED BY <1>3, <3>2, <4>2
      <3>3. CASE p \notin Target .. Target + got - 1
        BY <1>3, <3>3 DEF IInv, TypeOK
      <3>. QED BY <3>2, <3>3
    <2>. QED BY <1>3, <2>1
  <1>10. /\ pending' \in Seq(Bytes)
         /\ Len(pending') = chunk - received - got
         /\ \A i \in 1 .. chunk - received - got :
              pending'[i] = Byte(offset + received + got + i - 1)
    <2>1. pending' = SubSeq(Unread, got + 1, chunk - received)
      BY <1>2, <1>3
    <2>2. /\ pending' \in Seq(Bytes) /\ Len(pending') = chunk - received - got
          /\ \A i \in 1 .. chunk - received - got : pending'[i] = Unread[got + i]
      <3>1. got + 1 \in Int /\ chunk - received \in Int /\ got + 1 <= chunk - received + 1
        BY <1>4, <1>5
      <3>2. \A j \in got + 1 .. chunk - received : Unread[j] \in Bytes
        BY <1>2, <1>4, <1>5
      <3>3. /\ pending' \in Seq(Bytes)
            /\ Len(pending') = IF got + 1 <= chunk - received
                               THEN chunk - received - (got + 1) + 1 ELSE 0
            /\ \A i \in 1 .. chunk - received - (got + 1) + 1 :
                 pending'[i] = Unread[(got + 1) + i - 1]
        BY <2>1, <3>1, <3>2, SubSeqProperties
      <3>4. chunk - received - (got + 1) + 1 = chunk - received - got
        BY <1>4, <1>5
      <3>5. ASSUME NEW i \in 1 .. chunk - received - got
            PROVE  pending'[i] = Unread[got + i]
        BY <3>3, <3>4, <1>5, (got + 1) + i - 1 = got + i
      <3>. QED BY <3>3, <3>4, <3>5, <1>4, <1>5
    <2>3. ASSUME NEW i \in 1 .. chunk - received - got
          PROVE  pending'[i] = Byte(offset + received + got + i - 1)
      <3>1. got + i \in 1 .. chunk - received
        BY <1>4, <1>5
      <3>2. Unread[got + i] = Byte(offset + received + (got + i) - 1)
        BY <3>1 DEF Unread
      <3>3. offset + received + (got + i) - 1 = offset + received + got + i - 1
        BY <1>4, <1>5
      <3>. QED BY <2>2, <3>2, <3>3
    <2>. QED BY <2>2, <2>3
  <1>11. CASE received + got >= chunk
    <2>1. pc' = "write" /\ offset' = offset + chunk /\ received + got = chunk
      BY <1>3, <1>4, <1>5, <1>11 DEF Complete
    <2>2. pending' = << >>
      BY <1>4, <1>5, <1>10, <2>1
    <2>3. received' = chunk
      BY <1>3, <2>1
    <2>4. TypeOK'
      BY <1>1, <1>4, <1>6, <1>7, <1>9, <1>10, <2>1, <2>3 DEF IInv, TypeOK
    <2>5. Prefix'
      <3>. SUFFICES ASSUME NEW p \in Positions, p < offset'
                    PROVE  buffer'[p] = Byte(p)
        BY <1>6, <2>1 DEF Prefix
      <3>1. p < offset + received + got
        BY <1>4, <1>5, <2>1
      <3>. QED BY <3>1, <1>8
    <2>. QED
      BY <1>1, <1>7, <2>1, <2>2, <2>4, <2>5
      DEF IInv, Cursor, ChannelExact, Occupancy, NeverFails
  <1>12. CASE ~(received + got >= chunk)
    <2>1. pc' = "read" /\ offset' = offset /\ received' = received + got
      BY <1>1, <1>3, <1>12 DEF Complete
    <2>2. received + got \in 0 .. chunk /\ received + got < chunk
      BY <1>4, <1>5, <1>12
    <2>3. TypeOK'
      BY <1>1, <1>4, <1>6, <1>7, <1>9, <1>10, <2>1, <2>2 DEF IInv, TypeOK
    <2>4. Prefix'
      BY <1>1, <1>4, <1>6, <1>8, <2>1 DEF Prefix
    <2>5. pending' = Unread'
      <3>1. Unread' = [i \in 1 .. chunk - (received + got) |-> Byte(offset + (received + got) + i - 1)]
        BY <1>1, <2>1 DEF Unread, Byte
      <3>2. chunk - (received + got) = chunk - received - got
        BY <1>4, <1>5
      <3>3. pending' = [i \in 1 .. chunk - received - got |-> Byte(offset + received + got + i - 1)]
        BY <1>4, <1>5, <1>10
      <3>. QED BY <3>1, <3>2, <3>3, <1>4, <1>5
    <2>6. Cursor'
      BY <1>1, <1>4, <2>1, <2>2 DEF IInv, Cursor
    <2>7. ChannelExact' /\ Occupancy' /\ NeverFails'
      BY <1>7, <2>1, <2>5 DEF ChannelExact, Occupancy, NeverFails
    <2>. QED BY <2>3, <2>4, <2>6, <2>7 DEF IInv
  <1>. QED BY <1>11, <1>12

LEMMA StartKeeps == IInv /\ Start => IInv'
  <1>. SUFFICES ASSUME IInv, Start PROVE IInv'
    OBVIOUS
  <1>1. /\ pc = "idle" /\ pc' = "write" /\ offset' = 0
        /\ batches < MaxBatches /\ batches' = batches + 1
        /\ transfer' = transfer + 1
        /\ UNCHANGED <<size, faulty, chunk, received, wire, occupied, pending, buffer>>
    BY DEF Start, channel
  <1>2. PICK n \in 1 .. MaxIterations : todo' = n
    BY DEF Start
  <1>3. transfer \in Nat /\ batches \in 0 .. MaxBatches /\ size \in Nat
    BY DEF IInv, TypeOK
  <1>4. wire = << >> /\ pending = << >> /\ occupied = 0
    BY <1>1 DEF IInv, ChannelExact
  <1>5. Positions' = Positions /\ \A b \in Bytes : b \in Bytes'
    BY <1>1, <1>3 DEF Positions, Bytes
  <1>6. buffer' \in [Positions' -> Bytes']
    BY <1>1, <1>5 DEF IInv, TypeOK
  <1>7. TypeOK'
    BY <1>1, <1>2, <1>3, <1>4, <1>6 DEF IInv, TypeOK
  <1>8. Prefix'
    BY <1>1, <1>3 DEF Prefix, Positions
  <1>9. Cursor'
    BY <1>1, <1>2, <1>3 DEF Cursor
  <1>. QED
    BY <1>1, <1>4, <1>7, <1>8, <1>9 DEF IInv, ChannelExact, Occupancy, NeverFails

LEMMA AgainKeeps == IInv /\ Again => IInv'
  <1>. SUFFICES ASSUME IInv, Again PROVE IInv'
    OBVIOUS
  <1>1. /\ pc = "write" /\ todo > 1 /\ offset' = 0
        /\ todo' = todo - 1 /\ transfer' = transfer + 1
        /\ UNCHANGED <<pc, size, faulty, batches, chunk, received, wire, occupied, pending, buffer>>
    BY DEF Again, channel
  <1>2. transfer \in Nat /\ todo \in 0 .. MaxIterations /\ size \in Nat
    BY DEF IInv, TypeOK
  <1>3. wire = << >> /\ pending = << >> /\ occupied = 0
    BY <1>1 DEF IInv, ChannelExact
  <1>4. Positions' = Positions /\ \A b \in Bytes : b \in Bytes'
    BY <1>1, <1>2 DEF Positions, Bytes
  <1>5. buffer' \in [Positions' -> Bytes']
    BY <1>1, <1>4 DEF IInv, TypeOK
  <1>6. TypeOK'
    BY <1>1, <1>2, <1>3, <1>5 DEF IInv, TypeOK
  <1>7. Prefix'
    BY <1>1, <1>2 DEF Prefix, Positions
  <1>8. Cursor'
    BY <1>1, <1>2 DEF Cursor
  <1>. QED
    BY <1>1, <1>3, <1>6, <1>7, <1>8 DEF IInv, ChannelExact, Occupancy, NeverFails

(* When the loop has ended, received holds this transfer.                  *)
LEMMA AllDelivered == IInv => Delivered
  <1>. SUFFICES ASSUME IInv, pc = "write", offset >= size, NEW p \in Positions
                PROVE  buffer[p] = Byte(p)
    BY DEF Delivered
  <1>1. p < offset
    BY DEF IInv, TypeOK, Positions
  <1>. QED BY <1>1 DEF IInv, Prefix

LEMMA CompareKeeps == IInv /\ Compare => IInv'
  <1>. SUFFICES ASSUME IInv, Compare PROVE IInv'
    OBVIOUS
  <1>1. /\ pc = "write" /\ offset >= size /\ todo' = 0
        /\ pc' = IF Equal THEN "idle" ELSE "failed"
        /\ UNCHANGED <<size, faulty, batches, transfer, offset, chunk, received, wire,
                       occupied, pending, buffer>>
    BY DEF Compare, locals, channel
  <1>2. Equal
    <2>1. transfer > 0
      BY <1>1 DEF IInv, Cursor
    <2>2. ASSUME NEW p \in Positions
          PROVE  buffer[p].transfer = transfer /\ buffer[p].position = p
      <3>1. Delivered
        BY AllDelivered
      <3>2. buffer[p] = Byte(p)
        BY <3>1, <1>1 DEF Delivered
      <3>. QED BY <3>2 DEF Byte
    <2>. QED BY <2>1, <2>2 DEF Equal
  <1>3. pc' = "idle"
    BY <1>1, <1>2
  <1>4. TypeOK'
    BY <1>1, <1>3 DEF IInv, TypeOK, Positions, Bytes
  <1>. QED
    BY <1>1, <1>3, <1>4
    DEF IInv, Cursor, Prefix, ChannelExact, Occupancy, NeverFails

(* A call fails only when the library does.                                *)
LEMMA FailKeeps == IInv /\ (WriteFails \/ ReadFails) => IInv'
  <1>. SUFFICES ASSUME IInv, WriteFails \/ ReadFails PROVE IInv'
    OBVIOUS
  <1>1. /\ pc' = "failed"
        /\ UNCHANGED <<size, faulty, batches, todo, transfer, offset, chunk, received,
                       wire, occupied, pending, buffer>>
    BY DEF WriteFails, ReadFails, locals, channel
  <1>2. faulty
    <2>1. CASE WriteFails
      <3>1. pc = "write" /\ offset < size /\ occupied = 0
        BY <2>1 DEF WriteFails, IInv, ChannelExact
      <3>2. WireSize(Chunk) \in 0 .. Capacity
        BY <3>1, ChunkFacts DEF IInv, TypeOK
      <3>3. Fits(Chunk)
        BY <3>1, <3>2 DEF Fits
      <3>. QED BY <2>1, <3>3 DEF WriteFails
    <2>2. CASE ReadFails
      BY <2>2, ReadableFacts DEF ReadFails
    <2>. QED BY <2>1, <2>2
  <1>3. TypeOK'
    BY <1>1 DEF IInv, TypeOK, Positions, Bytes
  <1>. QED
    BY <1>1, <1>2, <1>3 DEF IInv, Cursor, Prefix, ChannelExact, Occupancy, NeverFails

LEMMA StutterKeeps == IInv /\ UNCHANGED vars => IInv'
  BY DEF vars, locals, channel, IInv, TypeOK, Cursor, Prefix, ChannelExact, Unread,
         Occupancy, NeverFails, Positions, Bytes, Byte, WireSize

LEMMA NextIInv == IInv /\ [Next]_vars => IInv'
  BY StartKeeps, WriteKeeps, ReadKeeps, AgainKeeps, CompareKeeps, FailKeeps,
     StutterKeeps
  DEF Next, Step, Terminated

LEMMA AlwaysIInv == Spec => []IInv
  BY InitIInv, NextIInv, PTL DEF Spec

-----------------------------------------------------------------------------
(* Theorems                                                                *)

(* Every variable has its type; in particular the BIO is never over full   *)
(* and no index leaves the message.                                        *)
THEOREM TypeCorrect == Spec => []TypeOK
  BY AlwaysIInv, PTL DEF IInv

(* Nothing but an error of the library makes a transfer fail, whatever the *)
(* size of the message and however the reads are split                     *)
(* (backends/openssl_tls.c:131-161).                                       *)
THEOREM TransfersNeverFail == Spec => []NeverFails
  BY AlwaysIInv, PTL DEF IInv

(* What transfer_once reports as received was sent in this transfer and is *)
(* complete and in place.                                                  *)
THEOREM TransfersDeliver == Spec => []Delivered
  BY AlwaysIInv, AllDelivered, PTL

(* The channel holds exactly the unread rest of the record in flight.      *)
THEOREM ChannelCorrect == Spec => []ChannelExact
  BY AlwaysIInv, PTL DEF IInv


-----------------------------------------------------------------------------
(* Termination                                                             *)

(* Twice the bytes of this transfer that have arrived, and one more while  *)
(* a record is on its way.                                                 *)
Moved == IF pc = "read" THEN 2 * (offset + received) + 1 ELSE 2 * offset

Forward ==
  pc \in {"write", "read"} =>
    \/ pc' \in {"idle", "failed"}
    \/ todo' = todo - 1 /\ todo' \in Nat
    \/ todo' = todo /\ Moved' > Moved /\ Moved' <= 2 * size

LEMMA StepsForward == IInv /\ Step => Forward
  <1> SUFFICES ASSUME IInv, Step, pc \in {"write", "read"}
               PROVE  \/ pc' \in {"idle", "failed"}
                      \/ todo' = todo - 1 /\ todo' \in Nat
                      \/ todo' = todo /\ Moved' > Moved /\ Moved' <= 2 * size
    BY DEF Forward
  <1>1. /\ size \in Nat /\ todo \in Nat /\ offset \in 0 .. size
        /\ chunk \in Nat /\ received \in 0 .. chunk
        /\ pc = "read" => received < chunk /\ offset + chunk <= size
    BY DEF IInv, TypeOK, Cursor
  <1>2. CASE Write
    <2>1. /\ pc = "write" /\ pc' = "read" /\ offset < size /\ todo' = todo
          /\ offset' = offset /\ received' = 0
      BY <1>2 DEF Write
    <2>. QED BY <1>1, <2>1 DEF Moved
  <1>3. CASE Read
    <2>1. pc = "read" /\ todo' = todo /\ Readable # << >> /\ chunk' = chunk
      BY <1>3 DEF Read
    <2>2. PICK got \in 1 .. Lesser(chunk - received, Len(Readable)) :
            /\ received' = received + got
            /\ IF Complete(got)
                 THEN pc' = "write" /\ offset' = offset + chunk
                 ELSE UNCHANGED <<pc, offset>>
      BY <1>3 DEF Read
    <2>3. got \in Nat /\ got >= 1
      BY <2>2, ReadableFacts, <2>1
    <2>4. CASE Complete(got)
      <3>1. pc' = "write" /\ offset' = offset + chunk /\ received + 1 <= chunk
        BY <1>1, <2>1, <2>2, <2>4
      <3>. QED BY <1>1, <2>1, <3>1 DEF Moved
    <2>5. CASE ~Complete(got)
      <3>1. pc' = "read" /\ offset' = offset /\ received + got < chunk
        BY <1>1, <2>1, <2>2, <2>3, <2>5 DEF Complete
      <3>. QED BY <1>1, <2>1, <2>2, <2>3, <3>1 DEF Moved
    <2>. QED BY <2>4, <2>5
  <1>4. CASE Again
    BY <1>1, <1>4 DEF Again
  <1>5. CASE Start \/ WriteFails \/ ReadFails \/ Compare
    BY <1>5 DEF Start, WriteFails, ReadFails, Compare
  <1>. QED BY <1>2, <1>3, <1>4, <1>5 DEF Step

(* However little the reads return, each turn of the loops moves the       *)
(* transfer forward within the message, or the batch to its next transfer, *)
(* or ends it: with TransfersNeverFail, a batch delivers all its transfers *)
(* (backends/openssl_tls.c:131-161).                                       *)
THEOREM EveryStepIsForward == Spec => [][Forward]_vars
  <1>1. IInv /\ [Next]_vars => [Forward]_vars
    BY StepsForward DEF Next, Terminated
  <1>. QED BY <1>1, AlwaysIInv, PTL DEF Spec
==============================================================================
