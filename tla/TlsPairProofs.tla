----------------------------- MODULE TlsPairProofs -----------------------------
(***************************************************************************)
(* Proofs about TlsPair, for flights and buffers of every size.            *)
(***************************************************************************)
EXTENDS TlsPair, TLAPS

USE TlsPairAssumption

-----------------------------------------------------------------------------
(* The pipes                                                               *)

LEMMA Ends ==
  /\ ClientEnd \in Nat /\ ServerEnd \in Nat
  /\ ClientHello + ServerFlight < ClientEnd /\ ClientEnd <= ServerEnd
  BY DEF ClientEnd, ServerEnd

(* What a side has written and read only grows, and starts at nothing.     *)
LEMMA ClientMonotone ==
  ASSUME NEW p \in 0 .. ClientEnd, NEW q \in p .. ClientEnd
  PROVE  /\ SentByClient(p) \in Nat /\ ReadByClient(p) \in Nat
         /\ SentByClient(p) <= SentByClient(q)
         /\ ReadByClient(p) <= ReadByClient(q)
  BY Ends DEF SentByClient, ReadByClient, Clip, ClientEnd

LEMMA ServerMonotone ==
  ASSUME NEW p \in 0 .. ServerEnd, NEW q \in p .. ServerEnd
  PROVE  /\ SentByServer(p) \in Nat /\ ReadByServer(p) \in Nat
         /\ SentByServer(p) <= SentByServer(q)
         /\ ReadByServer(p) <= ReadByServer(q)
  BY Ends DEF SentByServer, ReadByServer, Clip, ClientEnd, ServerEnd

Positions == client \in 0 .. ClientEnd /\ server \in 0 .. ServerEnd

Pipes == ToServer \in 0 .. Capacity /\ ToClient \in 0 .. Capacity

(* The two sides are never both blocked: what one waits for, the other     *)
(* has sent or has room to send.                                           *)
LEMMA NeverBothBlocked ==
  ASSUME Positions, Pipes, server # ServerEnd, ClientMoves = {}
  PROVE  ServerMoves # {}
  <1>1. client = ClientEnd \/ ~ClientReaches(client + 1)
    BY Ends DEF Positions, ClientMoves
  <1>2. ServerReaches(server + 1)
    <2>1. CASE client = ClientEnd
      BY <2>1, Ends
      DEF Positions, Pipes, ToServer, ToClient, ServerReaches, SentByClient,
          ReadByClient, SentByServer, ReadByServer, Clip, ClientEnd, ServerEnd
    <2>2. CASE client # ClientEnd
      BY <1>1, <2>2, Ends
      DEF Positions, Pipes, ToServer, ToClient, ServerReaches, ClientReaches,
          SentByClient, ReadByClient, SentByServer, ReadByServer, Clip,
          ClientEnd, ServerEnd
    <2>. QED BY <2>1, <2>2
  <1>. QED BY <1>2, Ends DEF Positions, ServerMoves

(* The server finishes last: it reads all that the client sends.           *)
LEMMA ServerLast ==
  ASSUME NEW p \in 0 .. ClientEnd, ReadByServer(ServerEnd) <= SentByClient(p)
  PROVE  p = ClientEnd
  BY Ends DEF SentByClient, ReadByServer, Clip, ClientEnd, ServerEnd

(* When both have finished, only the tickets are buffered.                 *)
LEMMA Drained ==
  ASSUME client = ClientEnd, server = ServerEnd
  PROVE  ToServer = 0 /\ ToClient = Tickets
  BY DEF ToServer, ToClient, SentByClient, ReadByClient, SentByServer,
         ReadByServer, Clip, ClientEnd, ServerEnd

-----------------------------------------------------------------------------
(* The inductive invariant                                                 *)

(* The flags say that a side has reached the end of its flights, and the   *)
(* loop is left as soon as both have.                                      *)
Flags ==
  /\ client_finished <=> client = ClientEnd
  /\ server_finished <=> server = ServerEnd
  /\ pc \in {"new", "client", "server"} => ~server_finished
  /\ pc = "established" => client_finished /\ server_finished

(* Each round that does not end the loop has moved something; within a     *)
(* round, the client has, or the server can.                               *)
Budget ==
  /\ attempts <= client + server
  /\ pc = "server" => attempts < client + server \/ ClientMoves = {}

Memory ==
  /\ pc = "new" => pair = Null /\ \A o \in Objects : heap[o] = "none"
  /\ pc \in {"client", "server", "established"} =>
       /\ pair = [side \in Sides |-> TRUE]
       /\ \A o \in Objects : heap[o] = "live"
  /\ pc \in {"failed", "end"} =>
       /\ pair = Null
       /\ \A o \in Objects : heap[o] \in {"none", "freed"}

IInv == TypeOK /\ Pipes /\ Flags /\ Budget /\ Memory /\ attempts < MaxAttempts

LEMMA InitIInv == Init => IInv
  <1>. SUFFICES ASSUME Init PROVE IInv
    OBVIOUS
  <1>1. /\ pc = "new" /\ attempts = 0 /\ client = 0 /\ server = 0
        /\ client_finished = FALSE /\ server_finished = FALSE
        /\ faulty \in BOOLEAN
        /\ pair = Null /\ heap = [o \in Objects |-> "none"]
    BY DEF Init
  <1>2. 0 < MaxAttempts /\ ClientEnd > 0 /\ ServerEnd > 0
    BY Ends
  <1>3. TypeOK
    <2>1. pair \in [Sides -> BOOLEAN]
      BY <1>1 DEF Null
    <2>2. heap \in [Objects -> {"none", "live", "freed", "twice"}]
      BY <1>1
    <2>3. client_finished \in BOOLEAN /\ server_finished \in BOOLEAN
      BY <1>1
    <2>4. /\ attempts \in 0 .. MaxAttempts
          /\ client \in 0 .. ClientEnd /\ server \in 0 .. ServerEnd
      BY <1>1, <1>2, Ends
    <2>. QED BY <1>1, <2>1, <2>2, <2>3, <2>4 DEF TypeOK
  <1>4. Pipes
    BY <1>1, Ends DEF Pipes, ToServer, ToClient, SentByClient, ReadByClient,
                SentByServer, ReadByServer, Clip
  <1>5. Flags /\ Budget
    BY <1>1, <1>2, Ends DEF Flags, Budget
  <1>6. Memory
    BY <1>1 DEF Memory
  <1>. QED BY <1>1, <1>2, <1>3, <1>4, <1>5, <1>6 DEF IInv

(* Destroying whatever a pair points to leaves nothing live and nothing    *)
(* freed twice, and nothing to destroy again.                              *)
LEMMA Destroys ==
  ASSUME NEW h \in [Objects -> {"none", "live", "freed", "twice"}],
         NEW p \in [Sides -> BOOLEAN],
         \/ (\A side \in Sides : p[side]) /\ (\A o \in Objects : h[o] \in {"none", "live"})
         \/ p = Null /\ \A o \in Objects : h[o] \in {"none", "freed"}
         \/ /\ \A o \in Sides : h[o] = IF p[o] THEN "live" ELSE "none"
            /\ \A o \in Objects \ Sides : h[o] = "none",
         tls_pair_destroy(h, p)
  PROVE  /\ pair' = Null /\ pair' \in [Sides -> BOOLEAN]
         /\ heap' \in [Objects -> {"none", "live", "freed", "twice"}]
         /\ \A o \in Objects : heap'[o] \in {"none", "freed"}
  <1>1. /\ heap' = Free(h, UNION {Owned(side) : side \in {s \in Sides : p[s]}})
        /\ pair' = Null
    BY DEF tls_pair_destroy
  <1>. DEFINE F == UNION {Owned(side) : side \in {s \in Sides : p[s]}}
  <1>2. \A o \in Objects :
          /\ heap'[o] = IF o \notin F \/ h[o] = "none" THEN h[o]
                        ELSE IF h[o] = "live" THEN "freed" ELSE "twice"
    BY <1>1 DEF Free
  <1>3. heap' \in [Objects -> {"none", "live", "freed", "twice"}]
    BY <1>1 DEF Free
  <1>4. CASE (\A side \in Sides : p[side]) /\ (\A o \in Objects : h[o] \in {"none", "live"})
    <2>1. \A o \in Objects : o \in F
      BY <1>4 DEF Owned, Sides, Objects
    <2>. QED BY <1>1, <1>2, <1>3, <1>4, <2>1 DEF Null
  <1>5. CASE p = Null /\ \A o \in Objects : h[o] \in {"none", "freed"}
    <2>1. F = {}
      BY <1>5 DEF Null
    <2>. QED BY <1>1, <1>2, <1>3, <1>5, <2>1 DEF Null
  <1>6. CASE /\ \A o \in Sides : h[o] = IF p[o] THEN "live" ELSE "none"
             /\ \A o \in Objects \ Sides : h[o] = "none"
    <2>1. \A o \in Sides : p[o] => o \in F
      BY DEF Owned
    <2>. QED BY <1>1, <1>2, <1>3, <1>6, <2>1 DEF Null, Objects, Sides
  <1>. QED BY <1>4, <1>5, <1>6

(* One step of the client keeps the pipes within their buffers.            *)
LEMMA ClientPipes ==
  ASSUME Positions, Pipes, client' \in ClientStops, server' = server
  PROVE  Pipes' /\ client' \in client .. ClientEnd
  <1>1. CASE ClientMoves = {}
    <2>1. client' = client
      BY <1>1 DEF ClientStops
    <2>. QED BY <2>1, Ends DEF Positions, Pipes, ToServer, ToClient
  <1>2. CASE ClientMoves # {}
    <2>1. client' \in client .. ClientEnd /\ ClientReaches(client')
      BY <1>2, Ends DEF ClientStops, ClientMoves, Positions
    <2>2. /\ SentByClient(client) \in Nat /\ ReadByClient(client) \in Nat
          /\ SentByClient(client') \in Nat /\ ReadByClient(client') \in Nat
          /\ SentByClient(client) <= SentByClient(client')
          /\ ReadByClient(client) <= ReadByClient(client')
      BY <2>1, ClientMonotone, Ends DEF Positions
    <2>3. SentByServer(server) \in Nat /\ ReadByServer(server) \in Nat
      BY ServerMonotone, Ends DEF Positions
    <2>. QED BY <2>1, <2>2, <2>3 DEF Pipes, ToServer, ToClient, ClientReaches
  <1>. QED BY <1>1, <1>2

LEMMA ServerPipes ==
  ASSUME Positions, Pipes, server' \in ServerStops, client' = client
  PROVE  Pipes' /\ server' \in server .. ServerEnd
  <1>1. CASE ServerMoves = {}
    <2>1. server' = server
      BY <1>1 DEF ServerStops
    <2>. QED BY <2>1, Ends DEF Positions, Pipes, ToServer, ToClient
  <1>2. CASE ServerMoves # {}
    <2>1. server' \in server .. ServerEnd /\ ServerReaches(server')
      BY <1>2, Ends DEF ServerStops, ServerMoves, Positions
    <2>2. /\ SentByServer(server) \in Nat /\ ReadByServer(server) \in Nat
          /\ SentByServer(server') \in Nat /\ ReadByServer(server') \in Nat
          /\ SentByServer(server) <= SentByServer(server')
          /\ ReadByServer(server) <= ReadByServer(server')
      BY <2>1, ServerMonotone, Ends DEF Positions
    <2>3. SentByClient(client) \in Nat /\ ReadByClient(client) \in Nat
      BY ClientMonotone, Ends DEF Positions
    <2>. QED BY <2>1, <2>2, <2>3 DEF Pipes, ToServer, ToClient, ServerReaches
  <1>. QED BY <1>1, <1>2

-----------------------------------------------------------------------------
(* Every step keeps the invariant                                          *)

Heap == [Objects -> {"none", "live", "freed", "twice"}]

LEMMA NewKeeps == IInv /\ New => IInv'
  <1>. SUFFICES ASSUME IInv, New PROVE IInv'
    OBVIOUS
  <1>1. PICK ok \in SUBSET Sides, bios \in BOOLEAN :
          IF ok = Sides /\ bios
            THEN /\ pc' = "client"
                 /\ pair' = [side \in Sides |-> TRUE]
                 /\ heap' = [o \in Objects |-> "live"]
            ELSE /\ pc' = "failed"
                 /\ tls_pair_destroy([o \in Objects |-> IF o \in ok THEN "live" ELSE "none"],
                                     [side \in Sides |-> side \in ok])
    BY DEF New
  <1>2. pc = "new" /\ UNCHANGED <<faulty, attempts, client, server, client_finished, server_finished>>
    BY DEF New, progress
  <1>3. /\ pc' \in {"client", "failed"}
        /\ pair' \in [Sides -> BOOLEAN] /\ heap' \in Heap
        /\ Memory'
    <2>1. CASE ok = Sides /\ bios
      BY <2>1, <1>1 DEF Memory, Heap
    <2>2. CASE ~(ok = Sides /\ bios)
      <3>. DEFINE h == [o \in Objects |-> IF o \in ok THEN "live" ELSE "none"]
                  p == [side \in Sides |-> side \in ok]
      <3>1. h \in Heap /\ p \in [Sides -> BOOLEAN]
        BY DEF Heap
      <3>2. /\ \A o \in Sides : h[o] = IF p[o] THEN "live" ELSE "none"
            /\ \A o \in Objects \ Sides : h[o] = "none"
        BY DEF Objects, Sides
      <3>3. pc' = "failed" /\ tls_pair_destroy(h, p)
        BY <2>2, <1>1
      <3>. HIDE DEF h, p
      <3>4. /\ pair' = Null /\ pair' \in [Sides -> BOOLEAN] /\ heap' \in Heap
            /\ \A o \in Objects : heap'[o] \in {"none", "freed"}
        BY <3>1, <3>2, <3>3, Destroys DEF Heap
      <3>. QED BY <3>3, <3>4 DEF Memory
    <2>. QED BY <2>1, <2>2
  <1>4. TypeOK'
    BY <1>2, <1>3 DEF IInv, TypeOK, Heap
  <1>5. Pipes'
    BY <1>2 DEF IInv, Pipes, ToServer, ToClient
  <1>6. Flags' /\ Budget'
    BY <1>2, <1>3 DEF IInv, Flags, Budget
  <1>. QED BY <1>2, <1>3, <1>4, <1>5, <1>6 DEF IInv

(* Whenever a live pair is given up, or what is left of it is destroyed,   *)
(* the invariant's part about memory holds.                                *)
LEMMA GivenUp ==
  ASSUME IInv, pc # "new", tls_pair_destroy(heap, pair), pc' \in {"failed", "end"}
  PROVE  /\ Memory' /\ pair' \in [Sides -> BOOLEAN] /\ heap' \in Heap
  <1>1. heap \in Heap /\ pair \in [Sides -> BOOLEAN]
    BY DEF IInv, TypeOK, Heap
  <1>2. \/ (\A side \in Sides : pair[side]) /\ (\A o \in Objects : heap[o] \in {"none", "live"})
        \/ pair = Null /\ \A o \in Objects : heap[o] \in {"none", "freed"}
    <2>1. CASE pc \in {"client", "server", "established"}
      BY <2>1 DEF IInv, Memory
    <2>2. CASE pc \in {"failed", "end"}
      BY <2>2 DEF IInv, Memory
    <2>. QED BY <2>1, <2>2 DEF IInv, TypeOK
  <1>3. /\ pair' = Null /\ pair' \in [Sides -> BOOLEAN] /\ heap' \in Heap
        /\ \A o \in Objects : heap'[o] \in {"none", "freed"}
    BY <1>1, <1>2, Destroys DEF Heap
  <1>. QED BY <1>3 DEF Memory

LEMMA StepClientKeeps == IInv /\ StepClient => IInv'
  <1>. SUFFICES ASSUME IInv, StepClient PROVE IInv'
    OBVIOUS
  <1>1. pc = "client" /\ UNCHANGED <<faulty, attempts, server, server_finished>>
    BY DEF StepClient, progress
  <1>2. /\ Positions /\ Pipes /\ attempts <= client + server
        /\ attempts < MaxAttempts /\ attempts \in Nat
    BY <1>1 DEF IInv, TypeOK, Positions, Budget
  <1>3. ~server_finished /\ (client_finished <=> client = ClientEnd)
    BY <1>1 DEF IInv, Flags
  <1>4. CASE client_finished
    <2>1. pc' = "server" /\ UNCHANGED <<client, client_finished, pair, heap>>
      BY <1>4, <1>1 DEF StepClient, Skips, progress, memory
    <2>2. ClientMoves' = {}
      BY <1>1, <1>4, <1>3, <2>1, Ends DEF ClientMoves
    <2>. QED
      BY <1>1, <2>1, <2>2
      DEF IInv, TypeOK, Pipes, ToServer, ToClient, Flags, Budget, Memory
  <1>5. CASE ~client_finished
    <2>1. /\ client' \in ClientStops
          /\ client_finished' = (client' = ClientEnd)
          /\ \/ pc' = "server" /\ UNCHANGED <<pair, heap>>
             \/ pc' = "failed" /\ tls_pair_destroy(heap, pair)
      BY <1>5 DEF StepClient, Skips, memory
    <2>2. client_finished' \in BOOLEAN /\ (client_finished' <=> client' = ClientEnd)
      BY <2>1
    <2>3. Pipes' /\ client' \in client .. ClientEnd
      BY <2>1, <1>1, <1>2, ClientPipes
    <2>4. /\ Memory' /\ pair' \in [Sides -> BOOLEAN] /\ heap' \in Heap
      BY <2>1, <1>1, GivenUp DEF IInv, TypeOK, Memory, Heap
    <2>5. TypeOK'
      BY <1>1, <1>2, <2>1, <2>2, <2>3, <2>4 DEF IInv, TypeOK, Heap, Positions
    <2>6. Flags'
      BY <1>1, <1>3, <2>1, <2>2 DEF IInv, Flags
    <2>7. Budget'
      <3>1. CASE ClientMoves = {}
        <4>1. client' = client
          BY <2>1, <3>1 DEF ClientStops
        <4>2. ClientMoves' = {}
          BY <4>1, <3>1, <1>1 DEF ClientMoves, ClientReaches
        <4>. QED BY <4>1, <4>2, <1>1, <1>2 DEF Budget
      <3>2. CASE ClientMoves # {}
        <4>1. PICK p \in client + 1 .. ClientEnd : client' = p
          BY <2>1, <3>2 DEF ClientStops, ClientMoves
        <4>2. client \in Nat /\ server \in Nat
          BY <1>2, Ends DEF Positions
        <4>3. attempts < p + server
          BY <4>1, <4>2, <1>2, Ends
        <4>. QED BY <4>1, <4>2, <4>3, <1>1, <1>2, Ends DEF Budget
      <3>. QED BY <3>1, <3>2
    <2>. QED BY <1>1, <1>2, <2>3, <2>4, <2>5, <2>6, <2>7 DEF IInv
  <1>. QED BY <1>4, <1>5

LEMMA StepServerKeeps == IInv /\ StepServer => IInv'
  <1>. SUFFICES ASSUME IInv, StepServer PROVE IInv'
    OBVIOUS
  <1>1. pc = "server" /\ UNCHANGED <<faulty, client, client_finished>>
    BY DEF StepServer
  <1>2. /\ Positions /\ Pipes
        /\ attempts <= client + server
        /\ attempts < client + server \/ ClientMoves = {}
        /\ attempts < MaxAttempts /\ attempts \in Nat
        /\ server # ServerEnd
    BY <1>1 DEF IInv, TypeOK, Positions, Flags, Budget
  <1>3. ~server_finished /\ client_finished \in BOOLEAN
    BY <1>1 DEF IInv, TypeOK, Flags
  <1>4. /\ server' \in ServerStops
        /\ server_finished' = (server' = ServerEnd)
        /\ \/ EndRound
           \/ /\ pc' = "failed" /\ tls_pair_destroy(heap, pair)
              /\ UNCHANGED attempts
    BY <1>3 DEF StepServer, Skips
  <1>5. server_finished' \in BOOLEAN /\ (server_finished' <=> server' = ServerEnd)
    BY <1>4
  <1>6. Pipes' /\ server' \in server .. ServerEnd
    BY <1>1, <1>2, <1>4, ServerPipes
  <1>7. PICK q \in server .. ServerEnd : server' = q /\ attempts + 1 <= client + q
    <2>. client \in Nat /\ server \in Nat
      BY <1>2, Ends DEF Positions
    <2>1. CASE ServerMoves = {}
      <3>1. ClientMoves # {}
        BY <2>1, <1>2, NeverBothBlocked
      <3>2. server' = server
        BY <2>1, <1>4 DEF ServerStops
      <3>. QED BY <3>1, <3>2, <1>2, Ends DEF Positions
    <2>2. CASE ServerMoves # {}
      <3>1. PICK q \in server + 1 .. ServerEnd : server' = q
        BY <2>2, <1>4 DEF ServerStops, ServerMoves
      <3>2. q \in server .. ServerEnd /\ attempts + 1 <= client + q
        BY <1>2, Ends
      <3>. QED BY <3>1, <3>2
    <2>. QED BY <2>1, <2>2
  <1>8. Positions'
    BY <1>1, <1>2, <1>6, Ends DEF Positions
  <1>9. server' = ServerEnd => client' = ClientEnd
    <2>. SUFFICES ASSUME server' = ServerEnd PROVE client' = ClientEnd
      OBVIOUS
    <2>1. SentByClient(client') \in Int /\ ReadByServer(ServerEnd) \in Int
      BY <1>8, Ends DEF Positions, SentByClient, ReadByServer, Clip
    <2>2. ReadByServer(ServerEnd) <= SentByClient(client')
      BY <1>6, <2>1 DEF Pipes, ToServer
    <2>. QED BY <1>8, <2>2, ServerLast DEF Positions
  <1>10. CASE client_finished /\ server_finished' /\ EndRound
    <2>1. pc' = "established" /\ UNCHANGED <<attempts, pair, heap>>
      BY <1>10 DEF EndRound, BothFinished, memory
    <2>2. TypeOK' /\ Memory'
      BY <1>1, <1>5, <1>8, <2>1 DEF IInv, TypeOK, Memory, Positions
    <2>3. Flags'
      BY <1>1, <1>5, <1>10, <2>1 DEF IInv, Flags
    <2>4. Budget'
      BY <1>1, <1>2, <1>7, <2>1, Ends DEF Budget, Positions
    <2>. QED BY <1>2, <1>6, <2>1, <2>2, <2>3, <2>4 DEF IInv
  <1>11. CASE ~(client_finished /\ server_finished') /\ EndRound
    <2>1. ~server_finished'
      BY <1>1, <1>5, <1>9, <1>11 DEF IInv, Flags
    <2>2. attempts' = attempts + 1
      BY <1>11 DEF EndRound, BothFinished
    <2>3. q # ServerEnd /\ q < ServerEnd
      BY <1>5, <1>7, <2>1, Ends
    <2>4. attempts + 1 < MaxAttempts
      <3>1. client \in 0 .. ClientEnd
        BY <1>2 DEF Positions
      <3>. QED BY <3>1, <1>2, <1>7, <2>3, Ends DEF Positions
    <2>5. pc' = "client" /\ UNCHANGED <<pair, heap>>
      BY <1>11, <2>2, <2>4 DEF EndRound, BothFinished, memory
    <2>6. TypeOK' /\ Memory'
      BY <1>1, <1>2, <1>5, <1>8, <2>2, <2>4, <2>5 DEF IInv, TypeOK, Memory, Positions
    <2>7. Flags'
      BY <1>1, <1>5, <2>1, <2>5 DEF IInv, Flags
    <2>8. Budget'
      BY <1>1, <1>2, <1>7, <2>2, <2>5, Ends DEF Budget, Positions
    <2>. QED BY <1>2, <1>6, <2>2, <2>4, <2>6, <2>7, <2>8 DEF IInv
  <1>12. CASE pc' = "failed" /\ tls_pair_destroy(heap, pair) /\ UNCHANGED attempts
    <2>1. Memory' /\ pair' \in [Sides -> BOOLEAN] /\ heap' \in Heap
      BY <1>1, <1>12, GivenUp
    <2>2. TypeOK'
      BY <1>1, <1>5, <1>8, <1>12, <2>1 DEF IInv, TypeOK, Positions, Heap
    <2>3. Flags'
      BY <1>1, <1>5, <1>12 DEF IInv, Flags
    <2>4. Budget'
      BY <1>1, <1>2, <1>7, <1>12, Ends DEF Budget, Positions
    <2>. QED BY <1>2, <1>6, <1>12, <2>1, <2>2, <2>3, <2>4 DEF IInv
  <1>. QED BY <1>4, <1>10, <1>11, <1>12

LEMMA StepFailsKeeps == IInv /\ StepFails => IInv'
  <1>. SUFFICES ASSUME IInv, StepFails PROVE IInv'
    OBVIOUS
  <1>1. /\ pc \in {"client", "server"} /\ pc' = "failed"
        /\ tls_pair_destroy(heap, pair)
        /\ UNCHANGED <<faulty, attempts, client, server, client_finished, server_finished>>
    BY DEF StepFails, progress
  <1>2. Memory' /\ pair' \in [Sides -> BOOLEAN] /\ heap' \in Heap
    BY <1>1, GivenUp
  <1>. QED
    BY <1>1, <1>2
    DEF IInv, TypeOK, Pipes, ToServer, ToClient, Flags, Budget, Heap

LEMMA DestroyKeeps == IInv /\ Destroy => IInv'
  <1>. SUFFICES ASSUME IInv, Destroy PROVE IInv'
    OBVIOUS
  <1>1. /\ pc \in {"established", "failed"} /\ pc' = "end"
        /\ tls_pair_destroy(heap, pair)
        /\ UNCHANGED <<faulty, attempts, client, server, client_finished, server_finished>>
    BY DEF Destroy, progress
  <1>2. Memory' /\ pair' \in [Sides -> BOOLEAN] /\ heap' \in Heap
    BY <1>1, GivenUp
  <1>. QED
    BY <1>1, <1>2
    DEF IInv, TypeOK, Pipes, ToServer, ToClient, Flags, Budget, Heap

LEMMA NextIInv == IInv /\ [Next]_vars => IInv'
  <1>. SUFFICES ASSUME IInv, [Next]_vars PROVE IInv'
    OBVIOUS
  <1>1. CASE UNCHANGED vars
    BY <1>1
    DEF IInv, TypeOK, Pipes, ToServer, ToClient, Flags, Budget, ClientMoves,
        ClientReaches, Memory, vars, progress, memory
  <1>. QED
    BY <1>1, NewKeeps, StepClientKeeps, StepServerKeeps, StepFailsKeeps, DestroyKeeps
    DEF Next, Step, Terminated

LEMMA AlwaysIInv == Spec => []IInv
  BY InitIInv, NextIInv, PTL DEF Spec

-----------------------------------------------------------------------------
(* Theorems                                                                *)

(* Every variable has its type.                                            *)
THEOREM TypeCorrect == Spec => []TypeOK
  BY AlwaysIInv, PTL DEF IInv

(* The handshake loop makes progress in every round and never runs into    *)
(* its bound of attempts (backends/openssl_tls.c:108), for flights and     *)
(* buffers of every size.                                                  *)
THEOREM LoopNeverExhausted == Spec => []AttemptsSuffice
  <1>1. IInv => AttemptsSuffice
    BY DEF IInv, Budget, AttemptsSuffice
  <1>. QED BY <1>1, AlwaysIInv, PTL

(* The BIO pair never holds more than fits it, and the pair that           *)
(* tls_pair_create returns has nothing on its way to the server.           *)
THEOREM PipesCorrect == Spec => []PipesBounded
  <1>1. IInv => PipesBounded
    BY Drained DEF IInv, Pipes, Flags, PipesBounded
  <1>. QED BY <1>1, AlwaysIInv, PTL

(* Nothing leaks and nothing is freed twice on any path through            *)
(* tls_pair_create and tls_pair_destroy.                                   *)
THEOREM MemoryCorrect == Spec => []MemorySafe
  <1>1. IInv => MemorySafe
    BY DEF IInv, TypeOK, Memory, MemorySafe
  <1>. QED BY <1>1, AlwaysIInv, PTL

(* Where the library reports no error, no call of the handshake is one     *)
(* that tls_pair_create gives up after: neither the bound of the loop nor  *)
(* an error code it does not retry is ever met.                            *)
NeverGivenUp == ~faulty => pc # "failed"

THEOREM HandshakeNeverGivenUp == Spec => []NeverGivenUp
  <1>1. Init => NeverGivenUp
    BY DEF Init, NeverGivenUp
  <1>2. IInv /\ IInv' /\ NeverGivenUp /\ [Next]_vars => NeverGivenUp'
    <2>0. [Next]_vars => faulty' = faulty
      BY DEF Next, Step, Terminated, vars, New, StepClient, StepServer, StepFails, Destroy
    <2> SUFFICES ASSUME IInv, IInv', NeverGivenUp, [Next]_vars, ~faulty PROVE pc' # "failed"
      BY <2>0 DEF NeverGivenUp
    <2>1. CASE New
      BY <2>1 DEF New
    <2>2. CASE StepClient
      BY <2>2 DEF StepClient, ClientError, Retried
    <2>3. CASE StepServer
      <3>1. EndRound
        BY <2>3 DEF StepServer, ServerError, Retried
      <3>2. attempts' < MaxAttempts
        BY DEF IInv
      <3>. QED BY <3>1, <3>2 DEF EndRound
    <2>4. CASE StepFails \/ Destroy \/ UNCHANGED vars
      BY <2>4 DEF StepFails, Destroy, vars, NeverGivenUp
    <2>. QED BY <2>1, <2>2, <2>3, <2>4 DEF Next, Step, Terminated
  <1>. QED BY <1>1, <1>2, AlwaysIInv, PTL DEF Spec

-----------------------------------------------------------------------------
(* Termination                                                             *)

(* What is left to do, at most: two calls for each unit still to be moved. *)
(* The bound of the loop has no part in it.                                *)
Remaining ==
  CASE pc = "new" -> 2 * (ClientEnd + ServerEnd) + 4
    [] pc = "client" -> 2 * (ClientEnd + ServerEnd - attempts) + 3
    [] pc = "server" -> 2 * (ClientEnd + ServerEnd - attempts) + 2
    [] pc \in {"established", "failed"} -> 1
    [] OTHER -> 0

Forward == Remaining \in Nat /\ Remaining' \in Nat /\ Remaining' < Remaining

LEMMA StepsForward == IInv /\ IInv' /\ Step => Forward
  <1> SUFFICES ASSUME IInv, IInv', Step PROVE Forward
    OBVIOUS
  <1>1. /\ ClientEnd + ServerEnd \in Nat
        /\ attempts \in Nat /\ attempts <= ClientEnd + ServerEnd
    BY Ends DEF IInv, TypeOK, Budget
  <1>2. attempts' \in Nat /\ attempts' <= ClientEnd + ServerEnd
    <2>1. PICK c \in 0 .. ClientEnd, s \in 0 .. ServerEnd, n \in 0 .. MaxAttempts :
            client' = c /\ server' = s /\ attempts' = n /\ n <= c + s
      BY DEF IInv, TypeOK, Budget, ClientEnd, ServerEnd
    <2>. QED BY <2>1, Ends
  <1>3. CASE New
    <2>1. pc = "new" /\ pc' \in {"client", "failed"} /\ attempts' = attempts
      BY <1>3 DEF New
    <2>. QED BY <1>1, <1>2, <2>1, Ends DEF Forward, Remaining
  <1>4. CASE StepClient
    <2>1. pc = "client" /\ pc' \in {"server", "failed"} /\ attempts' = attempts
      BY <1>4 DEF StepClient
    <2>. QED BY <1>1, <1>2, <2>1, Ends DEF Forward, Remaining
  <1>5. CASE StepServer
    <2>1. /\ pc = "server"
          /\ \/ pc' \in {"established", "failed"}
             \/ pc' = "client" /\ attempts' = attempts + 1
      BY <1>5 DEF StepServer, EndRound
    <2>. QED BY <1>1, <1>2, <2>1, Ends DEF Forward, Remaining
  <1>6. CASE StepFails \/ Destroy
    <2>1. \/ pc \in {"client", "server"} /\ pc' = "failed"
          \/ pc \in {"established", "failed"} /\ pc' = "end"
      BY <1>6 DEF StepFails, Destroy
    <2>. QED BY <1>1, <1>2, <2>1, Ends DEF Forward, Remaining
  <1>. QED BY <1>3, <1>4, <1>5, <1>6 DEF Step

(* Each call of tls_pair_create leaves less to do, although a call may     *)
(* move nothing: the loop is over after as many rounds as units move at    *)
(* most (backends/openssl_tls.c:108-118).                              *)
THEOREM EveryStepIsForward == Spec => [][Forward]_vars
  <1>1. IInv /\ IInv' /\ [Next]_vars => [Forward]_vars
    BY StepsForward DEF Next, Terminated
  <1>. QED BY <1>1, AlwaysIInv, PTL DEF Spec
==============================================================================
