-------------------------------- MODULE TlsPair --------------------------------
(***************************************************************************)
(* A client and a server joined by a BIO pair and driven through a TLS 1.3 *)
(* handshake by one thread: tls_pair_create, handshake_step and            *)
(* tls_pair_destroy (backends/openssl_tls.c).                              *)
(*                                                                         *)
(* The library is external.  What it sends is four flights, measured in    *)
(* units of which a call of SSL_do_handshake that is not blocked moves at  *)
(* least one; each direction of the BIO pair buffers Capacity units.       *)
(*                                                                         *)
(*   client  |- ClientHello ->            -- read --     |- ClientFlight ->*)
(*   server  -- read --  |- ServerFlight ->   -- read --   |- Tickets ->   *)
(***************************************************************************)
EXTENDS Integers

CONSTANTS
  ClientHello,     \* the client's first flight
  ServerFlight,    \* ServerHello .. Finished
  ClientFlight,    \* the client's Finished
  Tickets,         \* the tickets the server sends before its call returns 1
  Capacity,        \* the buffer of one direction of the BIO pair
  MaxAttempts      \* the bound on the loop of tls_pair_create

ClientEnd == ClientHello + ServerFlight + ClientFlight
ServerEnd == ClientEnd + Tickets

(* The client is not called again once it has finished, so nobody drains   *)
(* the tickets: they have to fit the BIO (17 KiB by default).  The budget  *)
(* of attempts exceeds what can move.                                      *)
ASSUME TlsPairAssumption ==
  /\ ClientHello \in Nat \ {0} /\ ServerFlight \in Nat \ {0}
  /\ ClientFlight \in Nat \ {0} /\ Tickets \in Nat
  /\ Capacity \in Nat \ {0} /\ Tickets <= Capacity
  /\ MaxAttempts \in Nat /\ MaxAttempts >= ClientEnd + ServerEnd

VARIABLES
  pc,               \* "new", "client", "server", "established", "failed", "end"
  faulty,           \* whether allocations and calls may fail in this run
  attempts,         \* rounds of the loop that did not end it
  client, server,   \* units each side has moved through its flights
  client_finished,  \* the flags of tls_pair_create
  server_finished,
  pair,             \* which pointers of struct tls_pair are not NULL
  heap              \* the life of each SSL and BIO

progress == <<client, server, client_finished, server_finished>>
memory == <<pair, heap>>
vars == <<pc, faulty, attempts, progress, memory>>

Sides == {"client", "server"}
Objects == {"client", "server", "client_bio", "server_bio"}

(* Freeing what is NULL does nothing; an SSL frees the BIO it was given.   *)
Owned(side) == {side, IF side = "client" THEN "client_bio" ELSE "server_bio"}

Free(h, objects) ==
  [o \in Objects |-> IF o \notin objects \/ h[o] = "none" THEN h[o]
                     ELSE IF h[o] = "live" THEN "freed" ELSE "twice"]

Null == [side \in Sides |-> FALSE]

(* Mutant: the loop counter keeps an older value.                          *)
CounterNotReset ==
  /\ pc = "new" /\ faulty \in BOOLEAN /\ attempts \in {0, MaxAttempts + 1}
  /\ client = 0 /\ server = 0
  /\ client_finished = FALSE /\ server_finished = FALSE
  /\ pair = Null
  /\ heap = [o \in Objects |-> "none"]

Init ==
  /\ pc = "new" /\ faulty \in BOOLEAN /\ attempts = 0
  /\ client = 0 /\ server = 0
  /\ client_finished = FALSE /\ server_finished = FALSE
  /\ pair = Null
  /\ heap = [o \in Objects |-> "none"]

-----------------------------------------------------------------------------
(* What has been written to and read from the BIO pair by a side that      *)
(* stands at position p of its flights.                                    *)

Clip(n, low, high) == IF n < low THEN 0 ELSE IF n > high THEN high - low ELSE n - low

SentByClient(p) ==
  Clip(p, 0, ClientHello) + Clip(p, ClientHello + ServerFlight, ClientEnd)
ReadByClient(p) == Clip(p, ClientHello, ClientHello + ServerFlight)
SentByServer(p) ==
  Clip(p, ClientHello, ClientHello + ServerFlight) + Clip(p, ClientEnd, ServerEnd)
ReadByServer(p) ==
  Clip(p, 0, ClientHello) + Clip(p, ClientHello + ServerFlight, ClientEnd)

ToServer == SentByClient(client) - ReadByServer(server)
ToClient == SentByServer(server) - ReadByClient(client)

(* A side reaches position p in one call if what it writes until there     *)
(* fits and what it reads is there.                                        *)
ClientReaches(p) ==
  /\ SentByClient(p) - ReadByServer(server) <= Capacity
  /\ ReadByClient(p) <= SentByServer(server)
ServerReaches(p) ==
  /\ SentByServer(p) - ReadByClient(client) <= Capacity
  /\ ReadByServer(p) <= SentByClient(client)

(* SSL_do_handshake moves until it is blocked or done; it may stop earlier *)
(* but not before it has moved at all.                                     *)
ClientMoves == {p \in client + 1 .. ClientEnd : ClientReaches(p)}
ServerMoves == {p \in server + 1 .. ServerEnd : ServerReaches(p)}

ClientStops == IF ClientMoves = {} THEN {client} ELSE ClientMoves
ServerStops == IF ServerMoves = {} THEN {server} ELSE ServerMoves

(* What SSL_get_error says of a call that stopped at p.                    *)
ClientError(p) ==
  IF ClientHello <= p /\ p < ClientHello + ServerFlight
  THEN "WANT_READ" ELSE "WANT_WRITE"
ServerError(p) ==
  IF p < ClientHello \/ (ClientHello + ServerFlight <= p /\ p < ClientEnd)
  THEN "WANT_READ" ELSE "WANT_WRITE"

-----------------------------------------------------------------------------
(* tls_pair_destroy, on a heap that holds h.                               *)

(* Mutant: the pointers are not reset.                                     *)
PointersKept(h, p) ==
  /\ heap' = Free(h, UNION {Owned(side) : side \in {s \in Sides : p[s]}})
  /\ pair' = p

tls_pair_destroy(h, p) ==
  /\ heap' = Free(h, UNION {Owned(side) : side \in {s \in Sides : p[s]}})
  /\ pair' = Null

(* The allocations: ok are the SSLs that SSL_new returns.  The BIO pair is *)
(* only asked for when both are there.                                     *)
New ==
  /\ pc = "new"
  /\ \E ok \in SUBSET Sides, bios \in BOOLEAN :
       /\ faulty \/ (ok = Sides /\ bios)
       /\ IF ok = Sides /\ bios
            THEN /\ pc' = "client"
                 /\ pair' = [side \in Sides |-> TRUE]
                 /\ heap' = [o \in Objects |-> "live"]
            ELSE /\ pc' = "failed"
                 /\ tls_pair_destroy([o \in Objects |-> IF o \in ok THEN "live" ELSE "none"],
                                     [side \in Sides |-> side \in ok])
  /\ UNCHANGED <<faulty, attempts, progress>>

(* Mutants: room to write is not waited for; the server is not stepped     *)
(* when the client has finished; one finished side is enough.              *)
WantReadOnly(error) == error = "WANT_READ"
SkipsWithClient(finished) == finished \/ client_finished
EitherFinished == client_finished \/ server_finished'

Retried(error) == error \in {"WANT_READ", "WANT_WRITE"}
Skips(finished) == finished
BothFinished == client_finished /\ server_finished'

(* handshake_step on the client.                                           *)
StepClient ==
  /\ pc = "client"
  /\ \/ Skips(client_finished) /\ pc' = "server" /\ UNCHANGED <<progress, memory>>
     \/ /\ ~Skips(client_finished)
        /\ client' \in ClientStops
        /\ client_finished' = (client' = ClientEnd)
        /\ IF client_finished' \/ Retried(ClientError(client'))
             THEN pc' = "server" /\ UNCHANGED memory
             ELSE pc' = "failed" /\ tls_pair_destroy(heap, pair)
        /\ UNCHANGED <<server, server_finished>>
  /\ UNCHANGED <<faulty, attempts>>

(* The round ends: the pair is returned, given up, or stepped again.       *)
EndRound ==
  IF BothFinished
  THEN pc' = "established" /\ UNCHANGED <<attempts, memory>>
  ELSE /\ attempts' = attempts + 1
       /\ IF attempts' < MaxAttempts
            THEN pc' = "client" /\ UNCHANGED memory
            ELSE pc' = "failed" /\ tls_pair_destroy(heap, pair)

(* handshake_step on the server and the end of the round.                  *)
StepServer ==
  /\ pc = "server"
  /\ \/ Skips(server_finished) /\ UNCHANGED <<server, server_finished>> /\ EndRound
     \/ /\ ~Skips(server_finished)
        /\ server' \in ServerStops
        /\ server_finished' = (server' = ServerEnd)
        /\ IF server_finished' \/ Retried(ServerError(server'))
             THEN EndRound
             ELSE /\ pc' = "failed" /\ tls_pair_destroy(heap, pair)
                  /\ UNCHANGED attempts
  /\ UNCHANGED <<faulty, client, client_finished>>

(* Either call may report an error of the library.                         *)
StepFails ==
  /\ faulty
  /\ \/ pc = "client" /\ ~client_finished
     \/ pc = "server" /\ ~server_finished
  /\ pc' = "failed"
  /\ tls_pair_destroy(heap, pair)
  /\ UNCHANGED <<faulty, attempts, progress>>

(* The caller destroys the pair it got; ofb_tls_backend_destroy does so    *)
(* even with the transfer pair whose creation failed.                      *)
Destroy ==
  /\ pc \in {"established", "failed"}
  /\ pc' = "end"
  /\ tls_pair_destroy(heap, pair)
  /\ UNCHANGED <<faulty, attempts, progress>>

Terminated == pc = "end" /\ UNCHANGED vars

Step == New \/ StepClient \/ StepServer \/ StepFails \/ Destroy

Next == Step \/ Terminated

Spec == Init /\ [][Next]_vars

(* The loop never waits: one thread makes both sides' calls.               *)
FairSpec == Spec /\ WF_vars(Step)

-----------------------------------------------------------------------------
(* Properties                                                              *)

TypeOK ==
  /\ pc \in {"new", "client", "server", "established", "failed", "end"}
  /\ faulty \in BOOLEAN /\ attempts \in 0 .. MaxAttempts
  /\ client \in 0 .. ClientEnd /\ server \in 0 .. ServerEnd
  /\ client_finished \in BOOLEAN /\ server_finished \in BOOLEAN
  /\ pair \in [Sides -> BOOLEAN]
  /\ heap \in [Objects -> {"none", "live", "freed", "twice"}]

(* The handshake never stalls: every round of the loop moves something, so *)
(* the loop never gives up because of its bound of 10000 attempts, however *)
(* little fits the BIO pair.                                               *)
AttemptsSuffice == attempts <= client + server /\ attempts < MaxAttempts

(* Neither side ever reads what was not sent, nor is more buffered than    *)
(* fits; and a pair that is returned has nothing left on its way to the    *)
(* server, and exactly the tickets on their way to the client: the first   *)
(* record of a transfer finds an empty buffer.                             *)
PipesBounded ==
  /\ ToServer \in 0 .. Capacity /\ ToClient \in 0 .. Capacity
  /\ pc = "established" => ToServer = 0 /\ ToClient = Tickets

(* Nothing is freed twice, a pair that could not be created leaves nothing *)
(* behind, and one that is returned is whole.                              *)
MemorySafe ==
  /\ \A o \in Objects : heap[o] # "twice"
  /\ pc \in {"failed", "end"} => \A o \in Objects : heap[o] # "live"
  /\ pc = "established" => \A o \in Objects : heap[o] = "live"

(* Where the library reports no error (faulty = FALSE), the pair           *)
(* is created, although either side is at times blocked by a full buffer.  *)
Completes == ~faulty => <>(pc = "established")
==============================================================================
