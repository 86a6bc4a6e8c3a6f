SPECIFICATION FairSpec
CONSTANTS
  ClientHello = 3
  ServerFlight = 5
  ClientFlight = 2
  Tickets = 2
  Capacity = 2
  MaxAttempts = 22
INVARIANTS TypeOK AttemptsSuffice PipesBounded MemorySafe
PROPERTIES Completes
