\* A client that may send two pieces through a tunnel, a server that may close.
SPECIFICATION SpecExchange
CONSTANTS
  BufferSize = 2
  MaxWritten <- Bounds
  Message <- Messages
  BodyLimit <- Limits
  IdleBudget = 2
INVARIANTS
  ProxySurvives
