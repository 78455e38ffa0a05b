\* Messages of up to four bytes, read at most two at a time; a tunnel with two ticks of patience.
SPECIFICATION FairSpecExchange
CONSTANTS
  BufferSize = 2
  MaxWritten <- Bounds
  Message <- Messages
  BodyLimit <- Limits
  IdleBudget = 2
INVARIANTS
  TypeOKExchange
  VerdictIgnoresCuts
  NeverWaitsForCompleteMessage
  EveryByteOnce
  FinishedEndIsRelayed
PROPERTIES
  ExchangeEnds
  ImplementsChannel
