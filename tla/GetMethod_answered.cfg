\* A validating request that is answered with neither 200 nor 304.
SPECIFICATION SpecGet
CONSTANTS
  u1 = u1
  u2 = u2
  Thread = {t1, t2}
  URI = {u1}
  Content <- OneURI
  Address = {a1, a2, a3}
  Capacity = 1
  MaxRequests = 3
  ClientTag = {}
  NULL = NULL
  Wild = Wild
  Absent = Absent
  Torn = Torn
  NotModified = NotModified
  OtherStatus = OtherStatus
  Failed = Failed
  ErrorStatus = ErrorStatus
  Lost = Lost
SYMMETRY Symmetry
INVARIANTS
  EveryGetIsAnswered
