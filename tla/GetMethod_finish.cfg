\* Liveness, without symmetry: every GET ends if the origin answers.
SPECIFICATION SpecFairOrigin
CONSTANTS
  u1 = u1
  u2 = u2
  Thread = {t1, t2}
  URI = {u1}
  Content <- GarbledLater
  Address = {a1, a2, a3}
  Capacity = 1
  MaxRequests = 3
  ClientTag = {}
  NULL = NULL
  Wild = Wild
  Absent = Absent
  Torn = Torn
  NotModified = NotModified
  OtherStatus = OtherStatus
  Failed = Failed
  ErrorStatus = ErrorStatus
  Lost = Lost
PROPERTIES
  GetsFinish
