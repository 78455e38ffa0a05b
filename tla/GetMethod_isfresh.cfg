\* Two URIs for one place: an eviction between getResponse and isFresh.
SPECIFICATION SpecGet
CONSTANTS
  u1 = u1
  u2 = u2
  Thread = {t1, t2}
  URI = {u1, u2}
  Content <- TwoURIs
  Address = {a1, a2, a3}
  Capacity = 1
  MaxRequests = 3
  ClientTag = {}
  NULL = NULL
  Wild = Wild
  Absent = Absent
  Torn = Torn
  NotModified = NotModified
  OtherStatus = OtherStatus
  Failed = Failed
  ErrorStatus = ErrorStatus
  Lost = Lost
SYMMETRY Symmetry
INVARIANTS
  IsFreshFindsNode
