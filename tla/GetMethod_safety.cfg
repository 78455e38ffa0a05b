\* Two handlers, two URIs that evict each other, new versions of one of them: updates
\* in place, evictions of a node that a handler holds, validations and refusals to
\* store meet.
SPECIFICATION SpecGet
CONSTANTS
  u1 = u1
  u2 = u2
  Thread = {t1, t2}
  URI = {u1, u2}
  Content <- TwoVersions
  Address = {a1, a2, a3}
  Capacity = 1
  MaxRequests = 3
  ClientTag = {2}
  NULL = NULL
  Wild = Wild
  Absent = Absent
  Torn = Torn
  NotModified = NotModified
  OtherStatus = OtherStatus
  Failed = Failed
  ErrorStatus = ErrorStatus
  Lost = Lost
SYMMETRY Symmetry
INVARIANTS
  TypeOKGet
  AnswersTheRequest
  NeverOlderThanTheRequest
  StoresOnlyCacheable
PROPERTIES
  ImplementsWeb
