\* A host in UTC, where nobody overwrites the time of the hit: nothing but the time that is
\* marked makes the age too small.
SPECIFICATION SpecFreshness
CONSTANTS
  None = None
  Bad = Bad
  NoResponse = NoResponse
  Answer <- Answers
  Zone <- AtUTC
  Garbage <- Garbled
  Buffered = {}
  IntMax = 40
  StartTime = 10
  MaxTime = 16
INVARIANTS
  AgeGrowsFromRequest
