\* Hours 10 to 16, responses of every kind, three zones.
SPECIFICATION SpecFreshness
CONSTANTS
  None = None
  Bad = Bad
  NoResponse = NoResponse
  Answer <- Answers
  Zone <- Zones
  Garbage <- Garbled
  Buffered = {13, 30}
  IntMax = 40
  StartTime = 10
  MaxTime = 16
INVARIANTS
  TypeOKFreshness
  FreshIsYoung
  AgeGrowsFromFirstHit
  StaleStaysStale
  UntimedIsStale
  OneFraming
