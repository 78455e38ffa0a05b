\* One connection is enough to leave a descriptor open.
SPECIFICATION SpecProxy
CONSTANTS
  Connection = {c1, c2}
  MaxFd = 4
  Fd <- Descriptors
  NULL = NULL
SYMMETRY Symmetry
INVARIANTS
  NothingLeftOpen
