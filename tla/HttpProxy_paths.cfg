\* Two connections and two descriptors: a descriptor that is closed is opened again by the
\* other connection, and accept and socket sometimes find none free. Liveness: no symmetry.
SPECIFICATION FairSpecProxy
CONSTANTS
  Connection = {c1, c2}
  MaxFd = 2
  Fd <- Descriptors
  NULL = NULL
INVARIANTS
  TypeOKProxy
  OwnDescriptors
  AtMostOneReply
  OnlyExceptionsLeak
  UniqueIds
  InductiveProxy
PROPERTIES
  EveryConnectionEnds
