\* Two handlers, three URIs and room for two responses: insertions evict from a
\* list with other nodes, and two contents make an update in place visible.
SPECIFICATION Spec
CONSTANTS
  Thread = {t1, t2}
  URI = {u1, u2, u3}
  Content = {c1, c2}
  Address = {a1, a2, a3}
  Capacity = 2
  NULL = NULL
  Wild = Wild
  Absent = Absent
  Torn = Torn
SYMMETRY Symmetry
INVARIANTS
  TypeOK
  ListRepresentsChain
  NoDuplicateURI
  CapacityRespected
  MapMatchesList
  PointersLeadToTheirURI
  Inductive
PROPERTIES
  ImplementsFifoStore
