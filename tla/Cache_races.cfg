\* The accesses the lock does not order.
SPECIFICATION Spec
CONSTANTS
  Thread = {t1, t2}
  URI = {u1, u2}
  Content = {c1}
  Address = {a1, a2}
  Capacity = 1
  NULL = NULL
  Wild = Wild
  Absent = Absent
  Torn = Torn
SYMMETRY Symmetry
INVARIANTS
  DataRaceFree
