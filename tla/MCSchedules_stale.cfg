SPECIFICATION Spec
CONSTANTS
  a = a
  b = b
  s1 = s1
  s2 = s2
  u1 = u1
  Ids = {a}
  SessionOf <- Sessions2
  Intervals = {1, 2}
  Users = {u1}
  MaxEdits = 4
  MaxFaults = 1
INVARIANTS WaitsItsInterval
CHECK_DEADLOCK FALSE
