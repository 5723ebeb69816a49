\* Three calls over every mix of kinds; two records may expire.
CONSTANTS
  c1 = c1
  c2 = c2
  c3 = c3
  k1 = k1
  k2 = k2
  b1 = b1
  b2 = b2
  None = None
  Calls = {c1, c2, c3}
  Keys = {k1, k2}
  Bodies = {b1, b2}
  Plans <- MCPlans
  MaxExpired = 2
SPECIFICATION Spec
INVARIANTS
  IInv
  AtMostOncePerKey
  NoLostUpdate
PROPERTIES
  Atomic
  Answered
