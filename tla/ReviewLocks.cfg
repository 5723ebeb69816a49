\* An approval, a consolidation of the property and a close.
CONSTANTS
  t1 = t1
  t2 = t2
  t3 = t3
  None = None
  Actors = {t1, t2, t3}
  Properties = {1, 2}
  Ids <- MCIds
  Plans <- MCCircle
  Worlds <- MCWorlds
SPECIFICATION Spec
INVARIANT NoCircularWait
