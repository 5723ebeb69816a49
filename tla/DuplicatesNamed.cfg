\* A consolidation into a property another one is already an alias of.
CONSTANTS
  t1 = t1
  t2 = t2
  t3 = t3
  None = None
  Actors = {t1, t2, t3}
  Properties = {1, 2, 3}
  Ids <- MCIds
  Plans <- MCNames
  Worlds <- MCNetWorlds
SPECIFICATION Spec
INVARIANT AnyDuplicateNamed
