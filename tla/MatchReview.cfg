\* Three transactions on the matches of two properties, from six states.
CONSTANTS
  t1 = t1
  t2 = t2
  t3 = t3
  None = None
  Actors = {t1, t2, t3}
  Properties = {1, 2}
  Ids <- MCIds
  Plans <- MCPlans
  Worlds <- MCWorlds
SPECIFICATION Spec
INVARIANTS
  IInv
  DuplicateNamed
  
PROPERTIES
  OneOpenPerPlace
  ApprovedOnCurrentFacts
  SharedOnlyWhileConsented
  Finality
