\* Three transactions over three properties, from three states.
CONSTANTS
  t1 = t1
  t2 = t2
  t3 = t3
  x = x
  y = y
  None = None
  Actors = {t1, t2, t3}
  Properties <- MCProperties
  Places = {x, y}
  Plans <- MCPlans
  Worlds <- MCWorlds
SPECIFICATION Spec
INVARIANT IInv
PROPERTIES
  DecidedOnce
  ProposedAsIs
  WorkSurfaced
  LockedWritesCanonical
  Ends
